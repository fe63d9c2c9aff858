---------------------------- MODULE ObjectSlots ----------------------------
(***************************************************************************)
(* The slots of the object context (z_scene.c) with the ring of the loads  *)
(* in flight and the DMA manager that serves them in turn.  An object's id *)
(* is positive; a slot shows it negated until the object is in memory.     *)
(***************************************************************************)
EXTENDS Integers, SequencesExt

CONSTANTS
    Objects,             \* the ids of objects
    Sizeless,            \* the objects whose file is empty
    Persistent,          \* the objects Object_InitContext spawns at once
    MAX_OBJECT_REQUESTS, \* 16 in the code
    MaxSlots             \* 64 in the code

ASSUME ObjectsAssumption ==
    /\ Objects \subseteq Nat \ {0} /\ Sizeless \subseteq Objects
    /\ Persistent \in Seq(Objects \ Sizeless)
    /\ MAX_OBJECT_REQUESTS \in Nat \ {0}
    /\ MaxSlots \in Nat /\ Len(Persistent) \in 1 .. MaxSlots - 1

VARIABLES
    slots,                   \* id and load_pending of each slot
    numEntries,
    load_requests,           \* the slot of each request, and whether its message is there
    next_available_request,
    pending_request_count,
    gLoadedObjects,          \* the bit of each object; bit 0 is set for a slot cut off in mid-load
    dma,                     \* the requests the DMA manager has yet to serve, rooms included
    mem,                     \* the object in the memory of each slot, 0 for none
    overtaken                \* history: the slots that a load in flight was not meant for

objectVars == <<slots, numEntries, load_requests, next_available_request,
                pending_request_count, gLoadedObjects, dma, mem, overtaken>>

Slots == 0 .. MaxSlots - 1
Requests == 0 .. MAX_OBJECT_REQUESTS - 1
Room == -1   \* stands for the request of the room's file in dma

\* The slot after the persistent objects: chaos_keep_slot.
ChaosSlot == Len(Persistent)
NumPersistent == ChaosSlot + 1

\* How many of a set of numbers are less than x, and the one that k of them are less than.
Rank(S, x) == Cardinality({y \in S : y < x})
Nth(S, k) == CHOOSE x \in S : Rank(S, x) = k

AbsId(s) == IF slots[s].id < 0 THEN -slots[s].id ELSE slots[s].id
IsLoaded(s) == slots[s].id > 0

DmaEntries ==
    [request : Requests, slot : Slots, id : Objects] \cup [request : {Room}, slot : {0}, id : {0}]

ObjectTypeOK ==
    /\ slots \in [Slots -> [id : Objects \cup {-o : o \in Objects} \cup {0}, load_pending : BOOLEAN]]
    /\ numEntries \in NumPersistent .. MaxSlots
    /\ load_requests \in [Requests -> [slot : Slots, done : BOOLEAN]]
    /\ next_available_request \in Requests
    /\ pending_request_count \in 0 .. MAX_OBJECT_REQUESTS
    /\ gLoadedObjects \subseteq Objects \cup {0}
    /\ dma \in Seq(DmaEntries)
    /\ mem \in [Slots -> Objects \cup {0}]
    /\ overtaken \subseteq Slots

-----------------------------------------------------------------------------
(* Object_InitContext.  Its synchronous loads wait until the DMA manager   *)
(* has served all that came before.                                        *)

\* What the slots are when keep is the object chaos effects have loaded, or 0.
FreshSlots(keep) ==
    [s \in Slots |->
        [id |-> IF s < Len(Persistent) THEN Persistent[s + 1]
                ELSE IF s = ChaosSlot THEN -keep ELSE 0,
         load_pending |-> FALSE]]

InitContext(keep) ==
    /\ dma = <<>>
    /\ slots' = FreshSlots(keep)
    /\ numEntries' = NumPersistent
    /\ next_available_request' = 0 /\ pending_request_count' = 0
    /\ gLoadedObjects' = ToSet(Persistent)
    /\ mem' = [s \in Slots |-> IF s < Len(Persistent) THEN Persistent[s + 1] ELSE 0]
    /\ overtaken' = {}
    /\ UNCHANGED <<load_requests, dma>>

ObjectInit ==
    /\ slots = FreshSlots(0)
    /\ numEntries = NumPersistent
    /\ load_requests = [r \in Requests |-> [slot |-> 0, done |-> FALSE]]
    /\ next_available_request = 0 /\ pending_request_count = 0
    /\ gLoadedObjects = ToSet(Persistent)
    /\ dma = <<>>
    /\ mem = [s \in Slots |-> IF s < Len(Persistent) THEN Persistent[s + 1] ELSE 0]
    /\ overtaken = {}

-----------------------------------------------------------------------------
(* Object_UpdateEntries.                                                   *)

\* A mutant: the index of the oldest request does not wrap around.
FirstRequestNoWrap ==
    IF next_available_request < pending_request_count THEN 0
    ELSE next_available_request - pending_request_count

\* The requests in flight, oldest first, as indices of load_requests.
FirstRequest ==
    next_available_request - pending_request_count
        + (IF next_available_request < pending_request_count THEN MAX_OBJECT_REQUESTS ELSE 0)
Outstanding ==
    [k \in 1 .. pending_request_count |-> (FirstRequest + k - 1) % MAX_OBJECT_REQUESTS]

\* The slots they are for: whatever such a slot is given, the message is yet to turn its sign.
InFlight == {load_requests[Outstanding[k]].slot : k \in DOMAIN Outstanding}

\* How many of them, from the oldest on, have their message.
Finished ==
    CHOOSE n \in 0 .. pending_request_count :
        /\ \A k \in 1 .. n : load_requests[Outstanding[k]].done
        /\ n < pending_request_count => ~load_requests[Outstanding[n + 1]].done

\* Each message changes the sign of its slot's id.
Turns(s) == {k \in 1 .. Finished : load_requests[Outstanding[k]].slot = s}
IdAfterLoads(s) ==
    IF Cardinality(Turns(s)) % 2 = 1 THEN -slots[s].id ELSE slots[s].id

\* A mutant: a slot whose load is in flight asks again.
WantingAgain == {s \in 0 .. numEntries - 1 : IdAfterLoads(s) < 0}

\* The slots that want a load, and those of them with room for a request among
\* the ones up to them: the loop breaks at the first without.
Wanting == {s \in 0 .. numEntries - 1 : IdAfterLoads(s) < 0 /\ ~slots[s].load_pending}
Sized(S) == {s \in S : AbsId(s) \notin Sizeless}
Served ==
    {s \in Wanting : Cardinality({t \in Sized(Wanting) : t <= s})
                         <= MAX_OBJECT_REQUESTS - (pending_request_count - Finished)}
NextRequest(n) == (next_available_request + n) % MAX_OBJECT_REQUESTS
RequestOf(s) == NextRequest(Rank(Sized(Served), s))

UpdateEntries ==
    LET issued == Sized(Served) IN
    /\ slots' = [s \in Slots |->
                   IF s \in issued THEN [slots[s] EXCEPT !.id = IdAfterLoads(s), !.load_pending = TRUE]
                   ELSE IF s \in Served THEN [slots[s] EXCEPT !.id = 0]
                   ELSE [slots[s] EXCEPT !.id = IdAfterLoads(s)]]
    /\ gLoadedObjects' = gLoadedObjects \cup {AbsId(s) : s \in {t \in Slots : Turns(t) # {}}}
    /\ load_requests' = [r \in Requests |->
                           IF \E s \in issued : RequestOf(s) = r
                           THEN [slot |-> CHOOSE s \in issued : RequestOf(s) = r, done |-> FALSE]
                           ELSE load_requests[r]]
    /\ next_available_request' = NextRequest(Cardinality(issued))
    /\ pending_request_count' = pending_request_count - Finished + Cardinality(issued)
    /\ dma' = dma \o [k \in 1 .. Cardinality(issued) |->
                        LET s == Nth(issued, k - 1)
                        IN [request |-> RequestOf(s), slot |-> s, id |-> AbsId(s)]]
    /\ UNCHANGED <<numEntries, mem, overtaken>>

-----------------------------------------------------------------------------

\* A mutant: the load of the object before seems to be the one asked for.
OverwrittenSlotsPending(s, o) == [slots EXCEPT ![s].id = -o]

\* A mutant: the object counts as loaded at once.
OverwrittenSlotsAtOnce(s, o) == [slots EXCEPT ![s] = [id |-> o, load_pending |-> FALSE]]

\* Object_RequestOverwrite: the slot's memory and any load in flight are left alone.
OverwrittenSlots(s, o) == [slots EXCEPT ![s] = [id |-> -o, load_pending |-> FALSE]]
RequestOverwrite(s, o) ==
    /\ slots' = OverwrittenSlots(s, o)
    /\ gLoadedObjects' = gLoadedObjects \ (IF IsLoaded(s) THEN {slots[s].id} ELSE {})
    /\ overtaken' = overtaken \cup ({s} \cap InFlight)
    /\ UNCHANGED <<numEntries, load_requests, next_available_request, pending_request_count,
                   dma, mem>>

\* Scene_CommandObjectList.  The slots from the first on that agree with the list are kept.
\* Behind the end of the list the comparison reads whatever follows it: any outcome.
KeptSlots(list) ==
    LET common == {k \in 0 .. Len(list) :
                      /\ NumPersistent + k <= numEntries
                      /\ \A i \in 1 .. k : slots[NumPersistent + i - 1].id = list[i]}
        most == Max(common)
    IN IF most = Len(list) THEN most .. numEntries - NumPersistent ELSE {most}

\* A slot of the room begins where the object of the slot before it ends: the loads in flight
\* for these slots may run into any slot given out from the first one on.
StrayFrom(first) ==
    {s \in InFlight : s >= first \/ (s >= NumPersistent /\ s \in overtaken)}

\* The slots behind them are cleared; what the list has besides gets slots of its own,
\* unless it is loaded for all, and in any case if chaosObject says that it is loaded for
\* chaos actors.
SceneCommandObjectList(list, chaosObject, kept) ==
    LET cleared == {s \in Slots : NumPersistent + kept <= s /\ s < numEntries}
        bits == gLoadedObjects \ {AbsId(s) : s \in cleared}
        wanted == {i \in kept + 1 .. Len(list) : list[i] \notin bits \/ list[i] = chaosObject}
        first == NumPersistent + kept
        given == first .. first + Cardinality(wanted) - 1
    IN /\ slots' = [s \in Slots |->
                      IF s \in given
                      THEN [id |-> -list[Nth(wanted, s - first)], load_pending |-> FALSE]
                      ELSE IF s \in cleared THEN [slots[s] EXCEPT !.id = 0] ELSE slots[s]]
       /\ gLoadedObjects' = bits
       /\ numEntries' = first + Cardinality(wanted)
       /\ overtaken' = overtaken \cup (IF StrayFrom(first) = {} THEN {} ELSE given)
       /\ UNCHANGED <<load_requests, next_available_request, pending_request_count, mem>>

\* The DMA manager has copied the file of its oldest request and sends the message.
DmaDone ==
    /\ dma # <<>>
    /\ LET e == Head(dma) IN
          /\ mem' = IF e.request = Room THEN mem ELSE [mem EXCEPT ![e.slot] = e.id]
          /\ load_requests' = IF e.request = Room THEN load_requests
                              ELSE [load_requests EXCEPT ![e.request].done = TRUE]
    /\ dma' = Tail(dma)
    /\ UNCHANGED <<slots, numEntries, next_available_request, pending_request_count,
                   gLoadedObjects, overtaken>>

\* Object_GetSlot: the slots of the room come first.  MaxSlots stands for OBJECT_SLOT_NONE.
FirstOf(S) == IF S = {} THEN MaxSlots ELSE Min(S)
GetPersistentSlot(o) == FirstOf({s \in 0 .. NumPersistent - 1 : AbsId(s) = o})
GetSlot(o) ==
    LET own == FirstOf({s \in NumPersistent .. numEntries - 1 : AbsId(s) = o})
    IN IF own # MaxSlots THEN own ELSE GetPersistentSlot(o)

-----------------------------------------------------------------------------

\* The loads in dma, the outstanding requests whose message has not come, and which load is
\* for which request.
Loads == {k \in DOMAIN dma : dma[k].request # Room}
Waiting == {j \in DOMAIN Outstanding : ~load_requests[Outstanding[j]].done}
Serves(k, j) == /\ dma[k].request = Outstanding[j]
                /\ dma[k].slot = load_requests[Outstanding[j]].slot

\* The loads in flight are, in this order, the outstanding requests whose message has not
\* come, and the messages have come to the oldest ones: no request is used again before its
\* message was taken, at any number of loads and however the ring wraps
\* (Object_UpdateEntries).
RequestsInOrder ==
    /\ \A i, j \in DOMAIN Outstanding : i < j /\ i \in Waiting => j \in Waiting
    /\ \A k \in Loads : \E j \in Waiting : Serves(k, j)
    /\ \A j \in Waiting : \E k \in Loads : Serves(k, j)
    /\ \A k, l \in Loads : \A i, j \in Waiting :
          k < l /\ Serves(k, i) /\ Serves(l, j) => i < j

\* An object that a slot says is loaded is in the slot's memory and no load is about to
\* overwrite it (z64object.h:14), however late the loads come.  Not so of a slot that was
\* given another object in this scene while a load was in flight to its memory: the old
\* message says that the new object is there (Object_UpdateEntries, z_scene.c:198), and
\* nothing in the code waits for it.
LoadedIsThere ==
    \A s \in Slots \ overtaken : IsLoaded(s) =>
        mem[s] = slots[s].id /\ \A k \in Loads : dma[k].slot # s

=============================================================================
