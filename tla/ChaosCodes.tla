----------------------------- MODULE ChaosCodes -----------------------------
(***************************************************************************)
(* The active chaos codes of chaos_fuckery.c: the list of effects that are *)
(* running, the array that finds a code in it, and Chaos_UpdateChaos,      *)
(* which the graph thread calls once per frame to let time pass for them   *)
(* and to start new ones. Between two calls the rest of the play state     *)
(* performs effects and deactivates them.                                  *)
(*                                                                         *)
(* One step of the model is one call from outside, or one step of          *)
(* Chaos_UpdateChaos up to the next iteration of its loops.                *)
(***************************************************************************)
EXTENDS Integers, FiniteSets

CONSTANTS
    Codes,              \* the effects, NONE (CHAOS_CODE_NONE) among them
    NONE, TIMER_UP, LOW_GRAVITY, ENTRANCE_RANDO, SIMON_SAYS, CHANGE_HEALTH,
    Performed,          \* the codes that the game performs once and deactivates
    Dropped,            \* the codes that the game may deactivate before their time
    Spawners,           \* the codes that need an object which may not be loaded
    Situations,         \* what restricts codes: a cutscene, a transition, a pause, ...
    Def,                \* gChaosCodeDefs: [toggle, affect, min_time, max_time] of each code
    Clash,              \* the pairs <<c, d>> such that c is not picked while d is active
    SparedInDeath,      \* the codes not picked while a lost Simon Says waits for the death
    MAX_ACTIVE_CODES, MIN_CHAOS_TIMER, MAX_CHAOS_TIMER, START_CHAOS_TIMER,
    MAX_SECONDS,        \* what a u8 timer holds
    Second,             \* the clock's units in a second (1000000 in the code)
    MaxFrame,           \* the most units between two frames
    ATTEMPTS,           \* 50
    MaxRepeats          \* how many draws in a row may return active or passed over codes

INVALID_CODE_INDEX == 255

ASSUME SizeAssumption ==
    MAX_ACTIVE_CODES \in 1..255 /\ MAX_SECONDS \in Nat /\ Second \in Nat \ {0} /\ MaxFrame \in Nat

ASSUME CodesAssumption ==
    /\ {NONE, TIMER_UP, LOW_GRAVITY, ENTRANCE_RANDO, SIMON_SAYS, CHANGE_HEALTH} \subseteq Codes
    /\ Performed \cup Dropped \cup Spawners \cup SparedInDeath \subseteq Codes
    /\ Clash \subseteq Codes \X Codes

ASSUME DefAssumption ==
    /\ Def \in [Codes -> [toggle : SUBSET Situations, affect : SUBSET Situations,
                          min_time : 0..MAX_SECONDS, max_time : 0..MAX_SECONDS]]
    /\ \A c \in Codes : Def[c].min_time <= Def[c].max_time

ASSUME TimerAssumption ==
    /\ MIN_CHAOS_TIMER \in Nat /\ MAX_CHAOS_TIMER \in Nat /\ MIN_CHAOS_TIMER < MAX_CHAOS_TIMER
    /\ START_CHAOS_TIMER \in Nat /\ ATTEMPTS \in Nat /\ MaxRepeats \in Nat

VARIABLES
    active_codes, active_code_indices, active_code_count,
    effect_restrictions,     \* the situations of the last Chaos_CanUpdateChaos
    update_enabled,
    code_elapsed_usec, chaos_elapsed_usec,   \* time not yet counted as whole seconds
    chaos_timer,             \* seconds until a code is activated
    simon_says_state,
    pc,                      \* where Chaos_UpdateChaos is; "play" outside of it
    elapsed_usec, code_elapsed_seconds, chaos_elapsed_seconds, slot_index, attempts,
    code_add_result          \* locals of Chaos_UpdateChaos, 0 and "ok" outside of it

list == <<active_codes, active_code_indices, active_code_count>>
clocks == <<code_elapsed_usec, chaos_elapsed_usec, elapsed_usec,
            code_elapsed_seconds, chaos_elapsed_seconds>>
picking == <<chaos_timer, attempts, code_add_result>>
situation == <<effect_restrictions, update_enabled>>
vars == <<list, clocks, picking, situation, simon_says_state, pc, slot_index>>

Slots == 0..(MAX_ACTIVE_CODES - 1)
Used == 0..(active_code_count - 1)

\* The bytes of a slot that is not in use; what a slot held before is not kept.
Empty == [code |-> NONE, timer |-> 0]

-----------------------------------------------------------------------------
(* The list. *)

IsCodeInActiveList(c) == active_code_indices[c] < active_code_count

\* Chaos_IsCodeActive: in the list, and no situation suspends its effect.
IsCodeActive(c) == IsCodeInActiveList(c) /\ Def[c].affect \cap effect_restrictions = {}

\* No situation forbids switching the code on or off.
Switchable(c) == Def[c].toggle \cap effect_restrictions = {}

\* What Chaos_ActivateCode returns, and what it does.
AddResult(c) ==
    IF active_code_indices[c] # INVALID_CODE_INDEX THEN "already_active"
    ELSE IF active_code_count < MAX_ACTIVE_CODES THEN "ok" ELSE "no_slots"

ActivateCode(c, seconds) ==
    IF AddResult(c) = "ok"
    THEN /\ active_codes' = [active_codes EXCEPT ![active_code_count] =
                                                    [code |-> c, timer |-> seconds]]
         /\ active_code_indices' = [active_code_indices EXCEPT ![c] = active_code_count]
         /\ active_code_count' = active_code_count + 1
    ELSE UNCHANGED list

\* A slip: the code that moves keeps its old index.
DeactivateCodeAtIndexStale(index) ==
    LET last == active_code_count - 1
    IN  IF index < active_code_count
        THEN /\ active_code_count' = last
             /\ active_codes' = [i \in Slots |->
                                    IF i = last THEN Empty
                                    ELSE IF i = index THEN active_codes[last]
                                    ELSE active_codes[i]]
             /\ active_code_indices' = [active_code_indices EXCEPT
                                           ![active_codes[index].code] = INVALID_CODE_INDEX]
        ELSE UNCHANGED list

\* The last code of the list takes the slot of the one that goes.
DeactivateCodeAtIndex(index) ==
    LET last  == active_code_count - 1
        gone  == active_codes[index].code
        moved == active_codes[last].code
    IN  IF index < active_code_count
        THEN /\ active_code_count' = last
             /\ active_codes' = [i \in Slots |->
                                    IF i = last THEN Empty
                                    ELSE IF i = index THEN active_codes[last]
                                    ELSE active_codes[i]]
             /\ active_code_indices' = [c \in Codes |->
                                           IF index < last /\ c = moved THEN index
                                           ELSE IF c = gone THEN INVALID_CODE_INDEX
                                           ELSE active_code_indices[c]]
        ELSE UNCHANGED list

DeactivateCode(c) == DeactivateCodeAtIndex(active_code_indices[c])

-----------------------------------------------------------------------------
(* Between two calls of Chaos_UpdateChaos. *)

Init ==
    /\ active_codes = [i \in Slots |-> Empty]
    /\ active_code_indices = [c \in Codes |-> INVALID_CODE_INDEX]
    /\ active_code_count = 0
    /\ effect_restrictions = {}
    /\ update_enabled = FALSE
    /\ code_elapsed_usec = 0 /\ chaos_elapsed_usec = 0
    /\ chaos_timer = START_CHAOS_TIMER
    /\ simon_says_state = "idle"
    /\ pc = "play"
    /\ elapsed_usec = 0 /\ code_elapsed_seconds = 0 /\ chaos_elapsed_seconds = 0
    /\ slot_index = 0 /\ attempts = 0 /\ code_add_result = "ok"

\* Play or the player acts out an effect that is active and deactivates it, or
\* deactivates one whether it is in the list or not.
Perform(c) ==
    /\ pc = "play"
    /\ (c \in Performed /\ IsCodeActive(c)) \/ c \in Dropped
    /\ DeactivateCode(c)
    /\ UNCHANGED <<clocks, picking, situation, simon_says_state, pc, slot_index>>

\* Chaos_UpdateSimonSays, and the player's death by any cause (func_80831F34).
SimonSays(next) ==
    /\ pc = "play"
    /\ \/ simon_says_state = "start" /\ next = "wait_input"
       \/ simon_says_state = "wait_input" /\ next \in {"idle", "wait_death"}
       \/ next = "idle"
    /\ simon_says_state' = next
    /\ UNCHANGED <<list, clocks, picking, situation, pc, slot_index>>

-----------------------------------------------------------------------------
(* Chaos_UpdateChaos. *)

\* The game is paused or not in play: nothing but the restrictions is updated.
Disable(now) ==
    /\ pc = "play"
    /\ update_enabled' = FALSE /\ effect_restrictions' = now
    /\ UNCHANGED <<list, clocks, picking, simon_says_state, pc, slot_index>>

\* Chaos_CanUpdateChaos allows the update; "passed" is the time since the last
\* one, which does not count if updates were off.
Enable(now, passed) ==
    /\ pc = "play"
    /\ update_enabled' = TRUE /\ effect_restrictions' = now
    /\ IF update_enabled
       THEN elapsed_usec' = passed /\ UNCHANGED <<code_elapsed_usec, chaos_elapsed_usec>>
       ELSE elapsed_usec' = 0 /\ code_elapsed_usec' = 0 /\ chaos_elapsed_usec' = 0
    /\ pc' = "low_gravity"
    /\ UNCHANGED <<list, picking, simon_says_state, slot_index,
                   code_elapsed_seconds, chaos_elapsed_seconds>>

\* Chaos_UpdateEnabledChaosEffectsAndEntrances ends two effects where the room
\* or the scene does not allow them.
Revoke(at, c, next) ==
    /\ pc = at /\ pc' = next
    /\ DeactivateCode(c) \/ UNCHANGED list
    /\ UNCHANGED <<clocks, picking, situation, simon_says_state, slot_index>>

\* Time passes; twice as fast for the next activation while TIMER_UP is active.
Clock ==
    /\ pc = "clock" /\ pc' = "timers"
    /\ code_elapsed_usec' = code_elapsed_usec + elapsed_usec
    /\ chaos_elapsed_usec' = IF IsCodeActive(TIMER_UP)
                             THEN chaos_elapsed_usec + 2 * elapsed_usec
                             ELSE code_elapsed_usec'
    /\ code_elapsed_seconds' = code_elapsed_usec' \div Second
    /\ chaos_elapsed_seconds' = chaos_elapsed_usec' \div Second
    /\ slot_index' = 0 /\ elapsed_usec' = 0
    /\ UNCHANGED <<list, picking, situation, simon_says_state>>

\* Slips: a subtraction without the comparison; a code that takes a freed slot is
\* skipped; a code that some situation may
\* hold is held in every situation.
CodeTimerLoop(ends(_), skip, compare) ==
    /\ pc = "timers" /\ slot_index < active_code_count
    /\ LET code == active_codes[slot_index]
           timer == code.timer - code_elapsed_seconds
           out   == compare /\ timer <= 0
       IN  \/ /\ ~(out /\ ends(code.code))
              /\ active_codes' = [active_codes EXCEPT ![slot_index] =
                                      [code |-> code.code, timer |-> IF out THEN 0 ELSE timer]]
              /\ slot_index' = slot_index + 1
              /\ UNCHANGED <<active_code_indices, active_code_count>>
           \/ /\ out /\ ends(code.code)
              /\ DeactivateCodeAtIndex(slot_index) /\ slot_index' = slot_index + skip
    /\ UNCHANGED <<clocks, picking, situation, simon_says_state, pc>>

CodeTimerUnchecked == CodeTimerLoop(Switchable, 0, FALSE)
CodeTimerSkips == CodeTimerLoop(Switchable, 1, TRUE)
CodeTimerKeeps == LET Never(c) == Def[c].toggle = {} IN CodeTimerLoop(Never, 0, TRUE)

\* One iteration of the loop over the active codes. A slot whose code goes is
\* visited again, for the code that takes it.
CodeTimer ==
    /\ pc = "timers" /\ slot_index < active_code_count
    /\ LET code == active_codes[slot_index]
           TimerBecomes(seconds) ==
               /\ active_codes' = [active_codes EXCEPT ![slot_index] =
                                       [code |-> code.code, timer |-> seconds]]
               /\ slot_index' = slot_index + 1
               /\ UNCHANGED <<active_code_indices, active_code_count>>
       IN  \/ /\ code_elapsed_seconds < code.timer
              /\ TimerBecomes(code.timer - code_elapsed_seconds)
           \/ /\ code_elapsed_seconds >= code.timer /\ ~Switchable(code.code)
              /\ TimerBecomes(0)
           \/ /\ code_elapsed_seconds >= code.timer /\ Switchable(code.code)
              /\ DeactivateCodeAtIndex(slot_index) /\ UNCHANGED slot_index
    /\ UNCHANGED <<clocks, picking, situation, simon_says_state, pc>>

\* The rest of the update, up to the choice of a new code if it is time for one.
ChaosTimer ==
    /\ pc = "timers" /\ slot_index >= active_code_count
    /\ LET rest == IF chaos_elapsed_seconds > chaos_timer THEN 0
                   ELSE chaos_timer - chaos_elapsed_seconds
       IN  IF chaos_elapsed_seconds > 0 /\ rest = 0
           THEN /\ pc' = "select" /\ attempts' = 0 /\ code_add_result' = "no_slots"
                /\ chaos_timer' \in MIN_CHAOS_TIMER .. (MAX_CHAOS_TIMER - 1)
           ELSE /\ pc' = "play" /\ UNCHANGED <<attempts, code_add_result>>
                /\ chaos_timer' = IF chaos_elapsed_seconds > 0 THEN rest ELSE chaos_timer
    /\ code_elapsed_usec' = code_elapsed_usec - code_elapsed_seconds * Second
    /\ chaos_elapsed_usec' = chaos_elapsed_usec - chaos_elapsed_seconds * Second
    /\ code_elapsed_seconds' = 0 /\ chaos_elapsed_seconds' = 0 /\ slot_index' = 0
    /\ UNCHANGED <<list, situation, simon_says_state, elapsed_usec>>

\* How long c is activated for: a random time below max_time, from min_time.
Durations(c) == IF Def[c].max_time > Def[c].min_time
                THEN Def[c].min_time .. (Def[c].max_time - 1) ELSE {0}

\* A slip: only codes already active are compared, not the pairs they form.
PassedOverActive(c) ==
    \/ ~Switchable(c) \/ IsCodeInActiveList(c)
    \/ c = SIMON_SAYS /\ simon_says_state # "idle"

\* The code is passed over: a situation or a running code forbids it.
PassedOver(c) ==
    \/ ~Switchable(c)
    \/ \E d \in Codes : <<c, d>> \in Clash /\ IsCodeInActiveList(d)
    \/ c \in SparedInDeath /\ simon_says_state = "wait_death"
    \/ c = SIMON_SAYS /\ simon_says_state # "idle"

\* One iteration of the loop that draws a code, and the exit from it. The draw
\* may return any enabled code, which are not modelled, or NONE. A spawner's object
\* may not be loaded. After ATTEMPTS draws the loop does not end, whatever it drew.
Select(c, seconds, over) ==
    LET result == IF over THEN code_add_result ELSE AddResult(c)
        more   == result = "already_active" \/ attempts + 1 >= ATTEMPTS
    IN  /\ pc = "select"
        /\ attempts >= MaxRepeats => ~over /\ ~IsCodeInActiveList(c)
        /\ IF over THEN PassedOver(c) \/ c \in Spawners ELSE ~PassedOver(c)
        /\ IF over THEN UNCHANGED list ELSE ActivateCode(c, seconds)
        /\ pc' = IF more THEN "select" ELSE "play"
        /\ code_add_result' = IF more THEN result ELSE "ok"
        /\ attempts' = IF ~more THEN 0 ELSE IF attempts < ATTEMPTS THEN attempts + 1 ELSE ATTEMPTS
        /\ simon_says_state' =
               IF ~more /\ result = "ok" /\ active_codes'[active_code_count' - 1].code = SIMON_SAYS
               THEN "start" ELSE simon_says_state
        /\ UNCHANGED <<clocks, situation, slot_index, chaos_timer>>

UpdateStep ==
    \/ Revoke("low_gravity", LOW_GRAVITY, "entrance_rando")
    \/ Revoke("entrance_rando", ENTRANCE_RANDO, "clock")
    \/ Clock \/ CodeTimer \/ ChaosTimer
    \/ \E c \in Codes, over \in BOOLEAN : \E seconds \in Durations(c) : Select(c, seconds, over)

PlayStep ==
    \/ \E c \in Codes : Perform(c)
    \/ \E next \in {"idle", "wait_input", "wait_death"} : SimonSays(next)
    \/ \E now \in SUBSET Situations :
           Disable(now) \/ \E passed \in 0..MaxFrame : Enable(now, passed)

Next == PlayStep \/ UpdateStep

Spec == Init /\ [][Next]_vars

\* A call of Chaos_UpdateChaos runs on: it is one thread's plain code.
LiveSpec == Spec /\ WF_vars(UpdateStep)

-----------------------------------------------------------------------------
(* Properties. *)

Timers == 0..MAX_SECONDS

TypeOK ==
    /\ active_codes \in [Slots -> [code : Codes, timer : Timers]]
    /\ active_code_indices \in [Codes -> Slots \cup {INVALID_CODE_INDEX}]
    /\ active_code_count \in 0..MAX_ACTIVE_CODES
    /\ effect_restrictions \in SUBSET Situations /\ update_enabled \in BOOLEAN
    /\ code_elapsed_usec \in Nat /\ chaos_elapsed_usec \in Nat /\ elapsed_usec \in Nat
    /\ code_elapsed_seconds \in Nat /\ chaos_elapsed_seconds \in Nat
    /\ chaos_timer \in Nat /\ slot_index \in 0..MAX_ACTIVE_CODES /\ attempts \in 0..ATTEMPTS
    /\ code_add_result \in {"ok", "already_active", "no_slots"}
    /\ simon_says_state \in {"idle", "start", "wait_input", "wait_death"}
    /\ pc \in {"play", "low_gravity", "entrance_rando", "clock", "timers", "select"}

\* active_codes and active_code_indices are inverse to each other: every slot in
\* use is found through its code, and a code that has an index is in that slot.
\* Otherwise IsCodeInActiveList would answer for another code and a code could be
\* activated twice or never again (Chaos_DeactivateCodeAtIndex, lines 2035-2040).
ListIntact ==
    /\ \A i \in Used : active_code_indices[active_codes[i].code] = i
    /\ \A c \in Codes : active_code_indices[c] # INVALID_CODE_INDEX =>
           active_code_indices[c] \in Used /\ active_codes[active_code_indices[c]].code = c

\* Of two codes each of which is passed over while the other is active, never both
\* are, however long either is held and whatever order they are drawn in
\* (the exclusions of lines 1210-1450).
NoClash ==
    \A c, d \in Codes : c # d /\ <<c, d>> \in Clash /\ <<d, c>> \in Clash
        => ~(IsCodeInActiveList(c) /\ IsCodeInActiveList(d))

Off == -1

\* Within the loop over the timers, codes not yet visited already show the time
\* they will have: time passes for all codes in one step, at the start of the loop.
Shown(c) ==
    LET i     == active_code_indices[c]
        timer == active_codes[i].timer
    IN  IF ~IsCodeInActiveList(c) THEN Off
        ELSE IF pc = "timers" /\ i >= slot_index
        THEN IF code_elapsed_seconds < timer THEN timer - code_elapsed_seconds
             ELSE IF Switchable(c) THEN Off ELSE 0
        ELSE timer

Effects == INSTANCE ActiveEffects WITH left <- [c \in Codes |-> Shown(c)]

\* The list is what ActiveEffects promises: the loop that removes codes from the
\* array while it walks over it takes the elapsed time from every code exactly once
\* and ends exactly those that are out of time and not held, and codes start and
\* end in no other way than by being drawn and by being deactivated.
ImplementsEffects == Effects!Spec

\* If seconds keep passing while nothing is held, every effect ends.
ClearSecond == pc = "timers" /\ slot_index = 0 /\ code_elapsed_seconds > 0 /\ effect_restrictions = {}

EffectsEnd ==
    []<>ClearSecond => \A c \in Codes : IsCodeInActiveList(c) ~> ~IsCodeInActiveList(c)

\* Nothing that changes health is active while a lost game of Simon Says waits for
\* the player to die; it could cancel that death (the comment on lines 1351-1352).
SimonDeathStands ==
    simon_says_state = "wait_death" => ~IsCodeInActiveList(CHANGE_HEALTH)

=============================================================================
