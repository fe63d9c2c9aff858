-------------------------- MODULE ChaosCodesProofs --------------------------
(***************************************************************************)
(* Proofs about ChaosCodes, for any set of codes and any sizes: the list   *)
(* and its index array stay inverse to each other, codes that exclude each *)
(* other never meet, and the list implements ActiveEffects. The inductive  *)
(* invariant is IInv: the types and ListIntact, and that the seconds which *)
(* ChaosTimer takes off the clocks are in them.                            *)
(***************************************************************************)
EXTENDS ChaosCodes, FiniteSetTheorems, TLAPS

\* The part of TypeOK that is about the list.
ListType ==
    /\ active_codes \in [Slots -> [code : Codes, timer : Timers]]
    /\ active_code_indices \in [Codes -> Slots \cup {INVALID_CODE_INDEX}]
    /\ active_code_count \in 0..MAX_ACTIVE_CODES

\* A deactivation of a code in use leaves an intact list that has lost that code
\* only: every other keeps its timer, in its slot or, if it was last, in the slot
\* of the code that went.
LEMMA Deactivation ==
    ASSUME ListType, ListIntact, NEW index \in Used, DeactivateCodeAtIndex(index)
    PROVE  /\ ListType' /\ ListIntact'
           /\ \A c \in Codes :
                 /\ IsCodeInActiveList(c)' <=> IsCodeInActiveList(c) /\ c # active_codes[index].code
                 /\ IsCodeInActiveList(c)' =>
                       /\ active_codes'[active_code_indices'[c]].timer =
                              active_codes[active_code_indices[c]].timer
                       /\ \/ active_code_indices'[c] = active_code_indices[c]
                          \/ /\ active_code_indices[c] = active_code_count - 1
                             /\ active_code_indices'[c] = index
<1> DEFINE last == active_code_count - 1
           gone == active_codes[index].code
           moved == active_codes[last].code
<1>1. /\ active_code_count \in 1..MAX_ACTIVE_CODES /\ MAX_ACTIVE_CODES \in 1..255
      /\ index \in 0..last /\ last \in Slots /\ index \in Slots
    BY SizeAssumption DEF ListType, Used, Slots
<1>2. gone \in Codes /\ moved \in Codes /\ active_codes[last] \in [code : Codes, timer : Timers]
    BY <1>1 DEF ListType
<1>3. /\ active_code_count' = last
      /\ active_codes' = [i \in Slots |-> IF i = last THEN Empty
                                          ELSE IF i = index THEN active_codes[last]
                                          ELSE active_codes[i]]
      /\ active_code_indices' = [c \in Codes |-> IF index < last /\ c = moved THEN index
                                                 ELSE IF c = gone THEN INVALID_CODE_INDEX
                                                 ELSE active_code_indices[c]]
    BY <1>1 DEF DeactivateCodeAtIndex
<1>4. Empty \in [code : Codes, timer : Timers]
    BY CodesAssumption, SizeAssumption DEF Empty, Timers
<1>5. ListType'
    BY <1>1, <1>2, <1>3, <1>4 DEF ListType, Slots
<1>6. active_code_indices[gone] = index /\ active_code_indices[moved] = last
    BY <1>1 DEF ListIntact, Used
<1>7. ListIntact'
    BY <1>1, <1>2, <1>3, <1>6 DEF ListIntact, Used, Slots, INVALID_CODE_INDEX, ListType
<1>8. ASSUME NEW c \in Codes
      PROVE  /\ IsCodeInActiveList(c)' <=> IsCodeInActiveList(c) /\ c # gone
             /\ IsCodeInActiveList(c)' =>
                    /\ active_codes'[active_code_indices'[c]].timer =
                           active_codes[active_code_indices[c]].timer
                    /\ \/ active_code_indices'[c] = active_code_indices[c]
                       \/ active_code_indices[c] = last /\ active_code_indices'[c] = index
    BY <1>1, <1>2, <1>3, <1>6 DEF ListIntact, Used, Slots, INVALID_CODE_INDEX, ListType, IsCodeInActiveList
<1> QED
    BY <1>5, <1>7, <1>8

\* An index that no slot in use has, INVALID_CODE_INDEX in particular, changes nothing.
LEMMA NoDeactivation ==
    ASSUME ListType, NEW c \in Codes, DeactivateCode(c), ~IsCodeInActiveList(c)
    PROVE  UNCHANGED list
BY DEF DeactivateCode, DeactivateCodeAtIndex, IsCodeInActiveList

\* An activation of a code that is not in the list puts it there and nowhere else.
LEMMA Activation ==
    ASSUME ListType, ListIntact, NEW c \in Codes, NEW seconds \in Timers,
           ActivateCode(c, seconds), AddResult(c) = "ok"
    PROVE  /\ ListType' /\ ListIntact'
           /\ ~IsCodeInActiveList(c) /\ active_code_count < MAX_ACTIVE_CODES
           /\ IsCodeInActiveList(c)' /\ active_codes'[active_code_indices'[c]].timer = seconds
           /\ \A d \in Codes \ {c} :
                 /\ IsCodeInActiveList(d)' <=> IsCodeInActiveList(d)
                 /\ IsCodeInActiveList(d) =>
                        active_codes'[active_code_indices'[d]] = active_codes[active_code_indices[d]]
<1>1. MAX_ACTIVE_CODES \in 1..255
    BY SizeAssumption
<1>2. /\ active_code_indices[c] = INVALID_CODE_INDEX /\ active_code_count < MAX_ACTIVE_CODES
      /\ active_code_count \in Slots
    BY <1>1 DEF AddResult, ListType, Slots
<1>3. /\ active_codes' = [active_codes EXCEPT ![active_code_count] =
                                                  [code |-> c, timer |-> seconds]]
      /\ active_code_indices' = [active_code_indices EXCEPT ![c] = active_code_count]
      /\ active_code_count' = active_code_count + 1
    BY DEF ActivateCode
<1>4. [code |-> c, timer |-> seconds] \in [code : Codes, timer : Timers]
    OBVIOUS
<1>5. ListType'
    BY <1>1, <1>2, <1>3, <1>4 DEF ListType, Slots
<1>6. ListIntact'
    BY <1>1, <1>2, <1>3 DEF ListIntact, ListType, Used, Slots, INVALID_CODE_INDEX
<1>7. /\ ~IsCodeInActiveList(c) /\ IsCodeInActiveList(c)'
      /\ active_codes'[active_code_indices'[c]].timer = seconds
    BY <1>1, <1>2, <1>3 DEF ListType, IsCodeInActiveList, INVALID_CODE_INDEX, Slots
<1>8. ASSUME NEW d \in Codes \ {c}
      PROVE  /\ IsCodeInActiveList(d)' <=> IsCodeInActiveList(d)
             /\ IsCodeInActiveList(d) =>
                    active_codes'[active_code_indices'[d]] = active_codes[active_code_indices[d]]
    BY <1>1, <1>2, <1>3 DEF ListType, ListIntact, IsCodeInActiveList, INVALID_CODE_INDEX, Slots, Used
<1> QED
    BY <1>2, <1>5, <1>6, <1>7, <1>8

-----------------------------------------------------------------------------
(* The inductive invariant. *)

RestType ==
    /\ effect_restrictions \in SUBSET Situations /\ update_enabled \in BOOLEAN
    /\ code_elapsed_usec \in Nat /\ chaos_elapsed_usec \in Nat /\ elapsed_usec \in Nat
    /\ code_elapsed_seconds \in Nat /\ chaos_elapsed_seconds \in Nat
    /\ chaos_timer \in Nat /\ slot_index \in 0..MAX_ACTIVE_CODES /\ attempts \in 0..ATTEMPTS
    /\ code_add_result \in {"ok", "already_active", "no_slots"}
    /\ simon_says_state \in {"idle", "start", "wait_input", "wait_death"}
    /\ pc \in {"play", "low_gravity", "entrance_rando", "clock", "timers", "select"}

LEMMA TypeParts == TypeOK <=> ListType /\ RestType
BY DEF TypeOK, ListType, RestType

\* What is taken off the clocks at the end of the timers is no more than they hold.
SecondsCounted ==
    pc = "timers" => /\ code_elapsed_seconds * Second <= code_elapsed_usec
                     /\ chaos_elapsed_seconds * Second <= chaos_elapsed_usec

IInv == ListType /\ RestType /\ ListIntact /\ SecondsCounted

\* The whole seconds of a time, and what remains of it.
LEMMA Division ==
    ASSUME NEW a \in Nat, NEW b \in Nat \ {0}
    PROVE  a \div b \in Nat /\ (a \div b) * b \in Nat /\ (a \div b) * b <= a
OBVIOUS

LEMMA Unchanged ==
    ASSUME ListType, ListIntact, UNCHANGED list
    PROVE  ListType' /\ ListIntact' /\ \A c \in Codes : IsCodeInActiveList(c)' <=> IsCodeInActiveList(c)
BY DEF list, ListType, ListIntact, Used, IsCodeInActiveList

\* An index below the count is that of a slot in use.
LEMMA IndexUsed ==
    ASSUME ListType, NEW c \in Codes, IsCodeInActiveList(c)
    PROVE  active_code_indices[c] \in Used
BY SizeAssumption DEF ListType, IsCodeInActiveList, Used, Slots, INVALID_CODE_INDEX

LEMMA DeactivateKeeps ==
    ASSUME ListType, ListIntact, NEW c \in Codes, DeactivateCode(c)
    PROVE  ListType' /\ ListIntact' /\ \A d \in Codes : IsCodeInActiveList(d)' => IsCodeInActiveList(d)
<1>1. CASE IsCodeInActiveList(c)
    BY <1>1, IndexUsed, Deactivation DEF DeactivateCode
<1>2. CASE ~IsCodeInActiveList(c)
    BY <1>2, NoDeactivation, Unchanged
<1> QED
    BY <1>1, <1>2

\* The timer of a slot in use changes, and nothing else in the list.
LEMMA NewTimer ==
    ASSUME ListType, ListIntact, NEW i \in Used, NEW seconds \in Timers,
           active_codes' = [active_codes EXCEPT ![i] =
                                [code |-> active_codes[i].code, timer |-> seconds]],
           UNCHANGED <<active_code_indices, active_code_count>>
    PROVE  /\ ListType' /\ ListIntact'
           /\ \A c \in Codes : IsCodeInActiveList(c)' <=> IsCodeInActiveList(c)
           /\ active_codes'[i].timer = seconds
           /\ \A j \in Used \ {i} : active_codes'[j] = active_codes[j]
<1>1. i \in Slots /\ Used \subseteq Slots
    BY SizeAssumption DEF ListType, Used, Slots
<1>2. active_codes[i].code \in Codes
    BY <1>1 DEF ListType
<1>3. [code |-> active_codes[i].code, timer |-> seconds] \in [code : Codes, timer : Timers]
    BY <1>2
<1>4. ListType'
    BY <1>1, <1>3 DEF ListType
<1>5. ListIntact'
    BY <1>1 DEF ListType, ListIntact, Used
<1> QED
    BY <1>1, <1>4, <1>5 DEF ListType, IsCodeInActiveList

\* What a step of the list leaves: an intact list.
ListKept == ListType' /\ ListIntact'

LEMMA InitIInv == Init => IInv
<1> SUFFICES ASSUME Init PROVE IInv
    OBVIOUS
<1>1. ListType /\ ListIntact
    BY SizeAssumption, CodesAssumption
    DEF Init, ListType, ListIntact, Used, Slots, Empty, Timers, INVALID_CODE_INDEX
<1>2. RestType
    <2>1. effect_restrictions \in SUBSET Situations /\ update_enabled \in BOOLEAN
        BY Zenon DEF Init
    <2> QED
        BY <2>1, SizeAssumption, TimerAssumption DEF Init, RestType
<1>3. SecondsCounted
    BY DEF Init, SecondsCounted
<1> QED
    BY <1>1, <1>2, <1>3 DEF IInv

LEMMA ActivateKeeps ==
    ASSUME ListType, ListIntact, NEW c \in Codes, NEW seconds \in Timers, ActivateCode(c, seconds)
    PROVE  ListKept
<1>1. CASE AddResult(c) = "ok"
    BY <1>1, Activation DEF ListKept
<1>2. CASE AddResult(c) # "ok"
    BY <1>2, Unchanged DEF ActivateCode, ListKept
<1> QED
    BY <1>1, <1>2

LEMMA DurationsAreTimers ==
    ASSUME NEW c \in Codes
    PROVE  Durations(c) \subseteq Timers
BY SizeAssumption, DefAssumption DEF Durations, Timers

LEMMA CodeTimerList ==
    ASSUME ListType, ListIntact, RestType, CodeTimer
    PROVE  ListKept /\ slot_index' \in 0..MAX_ACTIVE_CODES
<1> DEFINE code == active_codes[slot_index]
<1>1. /\ slot_index \in Used /\ slot_index \in Slots /\ slot_index + 1 \in 0..MAX_ACTIVE_CODES
      /\ active_code_count \in Nat
    BY SizeAssumption DEF CodeTimer, RestType, ListType, Used, Slots
<1>2. code.timer \in Timers /\ code_elapsed_seconds \in Nat
    BY <1>1 DEF ListType, RestType
<1>3. ASSUME NEW seconds \in Timers,
             active_codes' = [active_codes EXCEPT ![slot_index] =
                                  [code |-> code.code, timer |-> seconds]],
             UNCHANGED <<active_code_indices, active_code_count>>, slot_index' = slot_index + 1
      PROVE  ListKept /\ slot_index' \in 0..MAX_ACTIVE_CODES
    BY <1>1, <1>3, NewTimer DEF ListKept
<1>4. CASE code_elapsed_seconds < code.timer
    <2>1. code.timer - code_elapsed_seconds \in Timers
        BY <1>2, <1>4, SizeAssumption DEF Timers
    <2> QED
        BY <1>2, <1>3, <1>4, <2>1 DEF CodeTimer, Timers
<1>5. CASE code_elapsed_seconds >= code.timer /\ ~Switchable(code.code)
    <2>1. 0 \in Timers
        BY SizeAssumption DEF Timers
    <2> QED
        BY <1>2, <1>3, <1>5, <2>1 DEF CodeTimer, Timers
<1>6. CASE code_elapsed_seconds >= code.timer /\ Switchable(code.code)
    <2>1. DeactivateCodeAtIndex(slot_index) /\ UNCHANGED slot_index
        BY <1>2, <1>6 DEF CodeTimer, Timers
    <2> QED
        BY <1>1, <2>1, Deactivation DEF ListKept, RestType
<1> QED
    BY <1>2, <1>4, <1>5, <1>6 DEF Timers

LEMMA NextIInv == IInv /\ [Next]_vars => IInv'
<1> SUFFICES ASSUME IInv, [Next]_vars PROVE IInv'
    OBVIOUS
<1> USE DEF IInv
<1>1. ASSUME NEW c \in Codes, Perform(c) PROVE IInv'
    <2>1. ListKept
        BY <1>1, DeactivateKeeps DEF Perform, ListKept
    <2> QED
        BY <1>1, <2>1
        DEF Perform, clocks, picking, situation, RestType, SecondsCounted, ListKept
<1>2. ASSUME NEW next \in {"idle", "wait_input", "wait_death"}, SimonSays(next) PROVE IInv'
    BY <1>2, Unchanged DEF SimonSays, clocks, picking, situation, RestType, SecondsCounted
<1>3. ASSUME NEW now \in SUBSET Situations, Disable(now) PROVE IInv'
    BY <1>3, Unchanged DEF Disable, clocks, picking, RestType, SecondsCounted
<1>4. ASSUME NEW now \in SUBSET Situations, NEW passed \in 0..MaxFrame, Enable(now, passed)
      PROVE  IInv'
    <2>1. passed \in Nat
        BY SizeAssumption
    <2> QED
        BY <1>4, <2>1, Unchanged DEF Enable, picking, RestType, SecondsCounted
<1>5. ASSUME NEW at, NEW c \in Codes, NEW next \in {"entrance_rando", "clock"}, Revoke(at, c, next)
      PROVE  IInv'
    <2>1. ListKept
        BY <1>5, DeactivateKeeps, Unchanged DEF Revoke, ListKept
    <2> QED
        BY <1>5, <2>1
        DEF Revoke, clocks, picking, situation, RestType, SecondsCounted, ListKept
<1>6. CASE Clock
    <2>1. /\ code_elapsed_usec' \in Nat /\ chaos_elapsed_usec' \in Nat
          /\ slot_index' \in 0..MAX_ACTIVE_CODES
        BY <1>6, SizeAssumption DEF Clock, RestType
    <2>2. /\ code_elapsed_seconds' \in Nat /\ chaos_elapsed_seconds' \in Nat
          /\ code_elapsed_seconds' * Second <= code_elapsed_usec'
          /\ chaos_elapsed_seconds' * Second <= chaos_elapsed_usec'
        BY <1>6, <2>1, SizeAssumption, Division DEF Clock
    <2>3. RestType'
        BY <1>6, <2>1, <2>2 DEF Clock, picking, situation, RestType
    <2> QED
        BY <1>6, <2>2, <2>3, Unchanged DEF Clock, SecondsCounted
<1>7. CASE CodeTimer
    <2>1. ListKept /\ slot_index' \in 0..MAX_ACTIVE_CODES
        BY <1>7, CodeTimerList
    <2> QED
        BY <1>7, <2>1 DEF CodeTimer, clocks, picking, situation, RestType, SecondsCounted, ListKept
<1>8. CASE ChaosTimer
    <2>1. pc' \in {"select", "play"} /\ chaos_timer' \in Nat /\ attempts' \in 0..ATTEMPTS
        BY <1>8, TimerAssumption DEF ChaosTimer, RestType
    <2>2. code_add_result' \in {"ok", "already_active", "no_slots"}
        BY <1>8 DEF ChaosTimer, RestType
    <2>3. /\ code_elapsed_seconds * Second \in Nat /\ chaos_elapsed_seconds * Second \in Nat
          /\ code_elapsed_usec - code_elapsed_seconds * Second \in Nat
          /\ chaos_elapsed_usec - chaos_elapsed_seconds * Second \in Nat
        BY <1>8, SizeAssumption DEF ChaosTimer, RestType, SecondsCounted
    <2>4. RestType'
        BY <1>8, <2>1, <2>2, <2>3, SizeAssumption DEF ChaosTimer, situation, RestType
    <2> QED
        BY <1>8, <2>1, <2>4, Unchanged DEF ChaosTimer, SecondsCounted
<1>9. ASSUME NEW c \in Codes, NEW over \in BOOLEAN, NEW seconds \in Durations(c),
             Select(c, seconds, over)
      PROVE  IInv'
    <2>1. seconds \in Timers
        BY DurationsAreTimers
    <2>2. ListKept
        BY <1>9, <2>1, ActivateKeeps, Unchanged DEF Select, ListKept
    <2>3. pc' \in {"select", "play"} /\ attempts' \in 0..ATTEMPTS
        BY <1>9, TimerAssumption DEF Select, RestType
    <2>4. code_add_result' \in {"ok", "already_active", "no_slots"}
        BY <1>9 DEF Select, RestType, AddResult
    <2>5. simon_says_state' \in {"idle", "start", "wait_input", "wait_death"}
        BY <1>9 DEF Select, RestType
    <2> QED
        BY <1>9, <2>2, <2>3, <2>4, <2>5
        DEF Select, clocks, situation, RestType, SecondsCounted, ListKept
<1>10. CASE UNCHANGED vars
    BY <1>10, Unchanged DEF vars, clocks, picking, situation, RestType, SecondsCounted
<1> QED
    BY <1>1, <1>2, <1>3, <1>4, <1>5, <1>6, <1>7, <1>8, <1>9, <1>10, CodesAssumption
    DEF Next, PlayStep, UpdateStep

LEMMA Invariance == Spec => []IInv
BY InitIInv, NextIInv, PTL DEF Spec

\* The variables keep their types: no timer goes below zero, no index beyond the list.
THEOREM Typed == Spec => []TypeOK
BY Invariance, TypeParts, PTL DEF IInv

\* No sequence of activations, deactivations and timer loops leaves the array of
\* indices and the list at odds (Chaos_ActivateCode, Chaos_DeactivateCodeAtIndex).
THEOREM ListStaysIntact == Spec => []ListIntact
BY Invariance, PTL DEF IInv

-----------------------------------------------------------------------------
(* Exclusion. *)

LEMMA FewerClash ==
    ASSUME NoClash, \A c \in Codes : IsCodeInActiveList(c)' => IsCodeInActiveList(c)
    PROVE  NoClash'
BY DEF NoClash

LEMMA NextNoClash == IInv /\ NoClash /\ [Next]_vars => NoClash'
<1> SUFFICES ASSUME IInv, NoClash, [Next]_vars PROVE NoClash'
    OBVIOUS
<1> USE DEF IInv
<1>1. CASE UNCHANGED list
    BY <1>1, Unchanged, FewerClash
<1>2. ASSUME NEW c \in Codes, DeactivateCode(c) PROVE NoClash'
    BY <1>2, DeactivateKeeps, FewerClash
<1>3. CASE CodeTimer
    <2> DEFINE code == active_codes[slot_index]
    <2>1. slot_index \in Used /\ code \in [code : Codes, timer : Timers]
        BY <1>3, SizeAssumption DEF CodeTimer, RestType, ListType, Used, Slots
    <2>2. CASE DeactivateCodeAtIndex(slot_index)
        BY <2>1, <2>2, Deactivation, FewerClash
    <2>3. CASE UNCHANGED <<active_code_indices, active_code_count>>
        BY <2>3, FewerClash DEF IsCodeInActiveList
    <2> QED
        BY <1>3, <2>2, <2>3 DEF CodeTimer
<1>4. ASSUME NEW c \in Codes, NEW over \in BOOLEAN, NEW seconds \in Durations(c),
             Select(c, seconds, over)
      PROVE  NoClash'
    <2>1. CASE over \/ AddResult(c) # "ok"
        BY <1>1, <1>4, <2>1 DEF Select, ActivateCode
    <2>2. CASE ~over /\ AddResult(c) = "ok"
        <3>1. ~PassedOver(c) /\ ActivateCode(c, seconds) /\ seconds \in Timers
            BY <1>4, <2>2, DurationsAreTimers DEF Select
        <3>2. \A d \in Codes \ {c} : IsCodeInActiveList(d)' <=> IsCodeInActiveList(d)
            BY <2>2, <3>1, Activation
        <3>3. \A d \in Codes : IsCodeInActiveList(d) => <<c, d>> \notin Clash
            BY <3>1 DEF PassedOver
        <3> QED
            BY <3>2, <3>3 DEF NoClash
    <2> QED
        BY <2>1, <2>2
<1> QED
    BY <1>1, <1>2, <1>3, <1>4, CodesAssumption
    DEF Next, PlayStep, UpdateStep, Perform, SimonSays, Disable, Enable, Revoke, Clock, ChaosTimer, vars

\* Codes that exclude each other are never active together, however many codes
\* there are and however long a situation holds one of them.
THEOREM ClashesNeverMeet == Spec => []NoClash
<1>1. Init => NoClash
    BY DEF Init, NoClash, IsCodeInActiveList, INVALID_CODE_INDEX
<1> QED
    BY <1>1, Invariance, NextNoClash, PTL DEF Spec

-----------------------------------------------------------------------------
(* Refinement. *)

\* Outside of the loop over the timers, the abstract list shows the timers as they are.
LEMMA ShownAtRest ==
    ASSUME NEW c \in Codes, pc # "timers"
    PROVE  Shown(c) = IF IsCodeInActiveList(c)
                      THEN active_codes[active_code_indices[c]].timer ELSE Off
BY DEF Shown

LEMMA ShownRange ==
    ASSUME ListType, RestType, NEW c \in Codes
    PROVE  /\ Shown(c) \in Timers \cup {Off}
           /\ pc # "timers" => (Shown(c) # Off <=> IsCodeInActiveList(c))
<1>1. 0 \in Timers /\ Off \notin Timers /\ Timers \subseteq Nat
    BY SizeAssumption DEF Timers, Off
<1>2. IsCodeInActiveList(c) => active_codes[active_code_indices[c]].timer \in Timers
    BY IndexUsed, SizeAssumption DEF ListType, Used, Slots
<1>3. ASSUME NEW timer \in Timers, code_elapsed_seconds < timer
      PROVE  timer - code_elapsed_seconds \in Timers
    BY <1>3, SizeAssumption DEF Timers, RestType
<1> QED
    BY <1>1, <1>2, <1>3 DEF Shown

\* The codes in the list are no more than its count.
LEMMA ActiveCount ==
    ASSUME ListType, ListIntact
    PROVE  LET S == {c \in Codes : IsCodeInActiveList(c)}
           IN  IsFiniteSet(S) /\ Cardinality(S) <= active_code_count
<1> DEFINE S == {c \in Codes : IsCodeInActiveList(c)}
           f == [i \in Used |-> active_codes[i].code]
<1>1. active_code_count \in Nat
    BY SizeAssumption DEF ListType
<1>2. IsFiniteSet(Used) /\ Cardinality(Used) = active_code_count
    BY <1>1, FS_Interval DEF Used
<1>3. \A i \in Used : active_codes[i].code \in S
    BY SizeAssumption DEF ListType, ListIntact, Used, Slots, IsCodeInActiveList, INVALID_CODE_INDEX
<1>4. \A c \in S : active_code_indices[c] \in Used /\ active_codes[active_code_indices[c]].code = c
    BY SizeAssumption, IndexUsed DEF ListIntact, ListType, Used, Slots, INVALID_CODE_INDEX
<1>5. f \in Surjection(Used, S)
    BY <1>3, <1>4 DEF Surjection
<1> HIDE DEF S, f
<1>6. IsFiniteSet(S) /\ Cardinality(S) <= active_code_count
    BY <1>2, <1>5, FS_Surjection
<1> QED
    BY <1>6 DEF S

ShownLeft == [c \in Codes |-> Shown(c)]

LEMMA SameCardinality == \A S : Effects!Cardinality(S) = Cardinality(S)
BY DEF Effects!Cardinality, Cardinality

LEMMA Stutter ==
    ASSUME \A c \in Codes : Shown(c)' = Shown(c)
    PROVE  UNCHANGED ShownLeft
BY DEF ShownLeft

\* A list that is left alone shows the same, unless the loop over the timers begins
\* or a situation changes within it.
LEMMA SameList ==
    ASSUME UNCHANGED list, pc # "timers", pc' # "timers"
    PROVE  UNCHANGED ShownLeft
<1>1. \A c \in Codes : Shown(c)' = Shown(c)
    BY DEF Shown, list, IsCodeInActiveList
<1> QED
    BY <1>1, Stutter

LEMMA DeactivateImplements ==
    ASSUME IInv, NEW c \in Codes, DeactivateCode(c), pc # "timers", pc' # "timers"
    PROVE  Effects!Deactivate(c) \/ UNCHANGED ShownLeft
<1> USE DEF IInv
<1>1. CASE ~IsCodeInActiveList(c)
    BY <1>1, NoDeactivation, SameList
<1>2. CASE IsCodeInActiveList(c)
    <2> DEFINE index == active_code_indices[c]
    <2>1. index \in Used /\ active_codes[index].code = c /\ DeactivateCodeAtIndex(index)
        BY <1>2, IndexUsed, SizeAssumption
        DEF ListIntact, DeactivateCode, Used, Slots, ListType, INVALID_CODE_INDEX
    <2>2. \A d \in Codes :
             /\ IsCodeInActiveList(d)' <=> IsCodeInActiveList(d) /\ d # c
             /\ IsCodeInActiveList(d)' => active_codes'[active_code_indices'[d]].timer =
                                              active_codes[active_code_indices[d]].timer
        BY <2>1, Deactivation
    <2>3. \A d \in Codes : Shown(d)' = IF d = c THEN Off ELSE Shown(d)
        BY <2>2 DEF Shown
    <2>4. Shown(c) # Off
        BY <1>2, ShownRange
    <2> QED
        BY <2>3, <2>4 DEF Effects!Deactivate, Effects!Active, Effects!Off, Off
<1> QED
    BY <1>1, <1>2

LEMMA SelectImplements ==
    ASSUME IInv, NEW c \in Codes, NEW over \in BOOLEAN, NEW seconds \in Durations(c),
           Select(c, seconds, over)
    PROVE  Effects!Activate(c, seconds) \/ UNCHANGED ShownLeft
<1> USE DEF IInv
<1>1. pc # "timers" /\ pc' # "timers"
    BY DEF Select
<1>2. CASE over \/ AddResult(c) # "ok"
    BY <1>1, <1>2, SameList DEF Select, ActivateCode
<1>3. CASE ~over /\ AddResult(c) = "ok"
    <2>1. ~PassedOver(c) /\ ActivateCode(c, seconds) /\ seconds \in Timers
        BY <1>3, DurationsAreTimers DEF Select
    <2>2. /\ ~IsCodeInActiveList(c) /\ active_code_count < MAX_ACTIVE_CODES
          /\ IsCodeInActiveList(c)' /\ active_codes'[active_code_indices'[c]].timer = seconds
          /\ \A d \in Codes \ {c} :
                /\ IsCodeInActiveList(d)' <=> IsCodeInActiveList(d)
                /\ IsCodeInActiveList(d) =>
                       active_codes'[active_code_indices'[d]] = active_codes[active_code_indices[d]]
        BY <1>3, <2>1, Activation
    <2>3. \A d \in Codes : Shown(d)' = IF d = c THEN seconds ELSE Shown(d)
        BY <1>1, <2>2 DEF Shown
    <2>4. Effects!Active = {d \in Codes : IsCodeInActiveList(d)}
        BY <1>1, ShownRange DEF Effects!Active, Effects!Off, Off
    <2>5. Cardinality(Effects!Active) < MAX_ACTIVE_CODES
        <3> DEFINE n == Cardinality({d \in Codes : IsCodeInActiveList(d)})
        <3>1. n \in Nat /\ n <= active_code_count
            BY ActiveCount, FS_CardinalityType
        <3>2. active_code_count \in Nat /\ MAX_ACTIVE_CODES \in Nat
            BY SizeAssumption DEF ListType
        <3> HIDE DEF n
        <3>3. n < MAX_ACTIVE_CODES
            BY <2>2, <3>1, <3>2
        <3> QED
            BY <2>4, <3>3 DEF n
    <2>6. c \notin Effects!Active /\ \A d \in Effects!Active : <<c, d>> \notin Clash
        BY <2>1, <2>2, <2>4 DEF PassedOver
    <2>7. ShownLeft' = [ShownLeft EXCEPT ![c] = seconds]
        BY <2>3 DEF ShownLeft
    <2> QED
        BY <2>5, <2>6, <2>7, SameCardinality DEF Effects!Activate, ShownLeft
<1> QED
    BY <1>2, <1>3

\* More time than any effect lasts is as good as MAX_SECONDS of it.
LEMMA ClockImplements ==
    ASSUME IInv, IInv', Clock
    PROVE  \E elapsed \in 0..MAX_SECONDS, held \in SUBSET Effects!Active : Effects!Tick(elapsed, held)
<1> USE DEF IInv
<1> DEFINE seconds == code_elapsed_seconds'
           elapsed == IF seconds > MAX_SECONDS THEN MAX_SECONDS ELSE seconds
           held == {c \in Effects!Active : ~Switchable(c)}
<1>1. seconds \in Nat /\ elapsed \in 0..MAX_SECONDS /\ held \in SUBSET Effects!Active
    BY SizeAssumption DEF RestType
<1>2. pc # "timers" /\ pc' = "timers" /\ slot_index' = 0 /\ UNCHANGED list
    BY DEF Clock
<1>3. \A c \in Codes : c \in Effects!Active <=> Shown(c) # Off
    BY DEF Effects!Active, Effects!Off, Off
<1>4. ASSUME NEW c \in Codes
      PROVE  Shown(c)' = IF Shown(c) # Off THEN Effects!After(elapsed, Shown(c), c \in held) ELSE Off
    <2> DEFINE timer == active_codes[active_code_indices[c]].timer
    <2>1. CASE ~IsCodeInActiveList(c)
        BY <1>2, <2>1 DEF Shown, list, IsCodeInActiveList
    <2>2. CASE IsCodeInActiveList(c)
        <3>1. active_code_indices[c] \in Used /\ timer \in Timers /\ Shown(c) = timer
            BY <1>2, <2>2, IndexUsed, SizeAssumption DEF Shown, ListType, Used, Slots
        <3>2. (Switchable(c))' <=> Switchable(c)
            BY DEF Clock, situation, Switchable
        <3>3. Shown(c)' = IF seconds < timer THEN timer - seconds
                          ELSE IF Switchable(c) THEN Off ELSE 0
            BY <1>2, <2>2, <3>1, <3>2, SizeAssumption
            DEF Shown, list, IsCodeInActiveList, ListType, Used
        <3>4. (elapsed < timer <=> seconds < timer) /\ (elapsed < timer => elapsed = seconds)
            BY <1>1, <3>1, SizeAssumption DEF Timers
        <3>5. timer # Off
            BY <3>1 DEF Timers, Off
        <3> QED
            BY <1>3, <3>1, <3>3, <3>4, <3>5 DEF Effects!After, Effects!Off, Off
    <2> QED
        BY <2>1, <2>2
<1> HIDE DEF elapsed, held
<1>5. Effects!Tick(elapsed, held)
    BY <1>3, <1>4 DEF Effects!Tick, Effects!Off, Off
<1> QED
    BY <1>1, <1>5

\* An iteration of the loop over the timers brings one slot to what the abstract
\* list shows already.
LEMMA CodeTimerImplements ==
    ASSUME IInv, CodeTimer
    PROVE  UNCHANGED ShownLeft
<1> USE DEF IInv
<1> DEFINE code == active_codes[slot_index]
           rest == code.timer - code_elapsed_seconds
<1>1. /\ slot_index \in Used /\ code \in [code : Codes, timer : Timers]
      /\ pc = "timers" /\ pc' = "timers" /\ slot_index \in Nat /\ active_code_count \in Nat
      /\ UNCHANGED <<code_elapsed_seconds, effect_restrictions>>
    BY SizeAssumption DEF CodeTimer, clocks, situation, RestType, ListType, Used, Slots
<1> PICK cur \in Codes : cur = code.code
    BY <1>1
<1>2. active_code_indices[cur] = slot_index /\ IsCodeInActiveList(cur) /\ code.timer \in Timers
    BY <1>1 DEF ListIntact, IsCodeInActiveList, Used
<1>3. \A c \in Codes : (Switchable(c))' <=> Switchable(c)
    BY <1>1 DEF Switchable
<1>4. \A c \in Codes : IsCodeInActiveList(c) =>
          /\ active_code_indices[c] \in Used
          /\ active_code_indices[c] = slot_index <=> c = cur
    <2>1. ASSUME NEW c \in Codes, IsCodeInActiveList(c)
          PROVE  active_code_indices[c] \in Used /\ active_codes[active_code_indices[c]].code = c
        BY <2>1, IndexUsed, SizeAssumption
        DEF ListIntact, ListType, Used, Slots, INVALID_CODE_INDEX
    <2> QED
        BY <1>1, <1>2, <2>1
<1>5. ASSUME NEW seconds \in Timers,
             active_codes' = [active_codes EXCEPT ![slot_index] =
                                  [code |-> code.code, timer |-> seconds]],
             UNCHANGED <<active_code_indices, active_code_count>>, slot_index' = slot_index + 1,
             Shown(cur) = seconds
      PROVE  UNCHANGED ShownLeft
    <2>1. /\ \A c \in Codes : IsCodeInActiveList(c)' <=> IsCodeInActiveList(c)
          /\ active_codes'[slot_index].timer = seconds
          /\ \A j \in Used \ {slot_index} : active_codes'[j] = active_codes[j]
        BY <1>1, <1>5, NewTimer
    <2>2. ASSUME NEW c \in Codes PROVE Shown(c)' = Shown(c)
        <3>1. CASE ~IsCodeInActiveList(c)
            BY <2>1, <3>1 DEF Shown
        <3>2. CASE c = cur
            BY <1>1, <1>2, <1>5, <2>1, <3>2 DEF Shown, IsCodeInActiveList, Used
        <3>3. CASE IsCodeInActiveList(c) /\ c # cur
            <4>1. /\ active_code_indices[c] \in Used \ {slot_index}
                  /\ active_codes'[active_code_indices[c]] = active_codes[active_code_indices[c]]
                  /\ active_code_indices[c] >= slot_index + 1 <=> active_code_indices[c] >= slot_index
                BY <1>1, <1>4, <2>1, <3>3 DEF Used
            <4> QED
                BY <1>1, <1>3, <1>5, <2>1, <3>3, <4>1 DEF Shown
        <3> QED
            BY <3>1, <3>2, <3>3
    <2> QED
        BY <2>2, Stutter
<1>6. CASE code_elapsed_seconds < code.timer
    <2>1. rest \in Timers
        BY <1>2, <1>6, SizeAssumption DEF Timers, RestType
    <2>2. Shown(cur) = rest
        BY <1>1, <1>2, <1>6 DEF Shown, IsCodeInActiveList, Used
    <2> QED
        BY <1>2, <1>5, <1>6, <2>1, <2>2 DEF CodeTimer, Timers, RestType
<1>7. CASE code_elapsed_seconds >= code.timer /\ ~Switchable(cur)
    <2>1. 0 \in Timers
        BY SizeAssumption DEF Timers
    <2>2. Shown(cur) = 0
        BY <1>1, <1>2, <1>7 DEF Shown, IsCodeInActiveList, Used, Timers, RestType
    <2> QED
        BY <1>2, <1>5, <1>7, <2>1, <2>2 DEF CodeTimer, Timers, RestType
<1>8. CASE code_elapsed_seconds >= code.timer /\ Switchable(cur)
    <2>1. DeactivateCodeAtIndex(slot_index) /\ slot_index' = slot_index
        BY <1>2, <1>8 DEF CodeTimer, Timers, RestType
    <2>2. \A c \in Codes :
             /\ IsCodeInActiveList(c)' <=> IsCodeInActiveList(c) /\ c # cur
             /\ IsCodeInActiveList(c)' =>
                    /\ active_codes'[active_code_indices'[c]].timer =
                           active_codes[active_code_indices[c]].timer
                    /\ \/ active_code_indices'[c] = active_code_indices[c]
                       \/ /\ active_code_indices[c] = active_code_count - 1
                          /\ active_code_indices'[c] = slot_index
        BY <1>1, <2>1, Deactivation
    <2>3. Shown(cur) = Off /\ Shown(cur)' = Off
        BY <1>1, <1>2, <1>8, <2>2 DEF Shown, IsCodeInActiveList, Used, Timers, RestType
    <2>4. ASSUME NEW c \in Codes \ {cur} PROVE Shown(c)' = Shown(c)
        <3>1. CASE ~IsCodeInActiveList(c)
            BY <2>2, <3>1 DEF Shown
        <3>2. CASE IsCodeInActiveList(c)
            <4>1. active_code_indices'[c] >= slot_index <=> active_code_indices[c] >= slot_index
                BY <1>1, <1>4, <2>2, <3>2 DEF Used
            <4> QED
                BY <1>1, <1>3, <2>1, <2>2, <3>2, <4>1 DEF Shown
        <3> QED
            BY <3>1, <3>2
    <2> QED
        BY <2>3, <2>4, Stutter
<1> QED
    BY <1>2, <1>6, <1>7, <1>8 DEF Timers, RestType

LEMMA NextImplements == IInv /\ IInv' /\ [Next]_vars => [Effects!Next]_ShownLeft
<1> SUFFICES ASSUME IInv, IInv', [Next]_vars PROVE Effects!Next \/ UNCHANGED ShownLeft
    OBVIOUS
<1>1. ASSUME NEW c \in Codes, Perform(c) PROVE Effects!Next \/ UNCHANGED ShownLeft
    BY <1>1, DeactivateImplements DEF Perform, Effects!Next
<1>2. ASSUME NEW next \in {"idle", "wait_input", "wait_death"}, SimonSays(next)
      PROVE  UNCHANGED ShownLeft
    BY <1>2, SameList DEF SimonSays
<1>3. ASSUME NEW now \in SUBSET Situations, Disable(now) PROVE UNCHANGED ShownLeft
    BY <1>3, SameList DEF Disable
<1>4. ASSUME NEW now \in SUBSET Situations, NEW passed \in 0..MaxFrame, Enable(now, passed)
      PROVE  UNCHANGED ShownLeft
    BY <1>4, SameList DEF Enable
<1>5. ASSUME NEW at \in {"low_gravity", "entrance_rando"}, NEW c \in Codes,
             NEW next \in {"entrance_rando", "clock"}, Revoke(at, c, next)
      PROVE  Effects!Next \/ UNCHANGED ShownLeft
    BY <1>5, DeactivateImplements, SameList DEF Revoke, Effects!Next
<1>6. CASE Clock
    BY <1>6, ClockImplements DEF Effects!Next
<1>7. CASE CodeTimer
    BY <1>7, CodeTimerImplements
<1>8. CASE ChaosTimer
    <2>1. \A c \in Codes : IsCodeInActiveList(c) => ~(active_code_indices[c] >= slot_index)
        BY <1>8, IndexUsed, SizeAssumption DEF IInv, ChaosTimer, ListType, RestType, Used
    <2>2. \A c \in Codes : Shown(c)' = Shown(c)
        BY <1>8, <2>1 DEF ChaosTimer, list, Shown, IsCodeInActiveList
    <2> QED
        BY <2>2, Stutter
<1>9. ASSUME NEW c \in Codes, NEW over \in BOOLEAN, NEW seconds \in Durations(c),
             Select(c, seconds, over)
      PROVE  Effects!Next \/ UNCHANGED ShownLeft
    BY <1>9, SelectImplements, DurationsAreTimers DEF Effects!Next, Timers
<1>10. CASE UNCHANGED vars
    BY <1>10 DEF vars, list, clocks, situation, ShownLeft, Shown, IsCodeInActiveList, Switchable
<1> QED
    BY <1>1, <1>2, <1>3, <1>4, <1>5, <1>6, <1>7, <1>8, <1>9, <1>10, CodesAssumption
    DEF Next, PlayStep, UpdateStep

LEMMA InitImplements == Init => Effects!Init
BY DEF Init, Effects!Init, Effects!Off, Shown, Off, IsCodeInActiveList, INVALID_CODE_INDEX

\* The array, its indices and the loop over the timers do what ActiveEffects
\* promises: time passes for all active effects alike, and each starts and ends as
\* one step that disturbs no other.
THEOREM ListImplementsEffects == Spec => ImplementsEffects
<1>1. Init => Effects!Init
    BY InitImplements
<1>2. IInv /\ IInv' /\ [Next]_vars => [Effects!Next]_[c \in Codes |-> Shown(c)]
    BY NextImplements DEF ShownLeft
<1> QED
    BY <1>1, <1>2, Invariance, PTL DEF Spec, ImplementsEffects, Effects!Spec

=============================================================================
