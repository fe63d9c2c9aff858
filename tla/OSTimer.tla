------------------------------ MODULE OSTimer ------------------------------
(***************************************************************************)
(* The timers of libultra (settimer.c, stoptimer.c, timerintr.c): a list   *)
(* in which every timer keeps the cycles from the one before it, the       *)
(* counter of cycles, and the VI manager (vimgr.c), which takes the        *)
(* counter's interrupts.  Its priority is the highest, so that no thread   *)
(* comes between its steps; a thread may be interrupted between the two    *)
(* of osStopTimer.                                                         *)
(*                                                                         *)
(* Each thread owns one timer.  No caller passes an interval; what queues  *)
(* do with the messages is the subject of MesgQueue and RcpSystem.         *)
(***************************************************************************)
EXTENDS Integers, Sequences, FiniteSetsExt, Functions, SequencesExt

CONSTANTS Timers,
          Countdowns,      \* what timers are set to
          Width,           \* values of the counter, 2^32 in the console
          Least,           \* the cycles the counter is set ahead at least, 468
          Gap              \* bound: cycles between two readings of the counter

\* Timers are set to less than a round of the counter and the time to set it (91 s; the
\* longest is of 50 s, fault.c:2435).  No countdown is 0, which would stand for the interval.
ASSUME TimersAssumption ==
  /\ Width \in Nat /\ Least \in Nat \ {0} /\ 2 * Least <= Width
  /\ Gap \in 0 .. Least - 1 /\ 3 * Gap < Width
  /\ Countdowns \subseteq 1 .. Width - Least - 1

VARIABLES list,            \* __osTimerList, the first to expire first
          value,           \* value of each timer
          timerCounter,    \* __osTimerCounter
          count, compare,  \* the registers of the processor
          pending,         \* whether the counter's interrupt is
          vimgr,           \* "wait", or in the "loop" of __osTimerInterrupt
          owner,           \* what the owner of each timer does with it
          left             \* the cycles before which it must not expire

vars == <<list, value, timerCounter, count, compare, pending, vimgr, owner, left>>

TypeOK ==
  /\ list \in BoundedSeq(Timers, Cardinality(Timers)) /\ IsInjective(list)
  /\ value \in [Timers -> 0 .. Width - 1]
  /\ {timerCounter, count, compare} \subseteq 0 .. Width - 1
  /\ pending \in BOOLEAN /\ vimgr \in {"wait", "loop"}
  /\ owner \in [Timers -> {"idle", "waits", "stops", "dead"}]
  /\ left \in [Timers -> Nat]

Init ==
  /\ list = <<>> /\ value = [t \in Timers |-> 0] /\ timerCounter = 0
  /\ count = 1 /\ compare = 0 /\ pending = FALSE /\ vimgr = "wait"
  /\ owner = [t \in Timers |-> "idle"] /\ left = [t \in Timers |-> 0]

-----------------------------------------------------------------------------
(* The counter.                                                            *)

Later(from, n) == (from + n) % Width
\* A difference of two readings, a u32.
Elapsed(now) == (now - timerCounter + Width) % Width

LessTime(n) == [t \in Timers |-> Max({left[t] - n, 0})]
\* The counter comes by compare within n cycles.
Meets(n) == \E k \in 1 .. n : Later(count, k) = compare

\* Time passes, except while an interrupt is being handled.
Tick ==
  /\ ~pending /\ vimgr = "wait"
  /\ count' = Later(count, 1) /\ left' = LessTime(1) /\ pending' = Meets(1)
  /\ UNCHANGED <<list, value, timerCounter, compare, vimgr, owner>>

\* __osSetCompare takes back a pending interrupt.
SetCompare(c) == compare' = c /\ pending' = FALSE

\* A mutant: the counter may be set to where it has been already.
SetTimerIntrAtOnce(tim, now, m) ==
  /\ timerCounter' = now /\ count' = Later(now, m)
  /\ SetCompare(Later(now, tim))

\* __osSetTimerIntr: the counter reads now, and is set m cycles later.
SetTimerIntr(tim, now, m) ==
  /\ timerCounter' = now /\ count' = Later(now, m)
  /\ SetCompare(Later(now, Max({tim, Least})))

-----------------------------------------------------------------------------
(* The list.                                                               *)

Listed(t) == t \in ToSet(list)
\* The cycles to the i-th timer, of which each keeps those from the one before.
SumOf(q, v, i) ==
  LET sum[k \in 0 .. Len(q)] == IF k = 0 THEN 0 ELSE sum[k - 1] + v[q[k]]
  IN sum[i]
Sum(v, i) == SumOf(list, v, i)

\* __osInsertTimer: how many timers it passes, and the cycles from them.
Passed(v, tim) == Cardinality({i \in DOMAIN list : tim > Sum(v, i)})
Rest(v, tim) == tim - Sum(v, Passed(v, tim))
\* A mutant: the timer behind the new one keeps all of its cycles.
InsertTimerOnly(t, tim, v) ==
  /\ list' = InsertAt(list, Passed(v, tim) + 1, t)
  /\ value' = [v EXCEPT ![t] = Rest(v, tim)]

InsertTimer(t, tim, v) ==
  LET k == Passed(v, tim) + 1
      w == [v EXCEPT ![t] = Rest(v, tim)]
  IN /\ list' = InsertAt(list, k, t)
     /\ value' = IF k \in DOMAIN list THEN [w EXCEPT ![list[k]] = @ - Rest(v, tim)] ELSE w

\* The first timer has less time when the counter reads now, or is overdue.
Brought(now) ==
  IF list = <<>> THEN value
  ELSE [value EXCEPT ![list[1]] = IF Elapsed(now) < @ THEN @ - Elapsed(now) ELSE 1]

\* osSetTimer, which reads the counter, again after n cycles, and sets it after another m.
SetTimer(t, countdown, n, m) ==
  /\ vimgr = "wait" /\ owner[t] = "idle"
  /\ InsertTimer(t, countdown, Brought(count))
  /\ SetTimerIntr(value'[list'[1]], Later(count, n), m)
  /\ left' = [LessTime(n + m) EXCEPT ![t] = Max({countdown - n - m, 0})]
  /\ owner' = [owner EXCEPT ![t] = "waits"]
  /\ UNCHANGED vimgr

\* osStopTimer, or the return from osRecvMesg in csleep, looks for the timer in the list
\* with interrupts on.
StopTimer(t) ==
  /\ vimgr = "wait" /\ ~pending /\ owner[t] = "waits"
  /\ owner' = [owner EXCEPT ![t] = IF Listed(t) THEN "stops" ELSE "idle"]
  /\ UNCHANGED <<list, value, timerCounter, count, compare, pending, vimgr, left>>

\* A mutant: the timer behind it is left alone.
UnlinkOnly(t) == list' = RemoveFirst(list, t) /\ value' = [value EXCEPT ![t] = 0]

Unlink(t) ==
  LET k == CHOOSE i \in DOMAIN list : list[i] = t
  IN /\ list' = RemoveAt(list, k)
     /\ value' = IF k < Len(list) THEN [value EXCEPT ![list[k + 1]] = @ + value[t], ![t] = 0]
                 ELSE [value EXCEPT ![t] = 0]

\* The second step of osStopTimer, with interrupts off.  If the timer has expired since
\* the first, the thread is lost to an address error.
EndStop(t) ==
  /\ vimgr = "wait" /\ owner[t] = "stops"
  /\ IF Listed(t)
     THEN /\ Unlink(t)
          /\ IF Len(list) = 1 THEN SetCompare(0) ELSE UNCHANGED <<compare, pending>>
          /\ owner' = [owner EXCEPT ![t] = "idle"]
     ELSE /\ owner' = [owner EXCEPT ![t] = "dead"]
          /\ UNCHANGED <<list, value, compare, pending>>
  /\ left' = [left EXCEPT ![t] = 0]
  /\ UNCHANGED <<timerCounter, count, vimgr>>

-----------------------------------------------------------------------------
(* The VI manager.                                                         *)

Interrupt ==
  /\ pending /\ vimgr = "wait"
  /\ pending' = FALSE /\ vimgr' = IF list = <<>> THEN "wait" ELSE "loop"
  /\ UNCHANGED <<list, value, timerCounter, count, compare, owner, left>>

\* A round of the loop of __osTimerInterrupt, which reads the counter after n cycles.
NoneLeft ==
  /\ vimgr = "loop" /\ list = <<>>
  /\ SetCompare(0) /\ timerCounter' = 0 /\ vimgr' = "wait"
  /\ UNCHANGED <<list, value, count, owner, left>>

\* __osSetTimerIntr reads it again after another p cycles, and sets it m cycles later.
NotYet(n, p, m) ==
  /\ vimgr = "loop" /\ list # <<>> /\ Elapsed(Later(count, n)) < value[list[1]]
  /\ value' = [value EXCEPT ![list[1]] = @ - Elapsed(Later(count, n))]
  /\ SetTimerIntr(value'[list[1]], Later(count, n + p), m) /\ left' = LessTime(n + p + m)
  /\ vimgr' = "wait"
  /\ UNCHANGED <<list, owner>>

\* A mutant: the last timer's time is counted on from where it was.
ExpireUncounted(n) ==
  /\ vimgr = "loop" /\ list # <<>> /\ Elapsed(Later(count, n)) >= value[list[1]]
  /\ list' = Tail(list)
  /\ count' = Later(count, n) /\ left' = LessTime(n)
  /\ pending' = (pending \/ Meets(n))
  /\ UNCHANGED <<timerCounter, value, compare, vimgr, owner>>

Expire(n) ==
  /\ vimgr = "loop" /\ list # <<>> /\ Elapsed(Later(count, n)) >= value[list[1]]
  /\ list' = Tail(list)
  /\ value' = [value EXCEPT ![list[1]] = 0] /\ left' = [LessTime(n) EXCEPT ![list[1]] = 0]
  /\ count' = Later(count, n) /\ timerCounter' = count'
  /\ pending' = (pending \/ Meets(n))
  /\ UNCHANGED <<compare, vimgr, owner>>

TimerInterrupt == \E n, p, m \in 0 .. Gap : NoneLeft \/ NotYet(n, p, m) \/ Expire(n)

Next ==
  \/ Tick \/ Interrupt \/ TimerInterrupt
  \/ \E t \in Timers :
       \/ \E countdown \in Countdowns, n, m \in 0 .. Gap : SetTimer(t, countdown, n, m)
       \/ StopTimer(t) \/ EndStop(t)

Spec == Init /\ [][Next]_vars

-----------------------------------------------------------------------------
\* The cycles in which the i-th timer is going to expire; and by how many
\* the first is overdue, with the one it then gets instead.
Shown(i) == Sum(value, i) - Elapsed(count)
Overdue == IF list # <<>> /\ Elapsed(count) >= value[list[1]]
           THEN Elapsed(count) - value[list[1]] + 1 ELSE 0

\* No timer expires before its time, whatever timers were set, stopped and
\* expired around it: what it shows is never less than what has yet to pass.
\* (__osInsertTimer, osStopTimer, __osTimerInterrupt.)
NeverEarly == \A i \in DOMAIN list : left[list[i]] <= Max({Shown(i), 0})

\* The cycles that pass in a step.
Cycles == (count' - count + Width) % Width

\* What is lost of the time of the others when the counter is read anew: the cycles between
\* two readings, and what the first timer is overdue.
Delay == IF timerCounter' = timerCounter THEN 0 ELSE Gap + Overdue

\* A timer that is set and an interrupt that comes early or late put every other timer off,
\* by at most one gap between two readings of the counter and by what the first timer is
\* overdue; stopping a timer, or time that passes, does not.  (settimer.c:30, the two
\* readings of __osTimerInterrupt and __osSetTimerIntr.)
OthersStay ==
  [][\A i \in DOMAIN list, j \in DOMAIN list' :
       list[i] = list'[j] => Shown(j)' + Cycles <= Shown(i) + Delay]_vars

\* While there are timers the interrupt is pending or comes by the time of the
\* first, or within the least time the counter is set ahead: it is never missed,
\* which would cost a whole round of the counter, 91 s.  (__osSetTimerIntr,
\* osStopTimer, the returns of __osTimerInterrupt.)
AlwaysArmed ==
  vimgr = "wait" /\ list # <<>> /\ ~pending =>
    \E n \in 1 .. Max({Shown(1), Least}) : Later(count, n) = compare

=============================================================================
