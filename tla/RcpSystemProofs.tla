-------------------------- MODULE RcpSystemProofs --------------------------
(***************************************************************************)
(* Proofs about RcpSystem.                                                 *)
(*                                                                         *)
(* The parts of the inductive invariant take the state they speak of as    *)
(* parameters: a handler of the scheduler passes through states that are   *)
(* no states of the system, such as the one in which the RSP's task is     *)
(* cleared and the next is not chosen yet.  s stands for sc, p for pc, c   *)
(* for cmdq, q for iq, r for reply, h for hw, d for disp, x for gfx, g for *)
(* graph, a for audio.                                                     *)
(*                                                                         *)
(* First that the handlers keep the types; then what each of them does to  *)
(* the lists, the bits, the processors and the framebuffers, and that it   *)
(* keeps every part of the invariant; then the same for the lists when     *)
(* timers expire, with an invariant of their own; last the theorems.       *)
(***************************************************************************)
EXTENDS RcpSystem, Lists

Listed(s, t) == In(t, s.audioList) \/ In(t, s.gfxList)
OnRSP(s, p, t) == s.rsp = t \/ (p.at = "load" /\ p.task = t)
Sends(p, t) == p.at = "send" /\ p.task = t
Holds(s, p, c, t) == In(t, c) \/ Listed(s, t) \/ OnRSP(s, p, t) \/ s.rdp = t \/ Sends(p, t)

AwaitedBy(g, a, t) ==
    \/ /\ t = "gfx" /\ g.in = "game"
       /\ \/ g.at \in {"game", "destroy", "wait", "kick", "answer"}
          \/ g.at = "send" /\ g.task # "gfx"
    \/ t = "aud" /\ a.at \in {"kick", "update", "wait"}
    \/ t \in {"jpeg", "null"} /\ g.at \in {"kick", "answer"} /\ g.task = t

\* Every task is in one place: on its way to the scheduler, in a list, on the RSP
\* (and perhaps the RDP), on the RDP alone, or about to be answered.
PlaceInv(s, p, c) ==
    /\ Once(c) /\ Once(s.audioList) /\ Once(s.gfxList)
    /\ p.at = "load" => s.rsp = NoTask
    /\ \A t \in Tasks :
          /\ In(t, c) => ~Listed(s, t) /\ ~OnRSP(s, p, t) /\ s.rdp # t /\ ~Sends(p, t)
          /\ Listed(s, t) => ~OnRSP(s, p, t) /\ ~Sends(p, t)
          /\ Sends(p, t) => s.rsp # t /\ s.rdp # t

\* What a sender has sent and not got back is held, or the answer is in its queue.
ReplyInv(s, p, c, r, g, a) ==
    \A t \in Tasks :
        /\ Holds(s, p, c, t) => AwaitedBy(g, a, t)
        /\ r[t] = IF AwaitedBy(g, a, t) /\ ~Holds(s, p, c, t) THEN <<"done">> ELSE <<>>

\* What the bits of a task's state say of its place.
StateInv(s, p) ==
    /\ \A t \in Tasks :
          /\ Listed(s, t) \/ OnRSP(s, p, t) => "SP" \in s.state[t]
          /\ Sends(p, t) => "SP" \notin s.state[t] /\ "DP" \notin s.state[t]
          /\ "YIELDED" \in s.state[t] => In(t, s.gfxList) \/ (p.at = "load" /\ p.task = t)
    /\ "YIELDED" \notin s.state["aud"] /\ "YIELDED" \notin s.state["null"]
    /\ "YIELD" \notin s.state["aud"] /\ "DP" \notin s.state["aud"] /\ "DP" \notin s.state["jpeg"]
    /\ s.rdp \in {NoTask, "gfx"}
    /\ s.rdp = "gfx" => "DP" \in s.state["gfx"]
    /\ s.rdp = "gfx" /\ "SP" \in s.state["gfx"] => OnRSP(s, p, "gfx") \/ In("gfx", s.gfxList)
    /\ s.rsp = "gfx" /\ "DP" \in s.state["gfx"] => s.rdp = "gfx"
    /\ "YIELDED" \in s.state["gfx"] /\ "DP" \in s.state["gfx"] => s.rdp = "gfx"
    /\ In("gfx", s.gfxList) /\ "YIELDED" \notin s.state["gfx"] => "DP" \in s.state["gfx"] /\ s.rdp # "gfx"
    /\ s.rsp # "null"
    /\ p.at = "load" =>
          /\ p.task # "null"
          /\ p.dp <=> p.task = "gfx" /\ "YIELDED" \notin s.state["gfx"]
          /\ p.dp => s.rdp = NoTask /\ "DP" \in s.state["gfx"]

\* Nothing has been cancelled.
CalmInv(p, q) ==
    /\ p.at # "halt"
    /\ p.at = "send" => IF p.task = "null" THEN p.then = "end" ELSE p.then \in {"rsp", "rdp"}
    /\ Once(q)
    /\ \A m \in {"audioCancel", "gfxCancel"} : ~In(m, q)

\* The RSP is busy with the task the scheduler believes is on it, or its interrupt is
\* on its way; so for the RDP.
HardwareInv(s, q, h) ==
    /\ s.rsp = NoTask => ~h.busy /\ ~In("rspDone", q)
    /\ s.rsp # NoTask =>
          /\ h.task = s.rsp
          /\ h.busy <=> ~In("rspDone", q)
          /\ h.yieldReq <=> "YIELD" \in s.state[s.rsp]
          /\ h.yielded => h.yieldReq /\ ~h.busy
    /\ h.stale = 0
    /\ h.drawing # "no" => s.rdp = "gfx" /\ ~In("rdpDone", q)
    /\ In("rdpDone", q) => s.rdp = "gfx"
    /\ s.rdp = "gfx" => h.drawing # "no" \/ In("rdpDone", q)
    /\ \A t \in Tasks : t \in h.working <=>
          (s.rsp = t /\ (h.busy \/ h.yielded)) \/ "YIELDED" \in s.state[t]

\* A null task is the last of its list, and runs when the other tasks are done.
FlushInv(s, p, c) ==
    /\ \A i \in 1 .. Len(s.gfxList) : s.gfxList[i] = "null" => i = Len(s.gfxList)
    /\ In("null", s.gfxList) => \A i \in 1 .. Len(c) : c[i] = "aud"
    /\ \A i, j \in 1 .. Len(c) : c[i] = "null" /\ i < j => c[j] = "aud"
    /\ Sends(p, "null") =>
          /\ s.rsp = NoTask /\ s.rdp = NoTask
          /\ s.audioList = <<>> /\ s.gfxList = <<>>

\* Where the graph and audio threads are.
ThreadInv(g, a) ==
    /\ g.at # "dead" /\ g.mesg = "done"
    /\ g.at = "init" => g.in = "init"
    /\ g.at \in {"game", "destroy", "wait", "got", "build", "drain"} => g.in = "game"
    /\ g.at \in {"init", "game", "destroy", "wait", "got", "build", "drain"} => g.task = "gfx"
    /\ g.at = "answer" => g.task # "gfx"
    /\ g.at \in {"send", "kick"} /\ g.task = "gfx" => g.in = "game"
    /\ a.mesg = "done" /\ a.at # "dead"

\* The gfx task is built and not done; it has not begun.
InFlight(s, p, c, g) ==
    g.at = "drain" \/ (g.at = "send" /\ g.task = "gfx") \/ Holds(s, p, c, "gfx")
Fresh(s, p, c, g) ==
    \/ g.at = "drain" \/ (g.at = "send" /\ g.task = "gfx") \/ In("gfx", c)
    \/ (In("gfx", s.gfxList) /\ "YIELDED" \notin s.state["gfx"])
\* The framebuffer of the last frame that was done and is to be shown.
LastFb(s, p, c, x, g) ==
    IF InFlight(s, p, c, g) /\ x.swap THEN g.fbIndex ELSE 1 - g.fbIndex

FrameInv(s, p, c, d, x, g) ==
    LET f == d.cfb[x.cfb].fb
        last == LastFb(s, p, c, x, g)
    IN  /\ d.pending # NoCfb =>
              /\ d.cfb[d.pending].fb = last
              /\ d.viCur = last => d.viNext = last
              /\ d.pending = IF InFlight(s, p, c, g) THEN (g.cfbIndex + 1) % 3
                             ELSE (g.cfbIndex + 2) % 3
        /\ d.pending = NoCfb => d.viNext \in {last, Boot}
        /\ d.pending # NoCfb /\ ~InFlight(s, p, c, g) => x.cfb = (g.cfbIndex + 2) % 3
        /\ InFlight(s, p, c, g) => f = 1 - last /\ x.cfb = (g.cfbIndex + 2) % 3
        /\ InFlight(s, p, c, g) /\ ~Fresh(s, p, c, g) =>
              d.pending = NoCfb /\ d.viCur # f /\ d.viNext # f

AllInv(s, p, c, q, r, h, g, a, d, x) ==
    /\ PlaceInv(s, p, c) /\ ReplyInv(s, p, c, r, g, a) /\ StateInv(s, p) /\ CalmInv(p, q)
    /\ HardwareInv(s, q, h) /\ FlushInv(s, p, c) /\ ThreadInv(g, a) /\ FrameInv(s, p, c, d, x, g)

IInv == Timers = {} => AllInv(sc, pc, cmdq, iq, reply, hw, graph, audio, disp, gfx)

-----------------------------------------------------------------------------
(* Those, the tasks of a queue of one kind.                                *)

\* f is the function on 0 .. n that Those is defined by.
Kept(q, S, n, f) ==
    f = [i \in 0 .. n |->
           IF i = 0 THEN <<>>
           ELSE IF q[i] \in S THEN Append(f[i - 1], q[i]) ELSE f[i - 1]]

\* It exists for every length, by induction.
LEMMA KeptExists ==
  ASSUME NEW q, NEW S, NEW n \in Nat
  PROVE  \E f : Kept(q, S, n, f)
<1> DEFINE P == {m \in Nat : \E f : Kept(q, S, m, f)}
<1>1. 0 \in P
  <2>1. Kept(q, S, 0, [i \in 0 .. 0 |-> <<>>])
    BY DEF Kept
  <2>2. QED BY <2>1
<1>2. ASSUME NEW m \in Nat, m \in P PROVE m + 1 \in P
  <2>1. PICK f : Kept(q, S, m, f)
    BY <1>2
  <2> DEFINE g == [i \in 0 .. m + 1 |->
                     IF i <= m THEN f[i]
                     ELSE IF q[m + 1] \in S THEN Append(f[m], q[m + 1]) ELSE f[m]]
  <2>2. \A i \in 0 .. m + 1 :
           g[i] = IF i = 0 THEN <<>>
                  ELSE IF q[i] \in S THEN Append(g[i - 1], q[i]) ELSE g[i - 1]
    <3> TAKE i \in 0 .. m + 1
    <3>1. CASE i = m + 1
      BY <3>1
    <3>2. CASE i = 0
      BY <3>2, <2>1 DEF Kept
    <3>3. CASE i \in 1 .. m
      <4>1. i \in 0 .. m /\ i - 1 \in 0 .. m /\ i # 0 /\ i <= m /\ i - 1 <= m
        BY <3>3
      <4>2. f[i] = IF q[i] \in S THEN Append(f[i - 1], q[i]) ELSE f[i - 1]
        BY <4>1, <2>1 DEF Kept
      <4>3. g[i] = f[i] /\ g[i - 1] = f[i - 1]
        BY <4>1
      <4>4. QED BY <4>1, <4>2, <4>3
    <3>4. QED BY <3>1, <3>2, <3>3
  <2>3. Kept(q, S, m + 1, g)
    BY <2>2 DEF Kept
  <2>4. QED BY <2>3
<1> HIDE DEF P
<1>3. Nat \subseteq P
  BY <1>1, <1>2, NatInduct
<1>4. QED BY <1>3 DEF P

\* u has its elements in the order in which q has them.
InOrder(u, q) ==
    \A i, j \in 1 .. Len(u) : i < j => \E k, l \in 1 .. Len(q) : k < l /\ q[k] = u[i] /\ q[l] = u[j]

\* What Those keeps: the tasks of q that are in S, once if they are once in q, and in
\* their order.
LEMMA ThoseKeeps ==
  ASSUME NEW V, NEW q \in Seq(V), NEW S
  PROVE  LET u == Those(q, S)
         IN  /\ u \in Seq(V \cap S)
             /\ \A t : In(t, u) <=> In(t, q) /\ t \in S
             /\ InOrder(u, q)
<1>0. Len(q) \in Nat /\ \A i \in 1 .. Len(q) : q[i] \in V
  OBVIOUS
<1> DEFINE f == CHOOSE h : Kept(q, S, Len(q), h)
<1>1. Those(q, S) = f[Len(q)]
  BY DEF Those, Kept
<1>2. Kept(q, S, Len(q), f)
  BY <1>0, KeptExists
<1> HIDE DEF f
<1>3. /\ f[0] = <<>>
      /\ \A i \in 1 .. Len(q) :
            f[i] = IF q[i] \in S THEN Append(f[i - 1], q[i]) ELSE f[i - 1]
  <2>1. 0 \in 0 .. Len(q)
    BY <1>0
  <2>2. f[0] = <<>>
    BY <1>2, <2>1 DEF Kept
  <2>3. ASSUME NEW i \in 1 .. Len(q)
        PROVE  f[i] = IF q[i] \in S THEN Append(f[i - 1], q[i]) ELSE f[i - 1]
    <3>1. i \in 0 .. Len(q) /\ i # 0
      BY <1>0
    <3>2. QED BY <1>2, <3>1 DEF Kept
  <2>4. QED BY <2>2, <2>3
<1> DEFINE Good(n) ==
      /\ f[n] \in Seq(V \cap S)
      /\ \A i \in 1 .. Len(f[n]) : \E k \in 1 .. n : q[k] = f[n][i]
      /\ \A k \in 1 .. n : q[k] \in S => \E i \in 1 .. Len(f[n]) : f[n][i] = q[k]
      /\ \A i, j \in 1 .. Len(f[n]) : i < j =>
           \E k, l \in 1 .. n : k < l /\ q[k] = f[n][i] /\ q[l] = f[n][j]
    P == {n \in Nat : n <= Len(q) => Good(n)}
<1>4. 0 \in P
  <2>1. f[0] \in Seq(V \cap S) /\ Len(f[0]) = 0
    BY <1>3
  <2>2. Good(0)
    BY <2>1
  <2>3. QED BY <2>2
<1>5. ASSUME NEW n \in Nat, n \in P PROVE n + 1 \in P
  <2> SUFFICES ASSUME n + 1 <= Len(q) PROVE Good(n + 1)
    OBVIOUS
  <2>1. Good(n) /\ n + 1 \in 1 .. Len(q)
    <3> HIDE DEF Good
    <3> QED BY <1>5, <1>0
  <2>2. CASE q[n + 1] \notin S
    <3>1. f[n + 1] = f[n]
      <4> HIDE DEF Good
      <4>1. (n + 1) - 1 = n
        OBVIOUS
      <4>2. QED BY <4>1, <2>1, <2>2, <1>3
    <3>2. QED BY <3>1, <2>1, <2>2, <1>0
  <2>3. CASE q[n + 1] \in S
    <3>1. f[n + 1] = Append(f[n], q[n + 1])
      <4> HIDE DEF Good
      <4>1. (n + 1) - 1 = n
        OBVIOUS
      <4>2. QED BY <4>1, <2>1, <2>3, <1>3
    <3>2. q[n + 1] \in V \cap S
      BY <2>1, <2>3, <1>0
    <3>3. /\ f[n + 1] \in Seq(V \cap S) /\ Len(f[n + 1]) = Len(f[n]) + 1 /\ Len(f[n]) \in Nat
          /\ \A i \in 1 .. Len(f[n]) : f[n + 1][i] = f[n][i]
          /\ f[n + 1][Len(f[n]) + 1] = q[n + 1]
      BY <3>1, <3>2, <2>1, AppendProperties
    <3>4. \A i \in 1 .. Len(f[n + 1]) : \E k \in 1 .. n + 1 : q[k] = f[n + 1][i]
      <4> TAKE i \in 1 .. Len(f[n + 1])
      <4>1. CASE i = Len(f[n]) + 1
        <5>1. n + 1 \in 1 .. n + 1 /\ q[n + 1] = f[n + 1][i]
          BY <4>1, <3>3
        <5>2. QED BY <5>1
      <4>2. CASE i \in 1 .. Len(f[n])
        <5>1. PICK k \in 1 .. n : q[k] = f[n][i]
          BY <4>2, <2>1
        <5>2. k \in 1 .. n + 1 /\ q[k] = f[n + 1][i]
          BY <5>1, <4>2, <3>3
        <5>3. QED BY <5>2
      <4>3. QED BY <4>1, <4>2, <3>3
    <3>5. \A k \in 1 .. n + 1 : q[k] \in S => \E i \in 1 .. Len(f[n + 1]) : f[n + 1][i] = q[k]
      <4> TAKE k \in 1 .. n + 1
      <4>1. CASE k = n + 1
        BY <4>1, <3>3
      <4>2. CASE k \in 1 .. n
        BY <4>2, <3>3, <2>1
      <4>3. QED BY <4>1, <4>2
    <3>6. \A i, j \in 1 .. Len(f[n + 1]) : i < j =>
             \E k, l \in 1 .. n + 1 : k < l /\ q[k] = f[n + 1][i] /\ q[l] = f[n + 1][j]
      <4> SUFFICES ASSUME NEW i \in 1 .. Len(f[n + 1]), NEW j \in 1 .. Len(f[n + 1]), i < j
                   PROVE  \E k, l \in 1 .. n + 1 : k < l /\ q[k] = f[n + 1][i] /\ q[l] = f[n + 1][j]
        OBVIOUS
      <4>1. CASE j = Len(f[n]) + 1
        <5>0. i \in 1 .. Len(f[n])
          BY <4>1, <3>3
        <5>1. PICK k \in 1 .. n : q[k] = f[n][i]
          BY <5>0, <2>1
        <5>2. k < n + 1 /\ q[k] = f[n + 1][i] /\ q[n + 1] = f[n + 1][j]
          BY <5>0, <5>1, <4>1, <3>3
        <5>3. QED BY <5>2
      <4>2. CASE j \in 1 .. Len(f[n])
        <5>1. i \in 1 .. Len(f[n])
          BY <4>2, <3>3
        <5>2. PICK k \in 1 .. n, l \in 1 .. n : k < l /\ q[k] = f[n][i] /\ q[l] = f[n][j]
          BY <5>1, <4>2, <2>1
        <5>3. QED BY <5>1, <5>2, <4>2, <3>3
      <4>3. QED BY <4>1, <4>2, <3>3
    <3>7. QED BY <3>3, <3>4, <3>5, <3>6
  <2>4. QED BY <2>2, <2>3
<1> HIDE DEF P
<1>6. Len(q) \in P
  BY <1>4, <1>5, <1>0, NatInduct
<1>7. Good(Len(q))
  BY <1>6, <1>0 DEF P
<1> DEFINE u == f[Len(q)]
<1>8. u \in Seq(V \cap S) /\ InOrder(u, q)
  BY <1>7 DEF InOrder
<1>9. \A t : In(t, u) <=> In(t, q) /\ t \in S
  <2>1. ASSUME NEW t, In(t, u) PROVE In(t, q) /\ t \in S
    <3>1. PICK i \in 1 .. Len(u) : u[i] = t
      BY <2>1 DEF In
    <3>2. u[i] \in S
      BY <1>8
    <3>3. QED BY <3>1, <3>2, <1>7 DEF In
  <2>2. ASSUME NEW t, In(t, q), t \in S PROVE In(t, u)
    <3>1. PICK k \in 1 .. Len(q) : q[k] = t
      BY <2>2 DEF In
    <3>2. \E i \in 1 .. Len(u) : u[i] = q[k]
      BY <3>1, <2>2, <1>7
    <3>3. QED BY <3>1, <3>2 DEF In
  <2>3. QED BY <2>1, <2>2
<1> HIDE DEF u
<1>10. QED BY <1>8, <1>9, <1>1 DEF u

-----------------------------------------------------------------------------
(* Types.                                                                  *)

ScOK(s) == s \in [audioList : Seq({"aud"}), gfxList : Seq(Tasks \ {"aud"}),
                  rsp : Tasks \cup {NoTask}, rdp : Tasks \cup {NoTask},
                  state : [Tasks -> SUBSET Bits]]
PcOK(p) == \/ p = Main
           \/ \E t \in Tasks : \/ p = Halting(t)
                               \/ \E dp \in BOOLEAN : p = Loading(t, dp)
                               \/ \E then \in {"rsp", "rdp", "end", "haltRdp"} : p = Sending(t, then)
DispOK(d) == d \in [curBuf : Cfbs \cup {NoCfb}, pending : Cfbs \cup {NoCfb},
                    cfb : [Cfbs -> [fb : FBs, rate : 1..MaxRate, timer : 0..MaxRate]],
                    viCur : FBs \cup {Boot}, viNext : FBs \cup {Boot}]
HwOK(h) == h \in [task : Tasks \cup {NoTask}, busy : BOOLEAN, yieldReq : BOOLEAN,
                  yielded : BOOLEAN, working : SUBSET Tasks,
                  drawing : {"no", "drawing", "synced"}, stale : Nat]

GraphOK(g) == g \in [at : GraphPlaces, in : {"init", "game"}, task : Tasks \ {"aud"},
                     mesg : {"done", "timeout"}, timer : BOOLEAN, left : -1..Retries,
                     cfbIndex : Cfbs, fbIndex : FBs]
AudioOK(a) == a \in [at : AudioPlaces, mesg : {"done", "timeout"}, timer : BOOLEAN,
                     left : -1..Retries, retrace : BOOLEAN]

\* The type invariant; and an audio task is never asked to yield.
TypeInv ==
    /\ ScOK(sc) /\ "YIELD" \notin sc.state["aud"] /\ PcOK(pc)
    /\ iq \in Seq(IrqMesgs) /\ cmdq \in Seq(Tasks)
    /\ reply \in [Tasks -> Seq({"done", "timeout"})]
    /\ DispOK(disp) /\ gfx \in [cfb : Cfbs, swap : BOOLEAN] /\ HwOK(hw)
    /\ GraphOK(graph) /\ AudioOK(audio) /\ setting \in Settings

\* What the run checks follows.
LEMMA TypeInvTypes == TypeInv => TypeOK
BY DEF TypeInv, TypeOK, SchedTypeOK, ScOK, PcOK, DispOK, HwOK, GraphOK, AudioOK

\* Sched_QueueTask leaves lists of tasks.
LEMMA QueueType ==
  ASSUME NEW s, ScOK(s), NEW q \in Seq(Tasks)
  PROVE  /\ ScOK(QueueTasks(s, q))
         /\ "YIELD" \notin s.state["aud"] => "YIELD" \notin QueueTasks(s, q).state["aud"]
<1>1. /\ Those(q, {"aud"}) \in Seq({"aud"})
      /\ Those(q, Tasks \ {"aud"}) \in Seq(Tasks \ {"aud"})
  <2>1. Tasks \cap {"aud"} = {"aud"} /\ Tasks \cap (Tasks \ {"aud"}) = Tasks \ {"aud"}
    BY DEF Tasks
  <2>2. QED BY <2>1, ThoseKeeps
<1>2. /\ s.audioList \o Those(q, {"aud"}) \in Seq({"aud"})
      /\ s.gfxList \o Those(q, Tasks \ {"aud"}) \in Seq(Tasks \ {"aud"})
  BY <1>1, ConcatProperties DEF ScOK
<1>3. [t \in Tasks |-> IF t \notin Range(q) THEN s.state[t]
                       ELSE IF t \in NeedsRDP THEN {"SP", "DP"} ELSE {"SP"}] \in [Tasks -> SUBSET Bits]
  BY DEF ScOK, Bits
<1>4. QED BY <1>2, <1>3 DEF QueueTasks, ScOK, Tasks

\* What is taken off its list, and by whom.
LEMMA ScheduleType ==
  ASSUME NEW s, ScOK(s), "YIELD" \notin s.state["aud"], NEW valid, ScheduleAndRun(s, valid)
  PROVE  ScOK(sc') /\ PcOK(pc') /\ "YIELD" \notin sc'.state["aud"]
<1>1. CASE Picks(s, valid) = {}
  BY <1>1 DEF ScheduleAndRun, PcOK, Main
<1>2. CASE Picks(s, valid) # {}
  <2>1. PICK p \in Picks(s, valid) :
            LET r == IF p.task = "aud" THEN [s EXCEPT !.audioList = Tail(@)]
                                       ELSE [s EXCEPT !.gfxList = Tail(@)]
            IN  IF p.task = "null"
                THEN /\ sc' = [r EXCEPT !.state["null"] = @ \ {"SP", "DP"}]
                     /\ pc' = Sending("null", "end")
                ELSE sc' = r /\ pc' = Loading(p.task, p.dp)
    BY <1>2 DEF ScheduleAndRun
  <2>2. \/ p.task = "aud" /\ s.audioList # <<>> /\ p.dp \in BOOLEAN
        \/ p.task \in Tasks \ {"aud"} /\ s.gfxList # <<>> /\ p.dp \in BOOLEAN
    <3>1. s.gfxList # <<>> => Head(s.gfxList) \in Tasks \ {"aud"}
      BY HeadTailProperties DEF ScOK
    <3>2. CASE s.audioList # <<>>
      <4>1. p = [task |-> "aud", dp |-> FALSE]
        BY <3>2, <1>2 DEF Picks
      <4>2. QED BY <3>2, <4>1
    <3>3. CASE s.audioList = <<>>
      <4>1. s.gfxList # <<>> /\ \E b \in BOOLEAN : p = [task |-> Head(s.gfxList), dp |-> b]
        BY <3>3, <1>2 DEF Picks
      <4>2. QED BY <3>1, <4>1
    <3>4. QED BY <3>2, <3>3
  <2>3. CASE p.task = "aud"
    <3>1. Tail(s.audioList) \in Seq({"aud"})
      BY <2>2, <2>3, HeadTailProperties DEF ScOK
    <3>2. sc' = [s EXCEPT !.audioList = Tail(@)] /\ pc' = Loading("aud", p.dp)
      BY <2>1, <2>3
    <3>3. QED BY <2>2, <2>3, <3>1, <3>2 DEF ScOK, PcOK, Tasks
  <2>4. CASE p.task # "aud"
    <3>1. Tail(s.gfxList) \in Seq(Tasks \ {"aud"})
      BY <2>2, <2>4, HeadTailProperties DEF ScOK
    <3>2. CASE p.task = "null"
      <4>1. /\ sc' = [[s EXCEPT !.gfxList = Tail(@)] EXCEPT !.state["null"] = @ \ {"SP", "DP"}]
            /\ pc' = Sending("null", "end")
        BY <2>1, <2>4, <3>2
      <4>2. QED BY <4>1, <3>1 DEF ScOK, PcOK, Tasks
    <3>3. CASE p.task # "null"
      <4>1. sc' = [s EXCEPT !.gfxList = Tail(@)] /\ pc' = Loading(p.task, p.dp)
        BY <2>1, <2>4, <3>3
      <4>2. QED BY <4>1, <3>1, <2>2, <2>4 DEF ScOK, PcOK
    <3>4. QED BY <3>2, <3>3
  <2>5. QED BY <2>3, <2>4
<1>3. QED BY <1>1, <1>2

\* Sched_TaskComplete's part about framebuffers keeps the types of what it writes.
LEMMA SwapType ==
  ASSUME NEW d, DispOK(d)
  PROVE  /\ d.pending # NoCfb => DispOK(SwapFramebuffer(d))
         /\ \A c \in Cfbs : DispOK(SetNextFramebuffer(d, c))
         /\ DispOK(RetraceFramebuffers(d))
<1>1. ASSUME NEW e, DispOK(e), e.pending # NoCfb PROVE DispOK(SwapFramebuffer(e))
  <2>1. e.pending \in Cfbs
    BY <1>1 DEF DispOK
  <2>2. e.cfb[e.pending].fb \in FBs /\ e.cfb[e.pending].rate \in 0 .. MaxRate
    BY <1>1, <2>1, SchedAssumption DEF DispOK
  <2> DEFINE one == [e.cfb[e.pending] EXCEPT !.timer = e.cfb[e.pending].rate]
             all == [e.cfb EXCEPT ![e.pending] = one]
  <2>3. one \in [fb : FBs, rate : 1..MaxRate, timer : 0..MaxRate]
    BY <1>1, <2>1, <2>2 DEF DispOK
  <2>4. all \in [Cfbs -> [fb : FBs, rate : 1..MaxRate, timer : 0..MaxRate]]
    BY <1>1, <2>3 DEF DispOK
  <2>5. SwapFramebuffer(e) = [e EXCEPT !.viNext = e.cfb[e.pending].fb, !.cfb = all]
    BY <1>1, <2>1 DEF DispOK, SwapFramebuffer
  <2> HIDE DEF one, all
  <2>6. QED BY <1>1, <2>2, <2>4, <2>5 DEF DispOK
<1>2. ASSUME NEW c \in Cfbs PROVE DispOK(SetNextFramebuffer(d, c))
  <2>1. DispOK([d EXCEPT !.pending = c]) /\ [d EXCEPT !.pending = c].pending # NoCfb
    BY DEF DispOK, Cfbs, NoCfb
  <2>2. QED BY <2>1, <1>1 DEF SetNextFramebuffer
<1>3. DispOK(RetraceFramebuffers(d))
  <2> DEFINE shown == d.pending # NoCfb /\ d.viCur = d.cfb[d.pending].fb
             e == IF shown THEN [d EXCEPT !.curBuf = d.pending, !.pending = NoCfb] ELSE d
             f == IF e.curBuf # NoCfb /\ e.cfb[e.curBuf].timer > 0
                  THEN [e EXCEPT !.cfb[e.curBuf].timer = @ - 1] ELSE e
  <2>1. DispOK(e)
    BY DEF DispOK, NoCfb
  <2> HIDE DEF e
  <2>2. DispOK(f)
    <3>1. CASE e.curBuf # NoCfb /\ e.cfb[e.curBuf].timer > 0
      <4>1. e.curBuf \in Cfbs /\ e.cfb[e.curBuf].timer - 1 \in 0 .. MaxRate
        BY <3>1, <2>1, SchedAssumption DEF DispOK
      <4>2. QED BY <3>1, <4>1, <2>1 DEF DispOK
    <3>2. QED BY <3>1, <2>1
  <2> HIDE DEF f
  <2>3. RetraceFramebuffers(d) = IF f.curBuf # NoCfb /\ f.cfb[f.curBuf].timer = 0 /\ f.pending # NoCfb
                                 THEN SwapFramebuffer(f) ELSE f
    BY DEF RetraceFramebuffers, e, f
  <2>4. QED BY <2>2, <2>3, <1>1
<1>4. QED BY <1>1, <1>2, <1>3

\* Posting keeps the queue's type, and a message that is in it.
LEMMA PostType ==
  ASSUME NEW q \in Seq(IrqMesgs), NEW m \in IrqMesgs
  PROVE  Post(q, m) \in Seq(IrqMesgs)
BY AppendProperties DEF Post

\* The types hold at the start.
LEMMA TypeInit == Init => TypeInv
<1> SUFFICES ASSUME Init PROVE TypeInv
  OBVIOUS
<1>1. ScOK(sc) /\ "YIELD" \notin sc.state["aud"]
  BY DEF Init, SchedInit, ScOK, Tasks
<1>2. PcOK(pc) /\ iq \in Seq(IrqMesgs) /\ cmdq \in Seq(Tasks)
      /\ reply \in [Tasks -> Seq({"done", "timeout"})]
  BY DEF Init, SchedInit, PcOK
<1>3. DispOK(disp) /\ gfx \in [cfb : Cfbs, swap : BOOLEAN] /\ HwOK(hw)
  BY SchedAssumption DEF Init, SchedInit, DispOK, HwOK, Cfbs, NoCfb, FBs, Boot
<1>4. GraphOK(graph) /\ AudioOK(audio) /\ setting \in Settings
  BY RcpAssumption DEF Init, GraphOK, AudioOK, GraphPlaces, AudioPlaces, Tasks, Cfbs, FBs
<1>5. QED BY <1>1, <1>2, <1>3, <1>4 DEF TypeInv

\* The ends of the handlers of the scheduler.
LEMMA NotifyType ==
  ASSUME TypeInv, Notify
  PROVE  ScOK(sc') /\ PcOK(pc') /\ "YIELD" \notin sc'.state["aud"] /\ HwOK(hw') /\ cmdq' = <<>>
<1> DEFINE s == QueueTasks(sc, cmdq)
<1>1. ScOK(s) /\ "YIELD" \notin s.state["aud"] /\ HwOK(hw)
  BY QueueType DEF TypeInv
<1>2. CASE s.audioList # <<>> /\ s.rsp # NoTask
  <2>1. CASE s.rsp = "aud" \/ "YIELD" \in s.state[s.rsp]
    <3>1. sc' = s /\ pc' = Main /\ hw' = hw /\ cmdq' = <<>>
      BY <1>2, <2>1 DEF Notify
    <3>2. QED BY <3>1, <1>1 DEF PcOK
  <2>2. CASE ~ (s.rsp = "aud" \/ "YIELD" \in s.state[s.rsp])
    <3>1. /\ sc' = [s EXCEPT !.state[s.rsp] = @ \cup {"YIELD"}]
          /\ hw' = [hw EXCEPT !.yieldReq = TRUE] /\ pc' = Main /\ cmdq' = <<>>
      BY <1>2, <2>2 DEF Notify
    <3> HIDE DEF s
    <3>2. ScOK(sc') /\ "YIELD" \notin sc'.state["aud"]
      <4> DEFINE st == [s.state EXCEPT ![s.rsp] = @ \cup {"YIELD"}]
      <4>1. st \in [Tasks -> SUBSET Bits] /\ "YIELD" \notin st["aud"]
        BY <1>1, <2>2 DEF ScOK, Bits, Tasks
      <4>2. sc' = [s EXCEPT !.state = st]
        BY <3>1, <1>1 DEF ScOK
      <4> HIDE DEF st
      <4>3. QED BY <4>1, <4>2, <1>1 DEF ScOK
    <3>3. HwOK(hw') /\ PcOK(pc')
      BY <3>1, <1>1 DEF HwOK, PcOK
    <3>4. QED BY <3>1, <3>2, <3>3
  <2>3. QED BY <2>1, <2>2
<1>3. CASE ~ (s.audioList # <<>> /\ s.rsp # NoTask)
  <2>1. ScheduleAndRun(s, TaskFramebuffersValid') /\ hw' = hw /\ cmdq' = <<>>
    BY <1>3 DEF Notify
  <2> HIDE DEF s
  <2>2. QED BY <2>1, <1>1, ScheduleType
<1>4. QED BY <1>2, <1>3

\* Sched_TaskComplete keeps the types.
LEMMA CompleteType ==
  ASSUME NEW s, ScOK(s), "YIELD" \notin s.state["aud"], NEW t \in Tasks,
         NEW then \in {"rsp", "rdp"}, TaskComplete(s, t, then)
  PROVE  ScOK(sc') /\ PcOK(pc') /\ "YIELD" \notin sc'.state["aud"]
<1>1. CASE s.state[t] \cap {"SP", "DP"} = {}
  BY <1>1 DEF TaskComplete, PcOK
<1>2. CASE s.state[t] \cap {"SP", "DP"} # {}
  BY <1>2, ScheduleType DEF TaskComplete
<1>3. QED BY <1>1, <1>2

\* The states that the handlers of the processors' messages pass through.
Bit(t, B) == [sc.state EXCEPT ![t] = B]
RSPYielded == [sc EXCEPT !.rsp = NoTask, !.state = Bit(sc.rsp, sc.state[sc.rsp] \cup {"YIELDED"}),
                         !.gfxList = <<sc.rsp>> \o sc.gfxList]
RSPDone == [sc EXCEPT !.rsp = NoTask, !.state = Bit(sc.rsp, sc.state[sc.rsp] \ {"SP"})]
RDPDone == [sc EXCEPT !.rdp = NoTask, !.state = Bit(sc.rdp, sc.state[sc.rdp] \ {"DP"})]

\* Setting a task's state to some bits keeps the scheduler's type.
LEMMA BitType ==
  ASSUME ScOK(sc), "YIELD" \notin sc.state["aud"], NEW t \in Tasks, NEW B \in SUBSET Bits,
         t = "aud" => "YIELD" \notin B
  PROVE  Bit(t, B) \in [Tasks -> SUBSET Bits] /\ "YIELD" \notin Bit(t, B)["aud"]
BY DEF ScOK, Bit, Tasks

\* Sched_HandleRSPDone is one of two: the task has yielded and goes back to the head
\* of its list, or it is done on the RSP.
LEMMA RSPDoneSteps ==
  ASSUME TypeInv, HandleRSPDone
  PROVE  \/ sc.rsp = NoTask /\ UNCHANGED <<sc, pc>>
         \/ /\ sc.rsp # NoTask /\ "YIELD" \in sc.state[sc.rsp] /\ hw.yielded
            /\ ScheduleAndRun(RSPYielded, TaskFramebuffersValid)
         \/ /\ sc.rsp # NoTask /\ ~ ("YIELD" \in sc.state[sc.rsp] /\ hw.yielded)
            /\ TaskComplete(RSPDone, sc.rsp, "rsp")
<1> DEFINE s == [sc EXCEPT !.rsp = NoTask]
           y == [s EXCEPT !.state[sc.rsp] = @ \cup {"YIELDED"}, !.gfxList = <<sc.rsp>> \o @]
           d == [s EXCEPT !.state[sc.rsp] = @ \ {"SP"}]
<1>1. y = RSPYielded /\ d = RSPDone
  BY DEF TypeInv, ScOK, RSPYielded, RSPDone, Bit
<1>2. CASE sc.rsp = NoTask
  BY <1>2 DEF HandleRSPDone
<1>3. CASE sc.rsp # NoTask /\ "YIELD" \in sc.state[sc.rsp] /\ hw.yielded
  <2>1. ScheduleAndRun(y, TaskFramebuffersValid)
    BY <1>3 DEF HandleRSPDone
  <2>2. QED BY <2>1, <1>1, <1>3
<1>4. CASE sc.rsp # NoTask /\ ~ ("YIELD" \in sc.state[sc.rsp] /\ hw.yielded)
  <2>1. TaskComplete(d, sc.rsp, "rsp")
    BY <1>4 DEF HandleRSPDone
  <2>2. QED BY <2>1, <1>1, <1>4
<1>5. QED BY <1>2, <1>3, <1>4

\* Both handlers of the processors' interrupts keep the types.
LEMMA DoneType ==
  ASSUME ScOK(sc), "YIELD" \notin sc.state["aud"]
  PROVE  /\ sc.rsp # NoTask =>
                sc.rsp \in Tasks /\ ScOK(RSPDone) /\ "YIELD" \notin RSPDone.state["aud"]
         /\ sc.rsp # NoTask /\ "YIELD" \in sc.state[sc.rsp] =>
                ScOK(RSPYielded) /\ "YIELD" \notin RSPYielded.state["aud"]
         /\ sc.rdp # NoTask =>
                sc.rdp \in Tasks /\ ScOK(RDPDone) /\ "YIELD" \notin RDPDone.state["aud"]
<1>1. ASSUME sc.rsp # NoTask
      PROVE  /\ sc.rsp \in Tasks /\ ScOK(RSPDone) /\ "YIELD" \notin RSPDone.state["aud"]
             /\ "YIELD" \in sc.state[sc.rsp] =>
                    ScOK(RSPYielded) /\ "YIELD" \notin RSPYielded.state["aud"]
  <2>1. sc.rsp \in Tasks /\ sc.state[sc.rsp] \cup {"YIELDED"} \in SUBSET Bits
        /\ sc.state[sc.rsp] \ {"SP"} \in SUBSET Bits
    BY <1>1 DEF ScOK, Bits
  <2>2. ScOK(RSPDone) /\ "YIELD" \notin RSPDone.state["aud"]
    <3>1. /\ Bit(sc.rsp, sc.state[sc.rsp] \ {"SP"}) \in [Tasks -> SUBSET Bits]
          /\ "YIELD" \notin Bit(sc.rsp, sc.state[sc.rsp] \ {"SP"})["aud"]
      BY <2>1, BitType
    <3>2. QED BY <3>1 DEF ScOK, RSPDone
  <2>3. ASSUME "YIELD" \in sc.state[sc.rsp]
        PROVE  ScOK(RSPYielded) /\ "YIELD" \notin RSPYielded.state["aud"]
    <3>1. <<sc.rsp>> \o sc.gfxList \in Seq(Tasks \ {"aud"})
      BY <2>1, <2>3, ConcatProperties DEF ScOK
    <3>2. /\ Bit(sc.rsp, sc.state[sc.rsp] \cup {"YIELDED"}) \in [Tasks -> SUBSET Bits]
          /\ "YIELD" \notin Bit(sc.rsp, sc.state[sc.rsp] \cup {"YIELDED"})["aud"]
      BY <2>1, <2>3, BitType
    <3>3. QED BY <3>1, <3>2 DEF ScOK, RSPYielded
  <2>4. QED BY <2>1, <2>2, <2>3
<1>2. ASSUME sc.rdp # NoTask
      PROVE  sc.rdp \in Tasks /\ ScOK(RDPDone) /\ "YIELD" \notin RDPDone.state["aud"]
  <2>1. sc.rdp \in Tasks /\ sc.state[sc.rdp] \ {"DP"} \in SUBSET Bits
    BY <1>2 DEF ScOK, Bits
  <2>2. /\ Bit(sc.rdp, sc.state[sc.rdp] \ {"DP"}) \in [Tasks -> SUBSET Bits]
        /\ "YIELD" \notin Bit(sc.rdp, sc.state[sc.rdp] \ {"DP"})["aud"]
    BY <2>1, BitType DEF ScOK
  <2>3. QED BY <2>1, <2>2 DEF ScOK, RDPDone
<1>3. QED BY <1>1, <1>2

\* Every step of the scheduler thread keeps the types.
LEMMA SchedStepType ==
  ASSUME TypeInv, SchedStep
  PROVE  /\ ScOK(sc') /\ "YIELD" \notin sc'.state["aud"] /\ PcOK(pc')
         /\ iq' \in Seq(IrqMesgs) /\ cmdq' \in Seq(Tasks)
         /\ reply' \in [Tasks -> Seq({"done", "timeout"})]
         /\ DispOK(disp') /\ gfx' = gfx /\ HwOK(hw')
<1>0. /\ ScOK(sc) /\ "YIELD" \notin sc.state["aud"] /\ PcOK(pc)
      /\ iq \in Seq(IrqMesgs) /\ cmdq \in Seq(Tasks)
      /\ reply \in [Tasks -> Seq({"done", "timeout"})]
      /\ DispOK(disp) /\ gfx \in [cfb : Cfbs, swap : BOOLEAN] /\ HwOK(hw)
      /\ <<>> \in Seq(Tasks)
  BY DEF TypeInv
<1> DEFINE q == Tail(iq)
<1>q. /\ iq # <<>> => q \in Seq(IrqMesgs)
      /\ \A u \in Seq(IrqMesgs) : HaltRDP(u) \in Seq(IrqMesgs)
      /\ \A u \in Seq(IrqMesgs) : Post(u, "rspDone") \in Seq(IrqMesgs)
      /\ \A m : Receive(m) => iq' \in Seq(IrqMesgs)
  <2>1. iq # <<>> => q \in Seq(IrqMesgs)
    BY <1>0, HeadTailProperties
  <2>2. "rspDone" \in IrqMesgs /\ "rdpDone" \in IrqMesgs
    BY DEF IrqMesgs
  <2>3. QED BY <2>1, <2>2, PostType DEF HaltRDP, Receive
<1> HIDE DEF q
<1>1. CASE HandleNotify
  BY <1>1, <1>q, <1>0, NotifyType DEF HandleNotify
<1>2. CASE HandleRetrace
  <2>1. DispOK(disp')
    BY <1>2, <1>0, SwapType DEF HandleRetrace
  <2>2. QED BY <1>2, <2>1, <1>0, <1>q, NotifyType DEF HandleRetrace
<1>3. CASE HandleRSPDone
  <2>1. iq' \in Seq(IrqMesgs) /\ UNCHANGED <<cmdq, reply, disp, gfx, hw>>
    BY <1>3, <1>q DEF HandleRSPDone
  <2>2. ScOK(sc') /\ PcOK(pc') /\ "YIELD" \notin sc'.state["aud"]
    BY <1>3, <1>0, RSPDoneSteps, DoneType, ScheduleType, CompleteType
  <2>3. QED BY <2>1, <2>2, <1>0
<1>4. CASE HandleRDPDone
  <2>1. iq' \in Seq(IrqMesgs) /\ UNCHANGED <<cmdq, reply, disp, gfx, hw>>
    BY <1>4, <1>q DEF HandleRDPDone
  <2>2. IF sc.rdp = NoTask THEN UNCHANGED <<sc, pc>> ELSE TaskComplete(RDPDone, sc.rdp, "rdp")
    <3> DEFINE d == [sc EXCEPT !.rdp = NoTask, !.state[sc.rdp] = @ \ {"DP"}]
    <3>1. IF sc.rdp = NoTask THEN UNCHANGED <<sc, pc>> ELSE TaskComplete(d, sc.rdp, "rdp")
      BY <1>4 DEF HandleRDPDone
    <3>2. d = RDPDone
      BY <1>0 DEF RDPDone, ScOK, Bit
    <3> HIDE DEF d
    <3>3. QED BY <3>1, <3>2
  <2>3. ScOK(sc') /\ PcOK(pc') /\ "YIELD" \notin sc'.state["aud"]
    BY <2>2, <1>0, DoneType, CompleteType
  <2>4. QED BY <2>1, <2>3, <1>0
<1>6. CASE HandleAudioCancel
  <2>1. UNCHANGED <<cmdq, reply, disp, gfx, hw>> /\ iq' \in Seq(IrqMesgs)
    BY <1>6, <1>q DEF HandleAudioCancel, q
  <2>2. ScOK(sc') /\ "YIELD" \notin sc'.state["aud"]
    <3>1. CASE sc' = sc
      BY <3>1, <1>0
    <3>2. CASE sc.audioList # <<>> /\ sc' = [sc EXCEPT !.audioList = Tail(@)]
      <4>1. Tail(sc.audioList) \in Seq({"aud"})
        BY <3>2, <1>0, HeadTailProperties DEF ScOK
      <4>2. QED BY <3>2, <4>1, <1>0 DEF ScOK
    <3>3. QED BY <1>6, <3>1, <3>2 DEF HandleAudioCancel
  <2>3. PcOK(pc')
    <3>1. pc' \in {pc, Main, Halting("aud"), Sending("aud", "end")}
      BY <1>6 DEF HandleAudioCancel
    <3>2. QED BY <3>1, <1>0 DEF PcOK, Tasks
  <2>4. QED BY <2>1, <2>2, <2>3, <1>0
<1>7. CASE HandleGfxCancel
  <2>1. UNCHANGED <<cmdq, reply, disp, gfx, hw>> /\ iq' \in Seq(IrqMesgs)
    BY <1>7, <1>q DEF HandleGfxCancel, q
  <2>2. sc.gfxList # <<>> => Tail(sc.gfxList) \in Seq(Tasks \ {"aud"}) /\ Head(sc.gfxList) \in Tasks
    BY <1>0, HeadTailProperties DEF ScOK
  <2>3. ScOK(sc') /\ "YIELD" \notin sc'.state["aud"]
    <3>1. CASE sc' = sc
      BY <3>1, <1>0
    <3>2. CASE sc.gfxList # <<>> /\ sc' = [sc EXCEPT !.gfxList = Tail(@)]
      BY <3>2, <2>2, <1>0 DEF ScOK
    <3>3. QED BY <1>7, <3>1, <3>2 DEF HandleGfxCancel
  <2>4. PcOK(pc')
    <3>1. \/ pc' \in {pc, Main, Halting("gfx")}
          \/ sc.gfxList # <<>> /\ pc' = Sending(Head(sc.gfxList), "haltRdp")
      BY <1>7 DEF HandleGfxCancel
    <3>2. QED BY <3>1, <2>2, <1>0 DEF PcOK, Tasks
  <2>5. QED BY <2>1, <2>3, <2>4, <1>0
<1>8. CASE FinishHalt
  <2>1. UNCHANGED <<sc, cmdq, reply, disp, gfx>> /\ iq' \in Seq(IrqMesgs) /\ PcOK(pc')
    BY <1>8, <1>0, <1>q DEF FinishHalt, PcOK
  <2>2. HwOK(hw')
    BY <1>8, <1>0 DEF FinishHalt, HwOK
  <2>3. QED BY <2>1, <2>2, <1>0
<1>9. CASE SendDone
  <2>1. PICK t \in Tasks, then \in {"rsp", "rdp", "end", "haltRdp"} : pc = Sending(t, then)
    BY <1>9, <1>0 DEF SendDone, PcOK, Main, Halting, Loading
  <2>2. pc.task = t /\ pc.then = then
    BY <2>1 DEF Sending
  <2>3. reply' \in [Tasks -> Seq({"done", "timeout"})] /\ UNCHANGED <<cmdq, gfx, hw>>
    <3>1. Append(reply[t], "done") \in Seq({"done", "timeout"})
      BY <1>0, AppendProperties
    <3>2. QED BY <1>9, <1>0, <2>2, <3>1 DEF SendDone
  <2>4. CASE then \in {"rsp", "rdp"}
    <3>1. /\ disp' = IF pc.task = "gfx" /\ gfx.swap THEN SetNextFramebuffer(disp, gfx.cfb) ELSE disp
          /\ ScheduleAndRun(sc, TaskFramebuffersValid') /\ UNCHANGED iq
      BY <1>9, <2>2, <2>4 DEF SendDone
    <3>2. DispOK(disp')
      BY <3>1, <1>0, SwapType
    <3>3. QED BY <2>3, <3>1, <3>2, <1>0, ScheduleType
  <2>5. CASE then = "haltRdp"
    <3>1. pc' = Main /\ iq' = HaltRDP(iq) /\ UNCHANGED <<sc, disp>>
      BY <1>9, <2>2, <2>5 DEF SendDone
    <3>2. QED BY <2>3, <3>1, <1>0, <1>q DEF PcOK
  <2>6. CASE then = "end"
    <3>1. pc' = Main /\ UNCHANGED <<sc, iq, disp>>
      BY <1>9, <2>2, <2>6 DEF SendDone
    <3>2. QED BY <2>3, <3>1, <1>0 DEF PcOK
  <2>7. QED BY <2>1, <2>4, <2>5, <2>6
<1>10. CASE RunTask
  <2>1. UNCHANGED <<iq, cmdq, reply, disp, gfx>> /\ PcOK(pc')
    BY <1>10 DEF RunTask, PcOK
  <2>2. pc.task \in Tasks
    BY <1>10, <1>0 DEF RunTask, PcOK, Main, Halting, Sending, Loading
  <2>3. ScOK(sc') /\ "YIELD" \notin sc'.state["aud"]
    <3>1. sc' = [sc EXCEPT !.state[pc.task] = @ \ {"YIELD", "YIELDED"}, !.rsp = pc.task,
                           !.rdp = IF pc.dp /\ @ = NoTask THEN pc.task ELSE @]
      BY <1>10 DEF RunTask
    <3> DEFINE st == Bit(pc.task, sc.state[pc.task] \ {"YIELD", "YIELDED"})
               rd == IF pc.dp /\ sc.rdp = NoTask THEN pc.task ELSE sc.rdp
    <3>2. sc.state[pc.task] \ {"YIELD", "YIELDED"} \in SUBSET Bits
      BY <1>0, <2>2 DEF ScOK
    <3>3. st \in [Tasks -> SUBSET Bits] /\ "YIELD" \notin st["aud"]
      BY <3>2, <1>0, <2>2, BitType
    <3>4. sc' = [sc EXCEPT !.state = st, !.rsp = pc.task, !.rdp = rd]
      BY <3>1, <1>0 DEF ScOK, Bit
    <3>5. rd \in Tasks \cup {NoTask}
      BY <1>0, <2>2 DEF ScOK
    <3> HIDE DEF st, rd
    <3>6. QED BY <3>3, <3>4, <3>5, <1>0, <2>2 DEF ScOK
  <2>4. HwOK(hw')
    <3> DEFINE fresh == pc.task = "gfx" /\ "YIELDED" \notin sc.state[pc.task]
               stale == IF fresh /\ hw.drawing = "synced" THEN hw.stale + 1 ELSE hw.stale
               drawing == IF fresh THEN "drawing" ELSE hw.drawing
    <3>1. hw' = [hw EXCEPT !.task = pc.task, !.busy = TRUE, !.yieldReq = FALSE,
                           !.yielded = FALSE, !.working = hw.working \cup {pc.task},
                           !.stale = stale, !.drawing = drawing]
      BY <1>10, <1>0 DEF RunTask, HwOK
    <3>2. /\ hw.working \cup {pc.task} \in SUBSET Tasks
          /\ stale \in Nat /\ drawing \in {"no", "drawing", "synced"}
      BY <1>0, <2>2 DEF HwOK
    <3> HIDE DEF stale, drawing
    <3>3. QED BY <3>1, <3>2, <2>2, <1>0 DEF HwOK
  <2>5. QED BY <2>1, <2>3, <2>4, <1>0
<1>11. QED BY <1>1, <1>2, <1>3, <1>4, <1>6, <1>7, <1>8, <1>9, <1>10 DEF SchedStep

\* The RSP, the RDP and their interrupts keep the types.
LEMMA HardwareType ==
  ASSUME TypeInv, Hardware
  PROVE  iq' \in Seq(IrqMesgs) /\ HwOK(hw') /\ UNCHANGED <<sc, pc, cmdq, reply, disp, gfx>>
<1>0. iq \in Seq(IrqMesgs) /\ HwOK(hw) /\ "rspDone" \in IrqMesgs /\ "rdpDone" \in IrqMesgs
  BY DEF TypeInv, IrqMesgs
<1>1. CASE RSPSync
  BY <1>1, <1>0 DEF RSPSync, HwOK
<1>2. CASE RSPFinish
  <2>1. HwOK(hw')
    BY <1>2, <1>0 DEF RSPFinish, HwOK
  <2>2. QED BY <1>2, <2>1, <1>0, PostType DEF RSPFinish
<1>3. CASE RSPYield
  <2>1. HwOK(hw')
    BY <1>3, <1>0 DEF RSPYield, HwOK
  <2>2. QED BY <1>3, <2>1, <1>0, PostType DEF RSPYield
<1>4. CASE RDPFinish
  <2>1. HwOK(hw')
    BY <1>4, <1>0 DEF RDPFinish, HwOK
  <2>2. QED BY <1>4, <2>1, <1>0, PostType DEF RDPFinish
<1>5. QED BY <1>1, <1>2, <1>3, <1>4 DEF Hardware

\* A queue of answers stays one when it is emptied, extended or its head is taken.
LEMMA ReplyType ==
  ASSUME reply \in [Tasks -> Seq({"done", "timeout"})], NEW t \in Tasks
  PROVE  /\ [reply EXCEPT ![t] = <<>>] \in [Tasks -> Seq({"done", "timeout"})]
         /\ \A m \in {"done", "timeout"} :
                [reply EXCEPT ![t] = Append(@, m)] \in [Tasks -> Seq({"done", "timeout"})]
         /\ reply[t] # <<>> =>
                /\ [reply EXCEPT ![t] = Tail(@)] \in [Tasks -> Seq({"done", "timeout"})]
                /\ Head(reply[t]) \in {"done", "timeout"}
BY AppendProperties, HeadTailProperties

\* Every step of the graph thread keeps the types, and its setting.
LEMMA GraphType ==
  ASSUME TypeInv, GraphStep
  PROVE  /\ iq' \in Seq(IrqMesgs) /\ cmdq' \in Seq(Tasks)
         /\ reply' \in [Tasks -> Seq({"done", "timeout"})] /\ DispOK(disp')
         /\ gfx' \in [cfb : Cfbs, swap : BOOLEAN] /\ GraphOK(graph')
         /\ UNCHANGED <<sc, pc, hw, audio, setting>>
<1>0. /\ iq \in Seq(IrqMesgs) /\ cmdq \in Seq(Tasks)
      /\ reply \in [Tasks -> Seq({"done", "timeout"})] /\ DispOK(disp)
      /\ gfx \in [cfb : Cfbs, swap : BOOLEAN] /\ GraphOK(graph) /\ setting \in Settings
      /\ graph.task \in Tasks /\ "gfx" \in Tasks \ {"aud"}
      /\ "notify" \in IrqMesgs /\ "gfxCancel" \in IrqMesgs
  BY DEF TypeInv, GraphOK, Tasks, IrqMesgs
<1>a. "game" \in GraphPlaces /\ "destroy" \in GraphPlaces /\ "init" \in GraphPlaces
      /\ "send" \in GraphPlaces /\ "wait" \in GraphPlaces /\ "got" \in GraphPlaces
      /\ "build" \in GraphPlaces /\ "dead" \in GraphPlaces /\ "drain" \in GraphPlaces
      /\ "kick" \in GraphPlaces /\ "answer" \in GraphPlaces
  BY DEF GraphPlaces
<1>1. CASE GameStateInit
  <2>1. GraphOK(graph')
    BY <1>1, <1>0, <1>a DEF GameStateInit, GraphOK
  <2>2. QED BY <1>1, <2>1, <1>0, ReplyType DEF GameStateInit, GraphUnchanged
<1>2. CASE GameStateDestroy
  <2>1. GraphOK(graph')
    BY <1>2, <1>0, <1>a DEF GameStateDestroy, GraphOK
  <2>2. reply' \in [Tasks -> Seq({"done", "timeout"})]
    <3>1. \/ reply' = reply
          \/ reply["gfx"] # <<>> /\ reply' = [reply EXCEPT !["gfx"] = Tail(@)]
      BY <1>2 DEF GameStateDestroy
    <3>2. CASE reply["gfx"] # <<>> /\ reply' = [reply EXCEPT !["gfx"] = Tail(@)]
      <4>1. "gfx" \in Tasks
        BY <1>0
      <4>2. QED BY <3>2, <4>1, <1>0, ReplyType
    <3>3. QED BY <3>1, <3>2, <1>0
  <2>3. QED BY <1>2, <2>1, <2>2, <1>0 DEF GameStateDestroy, GraphUnchanged
<1>3. CASE GraphStartTask
  <2>1. PICK t \in Work \cap {"jpeg", "null"} :
           graph' = [graph EXCEPT !.at = "send", !.task = t] /\ reply' = [reply EXCEPT ![t] = <<>>]
    BY <1>3 DEF GraphStartTask
  <2>2. t \in Tasks \ {"aud"}
    BY DEF Tasks
  <2>3. GraphOK(graph')
    BY <2>1, <2>2, <1>0, <1>a DEF GraphOK
  <2>4. QED BY <1>3, <2>1, <2>2, <2>3, <1>0, ReplyType DEF GraphStartTask, GraphUnchanged
<1>4. CASE GraphStartFrame
  <2>1. GraphOK(graph')
    BY <1>4, <1>0, <1>a DEF GraphStartFrame, GraphOK
  <2>2. QED BY <1>4, <2>1, <1>0 DEF GraphStartFrame, GraphUnchanged
<1>5. CASE GraphReceive
  <2>1. Head(reply["gfx"]) \in {"done", "timeout"}
    BY <1>5, <1>0, ReplyType DEF GraphReceive
  <2>2. GraphOK(graph')
    BY <1>5, <2>1, <1>0, <1>a DEF GraphReceive, GraphOK
  <2>3. QED BY <1>5, <2>2, <1>0, ReplyType DEF GraphReceive, GraphUnchanged
<1>6. CASE GraphGot
  <2>1. CASE graph.mesg = "done"
    <3>1. GraphOK(graph')
      BY <1>6, <2>1, <1>0, <1>a DEF GraphGot, GraphOK
    <3>2. QED BY <1>6, <2>1, <3>1, <1>0 DEF GraphGot, GraphUnchanged
  <2>2. CASE graph.mesg # "done" /\ graph.left >= 0
    <3>1. graph.left - 1 \in -1 .. Retries
      BY <2>2, <1>0, RcpAssumption DEF GraphOK
    <3>2. GraphOK(graph')
      BY <1>6, <2>2, <3>1, <1>0, <1>a DEF GraphGot, GraphOK
    <3>3. QED BY <1>6, <2>2, <3>2, <1>0, PostType DEF GraphGot, GraphUnchanged, PostIrq
  <2>3. CASE graph.mesg # "done" /\ ~ (graph.left >= 0)
    <3>1. GraphOK(graph')
      BY <1>6, <2>3, <1>0, <1>a DEF GraphGot, GraphOK
    <3>2. QED BY <1>6, <2>3, <3>1, <1>0 DEF GraphGot, GraphUnchanged
  <2>4. QED BY <2>1, <2>2, <2>3
<1>7. CASE GraphBuild
  <2> DEFINE c == graph.cfbIndex
  <2>1. PICK swap \in {w = "gfx" : w \in Work \cap {"gfx", "unshown"}}, rate \in setting.rates :
           /\ gfx' = [cfb |-> c, swap |-> swap]
           /\ disp' = [disp EXCEPT !.cfb[c].fb = graph.fbIndex, !.cfb[c].rate = rate]
           /\ graph' = [graph EXCEPT !.at = "drain", !.cfbIndex = (@ + 1) % 3,
                                     !.fbIndex = IF swap THEN 1 - @ ELSE @]
    BY <1>7 DEF GraphBuild
  <2>2. c \in Cfbs /\ graph.fbIndex \in FBs /\ swap \in BOOLEAN /\ rate \in 1 .. MaxRate
    BY <1>0, RcpAssumption DEF GraphOK
  <2>3. GraphOK(graph')
    <3>1. (c + 1) % 3 \in Cfbs /\ 1 - graph.fbIndex \in FBs
      BY <2>2 DEF Cfbs, FBs
    <3>2. QED BY <2>1, <2>2, <3>1, <1>0, <1>a DEF GraphOK
  <2>4. DispOK(disp')
    <3> DEFINE one == [disp.cfb[c] EXCEPT !.fb = graph.fbIndex, !.rate = rate]
               all == [disp.cfb EXCEPT ![c] = one]
    <3>1. one \in [fb : FBs, rate : 1..MaxRate, timer : 0..MaxRate]
      BY <2>2, <1>0 DEF DispOK
    <3>2. all \in [Cfbs -> [fb : FBs, rate : 1..MaxRate, timer : 0..MaxRate]]
      BY <2>2, <3>1, <1>0 DEF DispOK
    <3>3. disp' = [disp EXCEPT !.cfb = all]
      BY <2>1, <2>2, <1>0 DEF DispOK
    <3> HIDE DEF one, all
    <3>4. QED BY <3>2, <3>3, <1>0 DEF DispOK
  <2>5. QED BY <1>7, <2>1, <2>2, <2>3, <2>4, <1>0 DEF GraphBuild
<1>8. CASE GraphDrain
  <2>1. GraphOK(graph')
    BY <1>8, <1>0, <1>a DEF GraphDrain, GraphOK
  <2>2. QED BY <1>8, <2>1, <1>0, ReplyType DEF GraphDrain, GraphUnchanged
<1>9. CASE GraphSend
  <2>1. GraphOK(graph')
    BY <1>9, <1>0, <1>a DEF GraphSend, GraphOK
  <2>2. QED BY <1>9, <2>1, <1>0, AppendProperties DEF GraphSend, GraphUnchanged
<1>10. CASE GraphKick
  <2>1. GraphOK(graph')
    BY <1>10, <1>0, <1>a DEF GraphKick, GraphOK
  <2>2. QED BY <1>10, <2>1, <1>0, PostType DEF GraphKick, GraphUnchanged, PostIrq
<1>11. CASE GraphAnswer
  <2>1. GraphOK(graph')
    BY <1>11, <1>0, <1>a DEF GraphAnswer, GraphOK, GraphPlaces
  <2>2. QED BY <1>11, <2>1, <1>0, ReplyType DEF GraphAnswer, GraphUnchanged
<1>12. QED BY <1>1, <1>2, <1>3, <1>4, <1>5, <1>6, <1>7, <1>8, <1>9, <1>10, <1>11 DEF GraphStep

\* Every step of the audio thread keeps the types, and its setting.
LEMMA AudioType ==
  ASSUME TypeInv, AudioStep
  PROVE  /\ iq' \in Seq(IrqMesgs) /\ cmdq' \in Seq(Tasks)
         /\ reply' \in [Tasks -> Seq({"done", "timeout"})] /\ AudioOK(audio')
         /\ UNCHANGED <<sc, pc, disp, gfx, hw, graph, setting>>
<1>0. /\ iq \in Seq(IrqMesgs) /\ cmdq \in Seq(Tasks)
      /\ reply \in [Tasks -> Seq({"done", "timeout"})] /\ AudioOK(audio)
      /\ "aud" \in Tasks /\ "notify" \in IrqMesgs /\ "audioCancel" \in IrqMesgs
  BY DEF TypeInv, Tasks, IrqMesgs
<1>1. CASE AudioRetrace
  <2>1. PICK at \in {"idle", "send"} : audio' = [audio EXCEPT !.at = at, !.retrace = FALSE]
    BY <1>1 DEF AudioRetrace
  <2>2. AudioOK(audio')
    BY <2>1, <1>0 DEF AudioOK, AudioPlaces
  <2>3. QED BY <1>1, <2>2, <1>0, ReplyType DEF AudioRetrace, AudioUnchanged
<1>2. CASE AudioSend
  <2>1. AudioOK(audio')
    BY <1>2, <1>0 DEF AudioSend, AudioOK, AudioPlaces
  <2>2. QED BY <1>2, <2>1, <1>0, AppendProperties DEF AudioSend, AudioUnchanged
<1>3. CASE AudioKick
  <2>1. AudioOK(audio')
    BY <1>3, <1>0 DEF AudioKick, AudioOK, AudioPlaces
  <2>2. QED BY <1>3, <2>1, <1>0, PostType DEF AudioKick, AudioUnchanged, PostIrq
<1>4. CASE AudioUpdate
  <2>1. AudioOK(audio')
    BY <1>4, <1>0 DEF AudioUpdate, AudioOK, AudioPlaces
  <2>2. QED BY <1>4, <2>1, <1>0 DEF AudioUpdate, AudioUnchanged
<1>5. CASE AudioReceive
  <2>1. Head(reply["aud"]) \in {"done", "timeout"}
    BY <1>5, <1>0, ReplyType DEF AudioReceive
  <2>2. AudioOK(audio')
    BY <1>5, <2>1, <1>0 DEF AudioReceive, AudioOK, AudioPlaces
  <2>3. QED BY <1>5, <2>2, <1>0, ReplyType DEF AudioReceive, AudioUnchanged
<1>6. CASE AudioGot
  <2>1. CASE audio.mesg = "done"
    <3>1. AudioOK(audio')
      BY <1>6, <2>1, <1>0 DEF AudioGot, AudioOK, AudioPlaces
    <3>2. QED BY <1>6, <2>1, <3>1, <1>0 DEF AudioGot, AudioUnchanged
  <2>2. CASE audio.mesg # "done" /\ audio.left >= 0
    <3>1. audio.left - 1 \in -1 .. Retries
      BY <2>2, <1>0, RcpAssumption DEF AudioOK
    <3>2. AudioOK(audio')
      BY <1>6, <2>2, <3>1, <1>0 DEF AudioGot, AudioOK, AudioPlaces
    <3>3. QED BY <1>6, <2>2, <3>2, <1>0, PostType DEF AudioGot, AudioUnchanged, PostIrq
  <2>3. CASE audio.mesg # "done" /\ ~ (audio.left >= 0)
    <3>1. AudioOK(audio')
      BY <1>6, <2>3, <1>0 DEF AudioGot, AudioOK, AudioPlaces
    <3>2. QED BY <1>6, <2>3, <3>1, <1>0 DEF AudioGot, AudioUnchanged
  <2>4. QED BY <2>1, <2>2, <2>3
<1>7. QED BY <1>1, <1>2, <1>3, <1>4, <1>5, <1>6 DEF AudioStep

\* A retrace and the expiry of a timer keep the types.
LEMMA EnvironmentType ==
  ASSUME TypeInv, Environment
  PROVE  /\ iq' \in Seq(IrqMesgs) /\ reply' \in [Tasks -> Seq({"done", "timeout"})]
         /\ DispOK(disp') /\ GraphOK(graph') /\ AudioOK(audio')
         /\ UNCHANGED <<sc, pc, cmdq, gfx, hw, setting>>
<1>0. /\ iq \in Seq(IrqMesgs) /\ reply \in [Tasks -> Seq({"done", "timeout"})]
      /\ DispOK(disp) /\ GraphOK(graph) /\ AudioOK(audio)
      /\ "aud" \in Tasks /\ "gfx" \in Tasks /\ "retrace" \in IrqMesgs
  BY DEF TypeInv, Tasks, IrqMesgs
<1>1. CASE GraphTimeout
  <2>1. GraphOK(graph')
    BY <1>1, <1>0 DEF GraphTimeout, GraphOK
  <2>2. QED BY <1>1, <2>1, <1>0, ReplyType DEF GraphTimeout, Expire
<1>2. CASE AudioTimeout
  <2>1. AudioOK(audio')
    BY <1>2, <1>0 DEF AudioTimeout, AudioOK
  <2>2. QED BY <1>2, <2>1, <1>0, ReplyType DEF AudioTimeout, Expire
<1>3. CASE Retrace
  <2>1. DispOK(disp') /\ AudioOK(audio')
    BY <1>3, <1>0 DEF Retrace, DispOK, AudioOK
  <2>2. QED BY <1>3, <2>1, <1>0, PostType DEF Retrace, PostIrq
<1>4. QED BY <1>1, <1>2, <1>3 DEF Environment

\* Every step keeps the types.
LEMMA TypeStep ==
  ASSUME TypeInv, [Next]_vars
  PROVE  TypeInv'
<1>1. CASE SchedStep /\ UNCHANGED <<graph, audio, setting>>
  <2>1. gfx' = gfx => gfx' \in [cfb : Cfbs, swap : BOOLEAN]
    BY DEF TypeInv
  <2>2. GraphOK(graph') /\ AudioOK(audio') /\ setting' \in Settings
    BY <1>1 DEF TypeInv
  <2>3. QED BY <1>1, <2>1, <2>2, SchedStepType DEF TypeInv
<1>2. CASE Hardware /\ UNCHANGED <<graph, audio, setting>>
  BY <1>2, HardwareType DEF TypeInv
<1>3. CASE GraphStep
  BY <1>3, GraphType DEF TypeInv
<1>4. CASE AudioStep
  BY <1>4, AudioType DEF TypeInv
<1>5. CASE Environment
  BY <1>5, EnvironmentType DEF TypeInv
<1>6. CASE UNCHANGED vars
  BY <1>6 DEF TypeInv, vars
<1>7. QED BY <1>1, <1>2, <1>3, <1>4, <1>5, <1>6 DEF Next

\* Every variable has its type throughout: no handler of the scheduler puts something on
\* a list or a processor that is no task (Sched_Schedule, Sched_HandleRSPDone).
THEOREM TypeCorrect == Spec => []TypeOK
<1>1. Init => TypeInv
  BY TypeInit
<1>2. TypeInv /\ [Next]_vars => TypeInv'
  BY TypeStep
<1>3. TypeInv => TypeOK
  BY TypeInvTypes
<1>4. QED BY <1>1, <1>2, <1>3, PTL DEF Spec

-----------------------------------------------------------------------------
(* Sched_Schedule: the task it chooses, and where it leaves it.            *)

\* What Sched_Schedule and Sched_RunTask do in the state s: nothing, or task t leaves its
\* list, to be loaded or, if it is a null task, to be answered.
Chosen(s, t, u, p, valid) ==
    /\ s.rsp = NoTask /\ u.rsp = NoTask /\ u.rdp = s.rdp
    /\ Listed(s, t)
    /\ \A x : In(x, u.audioList) <=> In(x, s.audioList) /\ x # t
    /\ \A x : In(x, u.gfxList) <=> In(x, s.gfxList) /\ x # t
    /\ Once(u.audioList) /\ Once(u.gfxList)
    /\ \/ t = "aud" /\ u.gfxList = s.gfxList
       \/ t # "aud" /\ u.gfxList = Tail(s.gfxList) /\ t = Head(s.gfxList) /\ s.gfxList # <<>>
          /\ s.audioList = <<>> /\ u.audioList = <<>>
    /\ \A x \in Tasks : x # "null" => u.state[x] = s.state[x]
    /\ \/ /\ t = "null" /\ p = Sending("null", "end") /\ s.rdp = NoTask
          /\ u.state["null"] = s.state["null"] \ {"SP", "DP"}
       \/ /\ t # "null" /\ u.state["null"] = s.state["null"]
          /\ \E dp \in BOOLEAN :
                /\ p = Loading(t, dp)
                /\ dp <=> t = "gfx" /\ "YIELDED" \notin s.state[t]
                /\ dp => s.rdp = NoTask /\ valid

\* What Sched_Schedule leaves, by the task it has chosen.
LEMMA Scheduled ==
  ASSUME NEW s, ScOK(s), Once(s.audioList), Once(s.gfxList),
         "YIELDED" \notin s.state["null"],
         NEW valid \in BOOLEAN, ScheduleAndRun(s, valid)
  PROVE  \/ sc' = s /\ pc' = Main
         \/ \E t \in Tasks : Chosen(s, t, sc', pc', valid)
<1>1. CASE Picks(s, valid) = {}
  BY <1>1 DEF ScheduleAndRun
<1>2. CASE Picks(s, valid) # {}
  <2>1. PICK p \in Picks(s, valid) :
            LET r == IF p.task = "aud" THEN [s EXCEPT !.audioList = Tail(@)]
                                       ELSE [s EXCEPT !.gfxList = Tail(@)]
            IN  IF p.task = "null"
                THEN /\ sc' = [r EXCEPT !.state["null"] = @ \ {"SP", "DP"}]
                     /\ pc' = Sending("null", "end")
                ELSE sc' = r /\ pc' = Loading(p.task, p.dp)
    BY <1>2 DEF ScheduleAndRun
  <2>2. s.rsp = NoTask
    BY <1>2 DEF Picks
  <2>3. CASE s.audioList # <<>>
    <3>1. p = [task |-> "aud", dp |-> FALSE]
      BY <1>2, <2>3 DEF Picks
    <3>2. sc' = [s EXCEPT !.audioList = Tail(@)] /\ pc' = Loading("aud", FALSE)
      BY <2>1, <3>1
    <3>3. /\ \A x : In(x, Tail(s.audioList)) <=> In(x, s.audioList) /\ x # Head(s.audioList)
          /\ Once(Tail(s.audioList)) /\ In("aud", s.audioList) /\ Head(s.audioList) = "aud"
      <4>1. s.audioList \in Seq({"aud"})
        BY DEF ScOK
      <4>2. QED BY <4>1, <2>3, TailIn
    <3>4. \A x : In(x, s.gfxList) => x # "aud"
      BY DEF ScOK, In
    <3>5. /\ sc'.audioList = Tail(s.audioList) /\ sc'.gfxList = s.gfxList /\ sc'.rsp = s.rsp
          /\ sc'.rdp = s.rdp /\ sc'.state = s.state
      BY <3>2 DEF ScOK
    <3>6. Chosen(s, "aud", sc', pc', valid)
      BY <2>2, <3>2, <3>3, <3>4, <3>5 DEF Chosen, Listed
    <3>7. QED BY <3>6 DEF Tasks
  <2>4. CASE s.audioList = <<>>
    <3> DEFINE t == Head(s.gfxList)
    <3>0. s.gfxList # <<>> /\ s.gfxList \in Seq(Tasks \ {"aud"})
      BY <1>2, <2>4 DEF Picks, ScOK
    <3>1. /\ \A x : In(x, Tail(s.gfxList)) <=> In(x, s.gfxList) /\ x # t
          /\ Once(Tail(s.gfxList)) /\ In(t, s.gfxList) /\ t \in Tasks \ {"aud"}
      BY <3>0, TailIn
    <3>2. \A x : ~ In(x, s.audioList)
      BY <2>4 DEF In
    <3> HIDE DEF t
    <3>3. PICK dp \in BOOLEAN :
             /\ p = [task |-> t, dp |-> dp]
             /\ dp <=> t \in NeedsRDP /\ "YIELDED" \notin s.state[t]
             /\ dp => s.rdp = NoTask /\ (t = "gfx" => valid)
      BY <1>2, <2>2, <2>4, <3>0 DEF Picks, t
    <3>4. CASE t = "null"
      <4>1. /\ sc' = [[s EXCEPT !.gfxList = Tail(@)] EXCEPT !.state["null"] = @ \ {"SP", "DP"}]
            /\ pc' = Sending("null", "end")
        BY <2>1, <3>3, <3>4
      <4>2. s.rdp = NoTask
        BY <3>3, <3>4 DEF NeedsRDP
      <4>3. /\ sc'.audioList = s.audioList /\ sc'.gfxList = Tail(s.gfxList) /\ sc'.rsp = s.rsp
            /\ sc'.rdp = s.rdp /\ sc'.state = [s.state EXCEPT !["null"] = @ \ {"SP", "DP"}]
        BY <4>1 DEF ScOK
      <4>4. /\ sc'.state["null"] = s.state["null"] \ {"SP", "DP"}
            /\ \A x \in Tasks : x # "null" => sc'.state[x] = s.state[x]
        BY <4>3 DEF ScOK, Tasks
      <4>5. Chosen(s, t, sc', pc', valid)
        BY <2>2, <2>4, <3>0, <3>1, <3>2, <3>4, <4>1, <4>2, <4>3, <4>4 DEF Chosen, Listed, t
      <4>6. QED BY <4>5, <3>1
    <3>5. CASE t # "null"
      <4>1. sc' = [s EXCEPT !.gfxList = Tail(@)] /\ pc' = Loading(t, dp)
        BY <2>1, <3>3, <3>5, <3>1
      <4>2. dp <=> t = "gfx" /\ "YIELDED" \notin s.state[t]
        BY <3>3, <3>5 DEF NeedsRDP
      <4>3. /\ sc'.audioList = s.audioList /\ sc'.gfxList = Tail(s.gfxList) /\ sc'.rsp = s.rsp
            /\ sc'.rdp = s.rdp /\ sc'.state = s.state
        BY <4>1 DEF ScOK
      <4>4. dp => s.rdp = NoTask /\ valid
        BY <3>3, <4>2
      <4>5. Chosen(s, t, sc', pc', valid)
        BY <2>2, <2>4, <3>0, <3>1, <3>2, <3>5, <4>1, <4>2, <4>3, <4>4 DEF Chosen, Listed, t
      <4>6. QED BY <4>5, <3>1
    <3>6. QED BY <3>4, <3>5
  <2>5. QED BY <2>3, <2>4
<1>3. QED BY <1>1, <1>2

\* The four places of the scheduler thread.
LEMMA Places ==
  ASSUME NEW t, NEW b
  PROVE  /\ Main.at = "main"
         /\ Loading(t, b).at = "load" /\ Loading(t, b).task = t /\ Loading(t, b).dp = b
         /\ Sending(t, b).at = "send" /\ Sending(t, b).task = t /\ Sending(t, b).then = b
         /\ Halting(t).at = "halt"
BY DEF Main, Loading, Sending, Halting

\* Choosing a task for the RSP loses none and holds none twice.
LEMMA ChosenHolds ==
  ASSUME NEW s, NEW t \in Tasks, NEW u, NEW p, NEW valid, Chosen(s, t, u, p, valid)
  PROVE  /\ \A c : \A x \in Tasks : Holds(u, p, c, x) <=> Holds(s, Main, c, x)
         /\ \A x \in Tasks : OnRSP(u, p, x) \/ Sends(p, x) <=> x = t
         /\ \A x : Listed(u, x) <=> Listed(s, x) /\ x # t
         /\ \A x : ~ OnRSP(s, Main, x) \/ x = NoTask
         /\ \A x : ~ Sends(Main, x)
<1>1. \/ p = Sending("null", "end") /\ t = "null"
      \/ t # "null" /\ \E dp \in BOOLEAN : p = Loading(t, dp)
  BY DEF Chosen
<1>2. \/ p.at = "send" /\ p.task = t
      \/ p.at = "load" /\ p.task = t
  BY <1>1, Places
<1>3. \A x : Listed(u, x) <=> Listed(s, x) /\ x # t
  BY DEF Chosen, Listed
<1>4. \A x \in Tasks : OnRSP(u, p, x) \/ Sends(p, x) <=> x = t
  BY <1>2 DEF Chosen, OnRSP, Sends, Tasks, NoTask
<1>5. /\ \A x : ~ OnRSP(s, Main, x) \/ x = NoTask
      /\ \A x : ~ Sends(Main, x)
  BY Places DEF Chosen, OnRSP, Sends
<1>6. ASSUME NEW c, NEW x \in Tasks PROVE Holds(u, p, c, x) <=> Holds(s, Main, c, x)
  <2>1. x # NoTask
    BY DEF Tasks, NoTask
  <2>2. QED BY <2>1, <1>3, <1>4, <1>5 DEF Holds, Chosen
<1>7. QED BY <1>3, <1>4, <1>5, <1>6

\* What TaskFramebuffersValid says of d and x.
FbFree(d, x) == d.pending = NoCfb /\ (d.viCur # d.cfb[x.cfb].fb \/ d.viCur = d.viNext)

\* What is in the lists is a task of their kind.
LEMMA ListKinds ==
  ASSUME NEW s, ScOK(s)
  PROVE  /\ \A x : In(x, s.audioList) => x = "aud"
         /\ \A x : In(x, s.gfxList) => x \in Tasks /\ x # "aud"
BY DEF ScOK, In

\* Sched_Schedule keeps the invariant in the state a handler has reached, if the RSP is
\* free there.
LEMMA ScheduleKeeps ==
  ASSUME NEW s, ScOK(s), NEW c, NEW q, NEW r, NEW h, NEW g, NEW a, NEW d, NEW x,
         DispOK(d), GraphOK(g), x \in [cfb : Cfbs, swap : BOOLEAN],
         AllInv(s, Main, c, q, r, h, g, a, d, x),
         NEW valid \in BOOLEAN, valid => FbFree(d, x), ScheduleAndRun(s, valid)
  PROVE  AllInv(sc', pc', c, q, r, h, g, a, d, x)
<1>1. CASE sc' = s /\ pc' = Main
  BY <1>1
<1>2. ASSUME NEW t \in Tasks, Chosen(s, t, sc', pc', valid)
      PROVE  AllInv(sc', pc', c, q, r, h, g, a, d, x)
  <2> DEFINE u == sc'
             p == pc'
  <2>0. Chosen(s, t, u, p, valid)
    BY <1>2
  <2> HIDE DEF u, p
  <2>1. /\ \A y \in Tasks : Holds(u, p, c, y) <=> Holds(s, Main, c, y)
        /\ \A y \in Tasks : OnRSP(u, p, y) \/ Sends(p, y) <=> y = t
        /\ \A y : Listed(u, y) <=> Listed(s, y) /\ y # t
        /\ \A y : ~ OnRSP(s, Main, y) \/ y = NoTask
        /\ \A y : ~ Sends(Main, y)
    BY <2>0, ChosenHolds
  <2>2. NoTask \notin Tasks /\ Main.at = "main" /\ "null" \in Tasks /\ "gfx" \in Tasks
    BY Places DEF Tasks, NoTask
  <2>3. /\ s.rsp = NoTask /\ u.rsp = NoTask /\ u.rdp = s.rdp /\ Listed(s, t)
        /\ \A y \in Tasks : y # "null" => u.state[y] = s.state[y]
        /\ Once(u.audioList) /\ Once(u.gfxList)
        /\ \A y : In(y, u.gfxList) <=> In(y, s.gfxList) /\ y # t
    BY <2>0 DEF Chosen
  <2>4. \/ /\ t = "null" /\ p.at = "send" /\ p.task = "null" /\ p.then = "end" /\ s.rdp = NoTask
           /\ s.audioList = <<>> /\ u.audioList = <<>>
           /\ u.state["null"] = s.state["null"] \ {"SP", "DP"}
        \/ /\ t # "null" /\ p.at = "load" /\ p.task = t /\ u.state["null"] = s.state["null"]
           /\ p.dp <=> t = "gfx" /\ "YIELDED" \notin s.state[t]
           /\ p.dp => s.rdp = NoTask /\ valid
    BY <2>0, Places DEF Chosen
  <2>p. PlaceInv(u, p, c)
    <3>1. PlaceInv(s, Main, c)
      BY DEF AllInv
    <3>2. \A y \in Tasks : In(y, c) => y # t
      BY <3>1, <2>3 DEF PlaceInv
    <3>3. t = "null" => s.rdp = NoTask
      BY <2>4
    <3>4. \A y \in Tasks : Sends(p, y) => y = t /\ t = "null"
      BY <2>4, <2>1 DEF Sends
    <3>5. QED BY <3>1, <3>2, <3>3, <3>4, <2>1, <2>2, <2>3 DEF PlaceInv, OnRSP
  <2>r. ReplyInv(u, p, c, r, g, a)
    BY <2>1 DEF AllInv, ReplyInv
  <2>s. StateInv(u, p)
    <3>1. StateInv(s, Main) /\ PlaceInv(s, Main, c)
      BY DEF AllInv
    <3>2. \A y \in Tasks : Listed(u, y) \/ OnRSP(u, p, y) => "SP" \in u.state[y]
      BY <3>1, <2>1, <2>2, <2>3, <2>4 DEF StateInv, OnRSP, Sends
    <3>3. \A y \in Tasks : Sends(p, y) => "SP" \notin u.state[y] /\ "DP" \notin u.state[y]
      BY <2>4 DEF Sends
    <3>4. \A y \in Tasks : "YIELDED" \in u.state[y] => In(y, u.gfxList) \/ (p.at = "load" /\ p.task = y)
      BY <3>1, <2>2, <2>3, <2>4 DEF StateInv
    <3>5. /\ "YIELDED" \notin u.state["aud"] /\ "YIELDED" \notin u.state["null"]
          /\ "YIELD" \notin u.state["aud"] /\ "DP" \notin u.state["aud"] /\ "DP" \notin u.state["jpeg"]
          /\ u.rdp \in {NoTask, "gfx"} /\ u.rsp # "null"
          /\ u.state["gfx"] = s.state["gfx"]
      BY <3>1, <2>3, <2>4 DEF StateInv, Tasks, NoTask
    <3>6. "gfx" # NoTask /\ "gfx" \in Tasks
      BY DEF NoTask, Tasks
    <3>7. u.rdp = "gfx" /\ "SP" \in u.state["gfx"] => OnRSP(u, p, "gfx") \/ In("gfx", u.gfxList)
      BY <3>1, <3>5, <3>6, <2>1, <2>3, <2>4 DEF StateInv, OnRSP
    <3>8. p.at = "load" => /\ p.task # "null"
                           /\ p.dp <=> p.task = "gfx" /\ "YIELDED" \notin u.state["gfx"]
                           /\ p.dp => u.rdp = NoTask /\ "DP" \in u.state["gfx"]
      <4>1. t = "gfx" => In("gfx", s.gfxList)
        BY <2>3, ListKinds DEF Listed
      <4>2. QED BY <4>1, <3>1, <3>5, <3>6, <2>3, <2>4 DEF StateInv
    <3>9. QED BY <3>1, <3>2, <3>3, <3>4, <3>5, <3>6, <3>7, <3>8, <2>3 DEF StateInv
  <2>c. CalmInv(p, q)
    BY <2>4, <2>2 DEF AllInv, CalmInv
  <2>h. HardwareInv(u, q, h)
    <3>1. HardwareInv(s, q, h) /\ StateInv(s, Main)
      BY DEF AllInv
    <3>2. \A y \in Tasks : "YIELDED" \in u.state[y] <=> "YIELDED" \in s.state[y]
      BY <3>1, <2>3, <2>4 DEF StateInv
    <3>3. QED BY <3>1, <3>2, <2>2, <2>3 DEF HardwareInv
  <2>f. FlushInv(u, p, c)
    <3>1. FlushInv(s, Main, c)
      BY DEF AllInv
    <3>2. CASE t = "aud" /\ u.gfxList = s.gfxList
      <4>1. ~ Sends(p, "null")
        BY <3>2, <2>4 DEF Sends
      <4>2. QED BY <4>1, <3>1, <3>2 DEF FlushInv
    <3>3. CASE s.gfxList # <<>> /\ u.gfxList = Tail(s.gfxList) /\ t = Head(s.gfxList)
      <4>1. /\ Len(u.gfxList) \in Nat /\ Len(s.gfxList) = Len(u.gfxList) + 1
            /\ \A i \in 1 .. Len(u.gfxList) : u.gfxList[i] = s.gfxList[i + 1]
            /\ t = s.gfxList[1]
        BY <3>3, HeadTailProperties DEF ScOK
      <4>2. \A i \in 1 .. Len(u.gfxList) : u.gfxList[i] = "null" => i = Len(u.gfxList)
        BY <3>1, <4>1 DEF FlushInv
      <4>3. Sends(p, "null") => u.gfxList = <<>>
        <5>1. t = "null" => Len(s.gfxList) = 1
          <6>1. 1 \in 1 .. Len(s.gfxList)
            BY <4>1
          <6>2. QED BY <6>1, <3>1, <4>1 DEF FlushInv
        <5>2. t = "null" => u.gfxList = <<>>
          BY <5>1, <4>1, <3>3, HeadTailProperties, EmptySeq DEF ScOK
        <5>3. QED BY <5>2, <2>4 DEF Sends
      <4>4. QED BY <3>1, <4>2, <4>3, <2>3, <2>4 DEF FlushInv, Sends
    <3>4. QED BY <3>2, <3>3, <2>0 DEF Chosen
  <2>d. FrameInv(u, p, c, d, x, g)
    <3>1. FrameInv(s, Main, c, d, x, g)
      BY DEF AllInv
    <3>2. InFlight(u, p, c, g) <=> InFlight(s, Main, c, g)
      BY <2>1, <2>2 DEF InFlight
    <3>3. CASE Fresh(u, p, c, g) <=> Fresh(s, Main, c, g)
      BY <3>1, <3>2, <3>3 DEF FrameInv, LastFb
    <3>4. CASE ~ (Fresh(u, p, c, g) <=> Fresh(s, Main, c, g))
      <4>1. t = "gfx" /\ "YIELDED" \notin s.state["gfx"]
        BY <3>4, <2>2, <2>3, <2>4 DEF Fresh
      <4>2. valid
        BY <4>1, <2>4
      <4>3. /\ d.pending = NoCfb
            /\ d.viCur # d.cfb[x.cfb].fb \/ d.viCur = d.viNext
        BY <4>2 DEF FbFree
      <4>4. LastFb(u, p, c, x, g) = LastFb(s, Main, c, x, g)
        BY <3>2 DEF LastFb
      <4>5. LastFb(s, Main, c, x, g) \in {0, 1}
        BY DEF LastFb, GraphOK, FBs
      <4>6. d.viNext # 1 - LastFb(s, Main, c, x, g)
        BY <3>1, <4>3, <4>5 DEF FrameInv, Boot
      <4>7. InFlight(s, Main, c, g) => d.cfb[x.cfb].fb = 1 - LastFb(s, Main, c, x, g)
        BY <3>1 DEF FrameInv
      <4>8. QED BY <3>1, <3>2, <4>3, <4>4, <4>6, <4>7 DEF FrameInv
    <3>5. QED BY <3>3, <3>4
  <2>9. QED BY <2>p, <2>r, <2>s, <2>c, <2>h, <2>f, <2>d DEF AllInv, u, p
<1>3. Once(s.audioList) /\ Once(s.gfxList) /\ "YIELDED" \notin s.state["null"]
  BY DEF AllInv, PlaceInv, StateInv
<1>4. QED BY <1>1, <1>2, <1>3, Scheduled

-----------------------------------------------------------------------------
(* Sched_QueueTask and Sched_HandleRetrace.                                *)

\* The tasks of a queue with no task twice, without repetition.
LEMMA ThoseOnce ==
  ASSUME NEW V, NEW q \in Seq(V), Once(q), NEW S
  PROVE  Once(Those(q, S))
<1> DEFINE u == Those(q, S)
<1>1. /\ u \in Seq(V \cap S)
      /\ InOrder(u, q)
  BY ThoseKeeps
<1> HIDE DEF u
<1>2. ASSUME NEW i \in 1 .. Len(u), NEW j \in 1 .. Len(u), i < j PROVE u[i] # u[j]
  <2>1. PICK k \in 1 .. Len(q), l \in 1 .. Len(q) : k < l /\ q[k] = u[i] /\ q[l] = u[j]
    BY <1>1, <1>2 DEF InOrder
  <2>2. k # l /\ Len(q) \in Nat
    BY <2>1
  <2>3. QED BY <2>1, <2>2 DEF Once
<1>3. \A i, j \in 1 .. Len(u) : u[i] = u[j] => i = j
  <2> SUFFICES ASSUME NEW i \in 1 .. Len(u), NEW j \in 1 .. Len(u), i # j PROVE u[i] # u[j]
    OBVIOUS
  <2>1. i < j \/ j < i
    BY <1>1
  <2>2. QED BY <2>1, <1>2
<1>4. QED BY <1>3 DEF Once, u

\* What Those takes of a queue by kind is a list of tasks of that kind.
LEMMA ThoseKinds ==
  ASSUME NEW c \in Seq(Tasks)
  PROVE  LET A == Those(c, {"aud"})
             G == Those(c, Tasks \ {"aud"})
         IN  /\ A \in Seq(Tasks) /\ G \in Seq(Tasks)
             /\ \A t \in Tasks : In(t, A) <=> In(t, c) /\ t = "aud"
             /\ \A t \in Tasks : In(t, G) <=> In(t, c) /\ t # "aud"
<1> DEFINE A == Those(c, {"aud"})
           G == Those(c, Tasks \ {"aud"})
<1>1. /\ A \in Seq(Tasks \cap {"aud"}) /\ G \in Seq(Tasks \cap (Tasks \ {"aud"}))
      /\ \A t : In(t, A) <=> In(t, c) /\ t \in {"aud"}
      /\ \A t : In(t, G) <=> In(t, c) /\ t \in Tasks \ {"aud"}
  BY ThoseKeeps
<1> HIDE DEF A, G
<1>2. A \in Seq(Tasks) /\ G \in Seq(Tasks)
  BY <1>1
<1>3. ASSUME NEW t \in Tasks
      PROVE  (In(t, A) <=> In(t, c) /\ t = "aud") /\ (In(t, G) <=> In(t, c) /\ t # "aud")
  <2>1. (In(t, A) <=> In(t, c) /\ t \in {"aud"}) /\ (In(t, G) <=> In(t, c) /\ t \in Tasks \ {"aud"})
    BY <1>1, Zenon
  <2>2. QED BY <2>1
<1>4. QED BY <1>2, <1>3 DEF A, G

\* The new tasks, and only they, are put on the lists, with their bits set.
LEMMA QueueFacts ==
  ASSUME NEW s, ScOK(s), NEW c \in Seq(Tasks), Once(s.audioList), Once(s.gfxList), Once(c),
         \A t \in Tasks : In(t, c) => ~ Listed(s, t)
  PROVE  LET u == QueueTasks(s, c)
         IN  /\ u.rsp = s.rsp /\ u.rdp = s.rdp
             /\ \A t \in Tasks : Listed(u, t) <=> Listed(s, t) \/ In(t, c)
             /\ \A t \in Tasks : In(t, u.gfxList) <=> In(t, s.gfxList) \/ (In(t, c) /\ t # "aud")
             /\ Once(u.audioList) /\ Once(u.gfxList)
             /\ \A t \in Tasks : ~ In(t, c) => u.state[t] = s.state[t]
             /\ \A t \in Tasks : In(t, c) =>
                   u.state[t] = IF t \in NeedsRDP THEN {"SP", "DP"} ELSE {"SP"}
             /\ u.gfxList = s.gfxList \o Those(c, Tasks \ {"aud"})
<1> DEFINE u == QueueTasks(s, c)
           A == Those(c, {"aud"})
           G == Those(c, Tasks \ {"aud"})
           st == [t \in Tasks |-> IF t \notin Range(c) THEN s.state[t]
                                  ELSE IF t \in NeedsRDP THEN {"SP", "DP"} ELSE {"SP"}]
<1>1. /\ A \in Seq(Tasks) /\ G \in Seq(Tasks)
      /\ \A t \in Tasks : In(t, A) <=> In(t, c) /\ t = "aud"
      /\ \A t \in Tasks : In(t, G) <=> In(t, c) /\ t # "aud"
  BY ThoseKinds
<1>2. Once(A) /\ Once(G)
  BY ThoseOnce
<1>3. s.audioList \in Seq(Tasks) /\ s.gfxList \in Seq(Tasks) /\ s.state \in [Tasks -> SUBSET Bits]
  BY DEF ScOK, Tasks
<1>4. /\ u.rsp = s.rsp /\ u.rdp = s.rdp /\ u.state = st
      /\ u.audioList = s.audioList \o A /\ u.gfxList = s.gfxList \o G
  BY DEF QueueTasks, ScOK
<1>5. \A t : t \in Range(c) <=> In(t, c)
  BY DEF Range, In
<1>6. /\ \A t \in Tasks : ~ In(t, c) => st[t] = s.state[t]
      /\ \A t \in Tasks : In(t, c) => st[t] = IF t \in NeedsRDP THEN {"SP", "DP"} ELSE {"SP"}
  BY <1>5
<1>7. /\ \A t \in Tasks : In(t, s.audioList) => t = "aud"
      /\ \A t \in Tasks : In(t, s.gfxList) => t # "aud"
      /\ \A t : In(t, A) => t \in Tasks
      /\ \A t : In(t, G) => t \in Tasks
  <2>1. \A t \in Tasks : (In(t, s.audioList) => t = "aud") /\ (In(t, s.gfxList) => t # "aud")
    BY ListKinds
  <2> HIDE DEF A, G
  <2>2. \A v \in Seq(Tasks) : \A t : In(t, v) => t \in Tasks
    BY DEF In
  <2>3. QED BY <1>1, <2>1, <2>2
<1> HIDE DEF A, G, st, u
<1>8. /\ \A t : In(t, u.audioList) <=> In(t, s.audioList) \/ In(t, A)
      /\ \A t : In(t, u.gfxList) <=> In(t, s.gfxList) \/ In(t, G)
  BY <1>1, <1>3, <1>4, ConcatIn
<1>9. Once(u.audioList)
  <2>1. \A t : ~ (In(t, s.audioList) /\ In(t, A))
    <3>1. \A t \in Tasks : ~ (In(t, s.audioList) /\ In(t, A))
      BY <1>1, <1>7 DEF Listed
    <3>2. QED BY <3>1, <1>7
  <2>2. QED BY <2>1, <1>1, <1>2, <1>3, <1>4, ConcatIn
<1>10. Once(u.gfxList)
  <2>1. \A t : ~ (In(t, s.gfxList) /\ In(t, G))
    <3>1. \A t \in Tasks : ~ (In(t, s.gfxList) /\ In(t, G))
      BY <1>1, <1>7 DEF Listed
    <3>2. QED BY <3>1, <1>7
  <2>2. QED BY <2>1, <1>1, <1>2, <1>3, <1>4, ConcatIn
<1>11. QED BY <1>1, <1>4, <1>6, <1>8, <1>9, <1>10 DEF u, G, Listed

\* Sched_QueueTask keeps the invariant: the new tasks leave the command queue for the
\* lists.
LEMMA QueueKeeps ==
  ASSUME NEW s, ScOK(s), NEW c \in Seq(Tasks), NEW q, NEW r, NEW h, NEW g, NEW a, NEW d, NEW x,
         AllInv(s, Main, c, q, r, h, g, a, d, x)
  PROVE  AllInv(QueueTasks(s, c), Main, <<>>, q, r, h, g, a, d, x)
<1> DEFINE u == QueueTasks(s, c)
<1>1. PlaceInv(s, Main, c) /\ StateInv(s, Main) /\ FlushInv(s, Main, c)
  BY DEF AllInv
<1>2. /\ u.rsp = s.rsp /\ u.rdp = s.rdp
      /\ \A t \in Tasks : Listed(u, t) <=> Listed(s, t) \/ In(t, c)
      /\ \A t \in Tasks : In(t, u.gfxList) <=> In(t, s.gfxList) \/ (In(t, c) /\ t # "aud")
      /\ Once(u.audioList) /\ Once(u.gfxList)
      /\ \A t \in Tasks : ~ In(t, c) => u.state[t] = s.state[t]
      /\ \A t \in Tasks : In(t, c) => u.state[t] = IF t \in NeedsRDP THEN {"SP", "DP"} ELSE {"SP"}
      /\ u.gfxList = s.gfxList \o Those(c, Tasks \ {"aud"})
  <2>1. Once(s.audioList) /\ Once(s.gfxList) /\ Once(c) /\ \A t \in Tasks : In(t, c) => ~ Listed(s, t)
    BY <1>1 DEF PlaceInv
  <2>2. QED BY <2>1, QueueFacts
<1> HIDE DEF u
<1>3. /\ Main.at = "main" /\ Once(<<>>)
      /\ \A t : ~ In(t, <<>>)
      /\ \A t : ~ Sends(Main, t)
      /\ \A t : OnRSP(u, Main, t) <=> s.rsp = t
      /\ \A t : OnRSP(s, Main, t) <=> s.rsp = t
  <2>1. Main.at = "main" /\ \A t : ~ In(t, <<>>)
    BY Places DEF In
  <2>2. Once(<<>>)
    BY DEF Once
  <2>3. QED BY <2>1, <2>2, <1>2 DEF Sends, OnRSP
<1>4. \A t \in Tasks : Holds(u, Main, <<>>, t) <=> Holds(s, Main, c, t)
  BY <1>2, <1>3 DEF Holds
<1>p. PlaceInv(u, Main, <<>>)
  BY <1>1, <1>2, <1>3 DEF PlaceInv
<1>r. ReplyInv(u, Main, <<>>, r, g, a)
  BY <1>4 DEF AllInv, ReplyInv
<1>s. StateInv(u, Main)
  <2>1. \A t \in Tasks : In(t, c) => ~ Listed(s, t) /\ s.rsp # t /\ s.rdp # t
    BY <1>1, <1>3 DEF PlaceInv
  <2>2. \A t \in Tasks : Listed(u, t) \/ OnRSP(u, Main, t) => "SP" \in u.state[t]
    BY <1>1, <1>2, <1>3 DEF StateInv
  <2>3. \A t \in Tasks : "YIELDED" \in u.state[t] => In(t, u.gfxList)
    <3>1. \A t \in Tasks : In(t, c) => "YIELDED" \notin u.state[t]
      BY <1>2
    <3>2. \A t \in Tasks : "YIELDED" \in s.state[t] => In(t, s.gfxList)
      BY <1>1, <1>3 DEF StateInv
    <3>3. QED BY <3>1, <3>2, <1>2
  <2>4. {"aud", "jpeg", "null", "gfx"} \subseteq Tasks /\ "aud" \notin NeedsRDP /\ "jpeg" \notin NeedsRDP
        /\ "gfx" \in NeedsRDP
    BY DEF Tasks, NeedsRDP
  <2>5. /\ "YIELDED" \notin u.state["aud"] /\ "YIELDED" \notin u.state["null"]
        /\ "YIELD" \notin u.state["aud"] /\ "DP" \notin u.state["aud"] /\ "DP" \notin u.state["jpeg"]
    BY <1>1, <1>2, <2>4 DEF StateInv
  <2>6. /\ u.rdp \in {NoTask, "gfx"} /\ u.rsp # "null"
        /\ u.rdp = "gfx" => "DP" \in u.state["gfx"]
    BY <1>1, <1>2, <2>4, <2>1 DEF StateInv
  <2>7. CASE In("gfx", c)
    <3>1. /\ ~ Listed(s, "gfx") /\ s.rsp # "gfx" /\ s.rdp # "gfx" /\ u.state["gfx"] = {"SP", "DP"}
      BY <2>7, <2>1, <2>4, <1>2
    <3>2. QED BY <3>1, <1>2, <1>3, <2>2, <2>3, <2>5, <2>6 DEF StateInv
  <2>8. CASE ~ In("gfx", c)
    <3>1. u.state["gfx"] = s.state["gfx"] /\ (In("gfx", u.gfxList) <=> In("gfx", s.gfxList))
      BY <2>8, <2>4, <1>2
    <3>2. QED BY <3>1, <1>1, <1>2, <1>3, <2>2, <2>3, <2>5, <2>6 DEF StateInv
  <2>9. QED BY <2>7, <2>8
<1>h. HardwareInv(u, q, h)
  <2>1. HardwareInv(s, q, h)
    BY DEF AllInv
  <2>2. \A t \in Tasks : In(t, c) => ~ Listed(s, t) /\ s.rsp # t /\ s.rdp # t
    BY <1>1, <1>3 DEF PlaceInv
  <2>3. \A t \in Tasks : "YIELDED" \in u.state[t] <=> "YIELDED" \in s.state[t]
    BY <1>1, <1>2, <1>3, <2>2 DEF StateInv, Listed
  <2>4. s.rsp # NoTask => u.state[s.rsp] = s.state[s.rsp]
    BY <2>2, <1>2 DEF ScOK
  <2>5. QED BY <2>1, <2>3, <2>4, <1>2 DEF HardwareInv
<1>f. FlushInv(u, Main, <<>>)
  <2> DEFINE G == Those(c, Tasks \ {"aud"})
  <2>1. /\ G \in Seq(Tasks) /\ \A t \in Tasks : In(t, G) <=> In(t, c) /\ t # "aud"
        /\ InOrder(G, c)
        /\ \A i \in 1 .. Len(G) : G[i] # "aud"
    <3>1. /\ G \in Seq(Tasks) /\ InOrder(G, c)
          /\ \A t \in Tasks : In(t, G) <=> In(t, c) /\ t # "aud"
      BY ThoseKeeps, ThoseKinds
    <3> HIDE DEF G
    <3>2. ASSUME NEW i \in 1 .. Len(G) PROVE G[i] # "aud"
      <4>1. In(G[i], G) /\ G[i] \in Tasks
        BY <3>1 DEF In
      <4>2. QED BY <4>1, <3>1
    <3>3. QED BY <3>1, <3>2
  <2>2. u.gfxList = s.gfxList \o G
    BY <1>2
  <2> HIDE DEF G
  <2>3. s.gfxList \in Seq(Tasks)
    BY DEF ScOK
  <2>4. /\ Len(G) \in Nat /\ Len(s.gfxList) \in Nat /\ Len(u.gfxList) = Len(s.gfxList) + Len(G)
        /\ \A i \in 1 .. Len(u.gfxList) :
             u.gfxList[i] = IF i <= Len(s.gfxList) THEN s.gfxList[i] ELSE G[i - Len(s.gfxList)]
    BY <2>1, <2>2, <2>3, ConcatProperties
  <2>5. ASSUME NEW i \in 1 .. Len(u.gfxList), u.gfxList[i] = "null", i # Len(u.gfxList) PROVE FALSE
    <3>1. CASE i <= Len(s.gfxList)
      <4>1. i \in 1 .. Len(s.gfxList) /\ s.gfxList[i] = "null"
        BY <3>1, <2>4, <2>5
      <4>2. i = Len(s.gfxList) /\ In("null", s.gfxList)
        BY <4>1, <1>1 DEF FlushInv, In
      <4>3. 1 \in 1 .. Len(G)
        BY <4>2, <2>4, <2>5
      <4>4. In(G[1], G) /\ G[1] # "aud" /\ G[1] \in Tasks
        BY <4>3, <2>1 DEF In
      <4>5. In(G[1], c)
        BY <4>4, <2>1
      <4>6. QED BY <4>2, <4>4, <4>5, <1>1 DEF FlushInv, In
    <3>2. CASE i > Len(s.gfxList)
      <4> DEFINE k == i - Len(s.gfxList)
      <4>1. k \in 1 .. Len(G) /\ Len(G) \in 1 .. Len(G) /\ k < Len(G) /\ G[k] = "null"
        BY <3>2, <2>4, <2>5
      <4> HIDE DEF k
      <4>2. PICK m \in 1 .. Len(c), n \in 1 .. Len(c) : m < n /\ c[m] = "null" /\ c[n] = G[Len(G)]
        <5>1. \E m, n \in 1 .. Len(c) : m < n /\ c[m] = G[k] /\ c[n] = G[Len(G)]
          BY <4>1, <2>1 DEF InOrder
        <5>2. QED BY <5>1, <4>1
      <4>3. c[n] # "aud"
        BY <4>1, <4>2, <2>1
      <4>4. QED BY <4>2, <4>3, <1>1 DEF FlushInv
    <3>3. QED BY <3>1, <3>2, <2>4
  <2>6. QED BY <2>5, <1>3 DEF FlushInv
<1>d. FrameInv(u, Main, <<>>, d, x, g)
  <2>0. "gfx" \in Tasks /\ "gfx" \in NeedsRDP
    BY DEF Tasks, NeedsRDP
  <2>1. InFlight(u, Main, <<>>, g) <=> InFlight(s, Main, c, g)
    BY <1>4, <2>0 DEF InFlight
  <2>2. Fresh(u, Main, <<>>, g) <=> Fresh(s, Main, c, g)
    <3>1. In("gfx", c) => u.state["gfx"] = {"SP", "DP"} /\ In("gfx", u.gfxList)
      BY <2>0, <1>2
    <3>2. ~ In("gfx", c) => u.state["gfx"] = s.state["gfx"] /\ (In("gfx", u.gfxList) <=> In("gfx", s.gfxList))
      BY <2>0, <1>2
    <3>3. QED BY <3>1, <3>2, <1>3 DEF Fresh
  <2>3. QED BY <2>1, <2>2 DEF AllInv, FrameInv, LastFb
<1>9. QED BY <1>p, <1>r, <1>s, <1>h, <1>f, <1>d DEF AllInv, u

\* What the framebuffer part of Sched_HandleRetrace may change.
LEMMA RetraceFacts ==
  ASSUME NEW d, DispOK(d)
  PROVE  LET e == RetraceFramebuffers(d)
         IN  /\ \A i \in Cfbs : e.cfb[i].fb = d.cfb[i].fb /\ e.cfb[i].rate = d.cfb[i].rate
             /\ e.viCur = d.viCur
             /\ \/ e.pending = d.pending
                \/ /\ d.pending # NoCfb /\ e.pending = NoCfb
                   /\ d.viCur = d.cfb[d.pending].fb
             /\ \/ e.viNext = d.viNext
                \/ /\ d.pending # NoCfb /\ e.pending = d.pending
                   /\ e.viNext = d.cfb[d.pending].fb
<1> DEFINE shown == d.pending # NoCfb /\ d.viCur = d.cfb[d.pending].fb
           e == IF shown THEN [d EXCEPT !.curBuf = d.pending, !.pending = NoCfb] ELSE d
           f == IF e.curBuf # NoCfb /\ e.cfb[e.curBuf].timer > 0
                THEN [e EXCEPT !.cfb[e.curBuf].timer = @ - 1] ELSE e
           m == IF f.curBuf # NoCfb /\ f.cfb[f.curBuf].timer = 0 /\ f.pending # NoCfb
                THEN SwapFramebuffer(f) ELSE f
<1>1. /\ e.cfb = d.cfb /\ e.viCur = d.viCur /\ e.viNext = d.viNext
      /\ \/ e.pending = d.pending
         \/ d.pending # NoCfb /\ e.pending = NoCfb /\ d.viCur = d.cfb[d.pending].fb
      /\ e.curBuf \in Cfbs \cup {NoCfb} /\ DispOK(e)
  BY DEF DispOK, NoCfb
<1> HIDE DEF e
<1>2. /\ \A i \in Cfbs : f.cfb[i].fb = e.cfb[i].fb /\ f.cfb[i].rate = e.cfb[i].rate
      /\ f.viCur = e.viCur /\ f.viNext = e.viNext /\ f.pending = e.pending
      /\ f.cfb \in [Cfbs -> [fb : FBs, rate : 1..MaxRate, timer : Int]]
      /\ f \in [curBuf : Cfbs \cup {NoCfb}, pending : Cfbs \cup {NoCfb},
                cfb : [Cfbs -> [fb : FBs, rate : 1..MaxRate, timer : Int]],
                viCur : FBs \cup {Boot}, viNext : FBs \cup {Boot}]
  <2>1. CASE e.curBuf # NoCfb /\ e.cfb[e.curBuf].timer > 0
    <3>1. e.curBuf \in Cfbs /\ e.cfb[e.curBuf].timer - 1 \in Int
      BY <2>1, <1>1 DEF DispOK
    <3> DEFINE one == [e.cfb[e.curBuf] EXCEPT !.timer = @ - 1]
               all == [e.cfb EXCEPT ![e.curBuf] = one]
    <3>2. one \in [fb : FBs, rate : 1..MaxRate, timer : Int] /\ one.fb = e.cfb[e.curBuf].fb
          /\ one.rate = e.cfb[e.curBuf].rate
      BY <3>1, <1>1 DEF DispOK
    <3>3. all \in [Cfbs -> [fb : FBs, rate : 1..MaxRate, timer : Int]]
          /\ \A i \in Cfbs : all[i].fb = e.cfb[i].fb /\ all[i].rate = e.cfb[i].rate
      <4> HIDE DEF one
      <4>1. e.cfb \in [Cfbs -> [fb : FBs, rate : 1..MaxRate, timer : Int]]
        BY <1>1 DEF DispOK
      <4>2. QED BY <3>1, <3>2, <4>1
    <3>4. f = [e EXCEPT !.cfb = all]
      BY <2>1, <3>1, <1>1 DEF DispOK
    <3> HIDE DEF one, all, f
    <3>5. QED BY <3>3, <3>4, <1>1 DEF DispOK
  <2>2. CASE ~ (e.curBuf # NoCfb /\ e.cfb[e.curBuf].timer > 0)
    <3>1. f = e
      BY <2>2
    <3> HIDE DEF f
    <3>2. \A i \in Cfbs : e.cfb[i] \in [fb : FBs, rate : 1..MaxRate, timer : Int]
      BY <1>1 DEF DispOK
    <3>3. QED BY <3>1, <3>2, <1>1 DEF DispOK
  <2>3. QED BY <2>1, <2>2
<1> HIDE DEF f
<1>3. /\ \A i \in Cfbs : m.cfb[i].fb = f.cfb[i].fb /\ m.cfb[i].rate = f.cfb[i].rate
      /\ m.viCur = f.viCur /\ m.pending = f.pending
      /\ \/ m.viNext = f.viNext
         \/ f.pending # NoCfb /\ m.viNext = f.cfb[f.pending].fb
  <2>1. CASE f.pending # NoCfb /\ m = SwapFramebuffer(f)
    <3> DEFINE one == [f.cfb[f.pending] EXCEPT !.timer = f.cfb[f.pending].rate]
               all == [f.cfb EXCEPT ![f.pending] = one]
    <3>1. f.pending \in Cfbs
      BY <1>2, <2>1
    <3>2. \A i \in Cfbs : all[i].fb = f.cfb[i].fb /\ all[i].rate = f.cfb[i].rate
      BY <1>2, <3>1
    <3>3. m = [f EXCEPT !.viNext = f.cfb[f.pending].fb, !.cfb = all]
      BY <1>2, <2>1, <3>1 DEF SwapFramebuffer
    <3> HIDE DEF one, all, m
    <3>4. QED BY <3>2, <3>3, <2>1, <1>2
  <2>2. CASE m = f
    <3> HIDE DEF m
    <3>1. QED BY <2>2
  <2>3. QED BY <2>1, <2>2
<1>4. RetraceFramebuffers(d) = m
  BY DEF RetraceFramebuffers, m, f, e
<1> HIDE DEF m
<1>5. f.pending # NoCfb => f.pending = d.pending /\ f.pending \in Cfbs
  BY <1>1, <1>2
<1>6. QED BY <1>1, <1>2, <1>3, <1>4, <1>5

\* The framebuffer part of Sched_HandleRetrace keeps the invariant.
LEMMA RetraceKeeps ==
  ASSUME NEW s, NEW p, NEW c, NEW d, DispOK(d), NEW g, NEW x \in [cfb : Cfbs, swap : BOOLEAN],
         FrameInv(s, p, c, d, x, g)
  PROVE  FrameInv(s, p, c, RetraceFramebuffers(d), x, g)
<1> DEFINE e == RetraceFramebuffers(d)
           last == LastFb(s, p, c, x, g)
<1>1. /\ \A i \in Cfbs : e.cfb[i].fb = d.cfb[i].fb
      /\ e.viCur = d.viCur
      /\ \/ e.pending = d.pending
         \/ /\ d.pending # NoCfb /\ e.pending = NoCfb
            /\ d.viCur = d.cfb[d.pending].fb
      /\ \/ e.viNext = d.viNext
         \/ /\ d.pending # NoCfb /\ e.pending = d.pending
            /\ e.viNext = d.cfb[d.pending].fb
  BY RetraceFacts
<1>2. d.pending \in Cfbs \cup {NoCfb} /\ x.cfb \in Cfbs
  BY DEF DispOK
<1> HIDE DEF e, last
<1>3. LastFb(s, p, c, x, g) = last
  BY DEF last
<1>4. FrameInv(s, p, c, e, x, g)
  BY <1>1, <1>2, <1>3 DEF FrameInv
<1>5. QED BY <1>4 DEF e

\* The RSP is asked to yield.
LEMMA YieldKeeps ==
  ASSUME NEW s, ScOK(s), s.rsp # NoTask, s.rsp # "aud", NEW h, HwOK(h),
         NEW q, NEW r, NEW g, NEW a, NEW d, NEW x,
         AllInv(s, Main, <<>>, q, r, h, g, a, d, x)
  PROVE  AllInv([s EXCEPT !.state[s.rsp] = @ \cup {"YIELD"}], Main, <<>>, q, r,
                [h EXCEPT !.yieldReq = TRUE], g, a, d, x)
<1> DEFINE u == [s EXCEPT !.state[s.rsp] = @ \cup {"YIELD"}]
           k == [h EXCEPT !.yieldReq = TRUE]
<1>1. /\ u.audioList = s.audioList /\ u.gfxList = s.gfxList /\ u.rsp = s.rsp /\ u.rdp = s.rdp
      /\ s.rsp \in Tasks
      /\ \A t \in Tasks : u.state[t] = IF t = s.rsp THEN s.state[t] \cup {"YIELD"} ELSE s.state[t]
  <2>1. u = [s EXCEPT !.state = [s.state EXCEPT ![s.rsp] = @ \cup {"YIELD"}]]
    BY DEF ScOK
  <2>2. s.rsp \in Tasks /\ s.state \in [Tasks -> SUBSET Bits]
    BY DEF ScOK
  <2> HIDE DEF u
  <2>3. u.state = [s.state EXCEPT ![s.rsp] = @ \cup {"YIELD"}]
        /\ u.audioList = s.audioList /\ u.gfxList = s.gfxList /\ u.rsp = s.rsp /\ u.rdp = s.rdp
    BY <2>1 DEF ScOK
  <2>4. QED BY <2>2, <2>3
<1>2. /\ k.task = h.task /\ k.busy = h.busy /\ k.yielded = h.yielded /\ k.working = h.working
      /\ k.drawing = h.drawing /\ k.stale = h.stale /\ k.yieldReq = TRUE
  BY DEF HwOK
<1> HIDE DEF u, k
<1>3. /\ \A t \in Tasks : "SP" \in u.state[t] <=> "SP" \in s.state[t]
      /\ \A t \in Tasks : "DP" \in u.state[t] <=> "DP" \in s.state[t]
      /\ \A t \in Tasks : "YIELDED" \in u.state[t] <=> "YIELDED" \in s.state[t]
      /\ "YIELD" \in u.state[s.rsp]
  <2>1. ASSUME NEW t \in Tasks
        PROVE  /\ "SP" \in u.state[t] <=> "SP" \in s.state[t]
               /\ "DP" \in u.state[t] <=> "DP" \in s.state[t]
               /\ "YIELDED" \in u.state[t] <=> "YIELDED" \in s.state[t]
    <3>1. CASE t = s.rsp
      <4>1. u.state[t] = s.state[t] \cup {"YIELD"}
        BY <3>1, <1>1
      <4>2. QED BY <4>1
    <3>2. CASE t # s.rsp
      <4>1. u.state[t] = s.state[t]
        BY <3>2, <1>1
      <4>2. QED BY <4>1
    <3>3. QED BY <3>1, <3>2
  <2>2. u.state[s.rsp] = s.state[s.rsp] \cup {"YIELD"}
    BY <1>1
  <2>3. "YIELD" \in u.state[s.rsp]
    BY <2>2
  <2>4. QED BY <2>1, <2>3
<1>4. \A t : /\ Listed(u, t) <=> Listed(s, t)
             /\ OnRSP(u, Main, t) <=> OnRSP(s, Main, t)
             /\ Holds(u, Main, <<>>, t) <=> Holds(s, Main, <<>>, t)
  BY <1>1 DEF Listed, OnRSP, Holds
<1>5. "gfx" \in Tasks /\ "aud" \in Tasks /\ "jpeg" \in Tasks /\ "null" \in Tasks
  BY DEF Tasks
<1>p. PlaceInv(u, Main, <<>>)
  BY <1>1, <1>4 DEF AllInv, PlaceInv
<1>r. ReplyInv(u, Main, <<>>, r, g, a)
  BY <1>4 DEF AllInv, ReplyInv
<1>s. StateInv(u, Main)
  BY <1>1, <1>3, <1>4, <1>5 DEF AllInv, StateInv
<1>h. HardwareInv(u, q, k)
  BY <1>1, <1>2, <1>3 DEF AllInv, HardwareInv
<1>f. FlushInv(u, Main, <<>>)
  BY <1>1 DEF AllInv, FlushInv
<1>d. FrameInv(u, Main, <<>>, d, x, g)
  <2>1. InFlight(u, Main, <<>>, g) <=> InFlight(s, Main, <<>>, g)
    BY <1>4 DEF InFlight
  <2>2. Fresh(u, Main, <<>>, g) <=> Fresh(s, Main, <<>>, g)
    BY <1>1, <1>3, <1>5 DEF Fresh
  <2>3. QED BY <2>1, <2>2 DEF AllInv, FrameInv, LastFb
<1>9. QED BY <1>p, <1>r, <1>s, <1>h, <1>f, <1>d DEF AllInv, u, k

\* Sched_HandleNotify, with what the retrace made of the framebuffers.
LEMMA NotifyKeeps ==
  ASSUME ScOK(sc), cmdq \in Seq(Tasks), HwOK(hw), DispOK(disp'), GraphOK(graph),
         gfx \in [cfb : Cfbs, swap : BOOLEAN], gfx' = gfx, NEW q,
         AllInv(sc, Main, cmdq, q, reply, hw, graph, audio, disp', gfx),
         Notify
  PROVE  AllInv(sc', pc', cmdq', q, reply, hw', graph, audio, disp', gfx)
<1> DEFINE s == QueueTasks(sc, cmdq)
           valid == TaskFramebuffersValid'
<1>1. AllInv(s, Main, <<>>, q, reply, hw, graph, audio, disp', gfx)
  BY QueueKeeps
<1>2. ScOK(s)
  BY QueueType
<1>3. cmdq' = <<>>
  BY DEF Notify
<1>4. CASE s.audioList # <<>> /\ s.rsp # NoTask
  <2>1. CASE s.rsp = "aud" \/ "YIELD" \in s.state[s.rsp]
    <3>1. sc' = s /\ pc' = Main /\ hw' = hw
      BY <1>4, <2>1 DEF Notify
    <3> HIDE DEF s
    <3>2. QED BY <3>1, <1>1, <1>3
  <2>2. CASE ~ (s.rsp = "aud" \/ "YIELD" \in s.state[s.rsp])
    <3>1. /\ sc' = [s EXCEPT !.state[s.rsp] = @ \cup {"YIELD"}]
          /\ hw' = [hw EXCEPT !.yieldReq = TRUE] /\ pc' = Main
      BY <1>4, <2>2 DEF Notify
    <3> HIDE DEF s
    <3>2. QED BY <3>1, <1>1, <1>2, <1>3, <1>4, <2>2, YieldKeeps
  <2>3. QED BY <2>1, <2>2
<1>5. CASE ~ (s.audioList # <<>> /\ s.rsp # NoTask)
  <2>1. ScheduleAndRun(s, valid) /\ hw' = hw
    BY <1>5 DEF Notify
  <2>2. valid \in BOOLEAN /\ (valid => FbFree(disp', gfx))
    BY DEF TaskFramebuffersValid, FbFree
  <2> HIDE DEF s, valid
  <2>3. QED BY <2>1, <2>2, <1>1, <1>2, <1>3, ScheduleKeeps
<1>6. QED BY <1>4, <1>5

-----------------------------------------------------------------------------
(* The messages of the scheduler's queue, and the ends of the tasks.       *)

\* What a handler finds when it has taken message m from the queue.
LEMMA Received ==
  ASSUME NEW m, Receive(m), iq \in Seq(IrqMesgs), Once(iq)
  PROVE  /\ pc = Main /\ In(m, iq) /\ Once(iq')
         /\ \A y : In(y, iq') <=> In(y, iq) /\ y # m
BY TailIn DEF Receive

\* The two messages that do not come from a processor.
LEMMA ReceivedKeeps ==
  ASSUME NEW m \in {"notify", "retrace"}, Receive(m), iq \in Seq(IrqMesgs),
         NEW s, NEW c, NEW r, NEW h, NEW g, NEW a, NEW d, NEW x,
         AllInv(s, Main, c, iq, r, h, g, a, d, x)
  PROVE  AllInv(s, Main, c, iq', r, h, g, a, d, x)
<1>1. /\ Once(iq') /\ \A y : In(y, iq') => In(y, iq)
      /\ In("rspDone", iq') <=> In("rspDone", iq)
      /\ In("rdpDone", iq') <=> In("rdpDone", iq)
  <2>1. Once(iq)
    BY DEF AllInv, CalmInv
  <2>2. Once(iq') /\ \A y : In(y, iq') <=> In(y, iq) /\ y # m
    BY <2>1, Received
  <2>3. m # "rspDone" /\ m # "rdpDone"
    OBVIOUS
  <2>4. QED BY <2>2, <2>3
<1>2. CalmInv(Main, iq')
  BY <1>1 DEF AllInv, CalmInv
<1>3. HardwareInv(s, iq', h)
  BY <1>1 DEF AllInv, HardwareInv
<1>4. QED BY <1>2, <1>3 DEF AllInv

-----------------------------------------------------------------------------
\* The fields and the bits of the states that the handlers pass through.
LEMMA DoneFields ==
  ASSUME ScOK(sc)
  PROVE  /\ sc.rsp # NoTask =>
             /\ sc.rsp \in Tasks
             /\ RSPDone.audioList = sc.audioList /\ RSPDone.gfxList = sc.gfxList
             /\ RSPDone.rsp = NoTask /\ RSPDone.rdp = sc.rdp
             /\ \A t \in Tasks :
                  RSPDone.state[t] = IF t = sc.rsp THEN sc.state[t] \ {"SP"} ELSE sc.state[t]
             /\ RSPYielded.audioList = sc.audioList /\ RSPYielded.gfxList = <<sc.rsp>> \o sc.gfxList
             /\ RSPYielded.rsp = NoTask /\ RSPYielded.rdp = sc.rdp
             /\ \A t \in Tasks :
                  RSPYielded.state[t] = IF t = sc.rsp THEN sc.state[t] \cup {"YIELDED"} ELSE sc.state[t]
         /\ sc.rdp # NoTask =>
             /\ sc.rdp \in Tasks
             /\ RDPDone.audioList = sc.audioList /\ RDPDone.gfxList = sc.gfxList
             /\ RDPDone.rsp = sc.rsp /\ RDPDone.rdp = NoTask
             /\ \A t \in Tasks :
                  RDPDone.state[t] = IF t = sc.rdp THEN sc.state[t] \ {"DP"} ELSE sc.state[t]
<1>1. \A B : \A t, y \in Tasks : Bit(t, B)[y] = IF y = t THEN B ELSE sc.state[y]
  BY DEF Bit, ScOK
<1>2. (sc.rsp # NoTask => sc.rsp \in Tasks) /\ (sc.rdp # NoTask => sc.rdp \in Tasks)
  BY DEF ScOK
<1>3. /\ RSPDone.audioList = sc.audioList /\ RSPDone.gfxList = sc.gfxList
      /\ RSPDone.rsp = NoTask /\ RSPDone.rdp = sc.rdp
      /\ RSPDone.state = Bit(sc.rsp, sc.state[sc.rsp] \ {"SP"})
  BY DEF ScOK, RSPDone
<1>4. /\ RSPYielded.audioList = sc.audioList /\ RSPYielded.gfxList = <<sc.rsp>> \o sc.gfxList
      /\ RSPYielded.rsp = NoTask /\ RSPYielded.rdp = sc.rdp
      /\ RSPYielded.state = Bit(sc.rsp, sc.state[sc.rsp] \cup {"YIELDED"})
  BY DEF ScOK, RSPYielded
<1>5. /\ RDPDone.audioList = sc.audioList /\ RDPDone.gfxList = sc.gfxList
      /\ RDPDone.rsp = sc.rsp /\ RDPDone.rdp = NoTask
      /\ RDPDone.state = Bit(sc.rdp, sc.state[sc.rdp] \ {"DP"})
  BY DEF ScOK, RDPDone
<1>6. ASSUME sc.rsp # NoTask, NEW t \in Tasks
      PROVE  /\ RSPDone.state[t] = IF t = sc.rsp THEN sc.state[t] \ {"SP"} ELSE sc.state[t]
             /\ RSPYielded.state[t] = IF t = sc.rsp THEN sc.state[t] \cup {"YIELDED"} ELSE sc.state[t]
  <2>1. sc.rsp \in Tasks
    BY <1>2, <1>6
  <2>2. RSPDone.state[t] = IF t = sc.rsp THEN sc.state[sc.rsp] \ {"SP"} ELSE sc.state[t]
    BY <1>1, <1>3, <2>1
  <2>3. RSPYielded.state[t] = IF t = sc.rsp THEN sc.state[sc.rsp] \cup {"YIELDED"} ELSE sc.state[t]
    BY <1>1, <1>4, <2>1
  <2>4. QED BY <2>2, <2>3
<1>7. ASSUME sc.rdp # NoTask, NEW t \in Tasks
      PROVE  RDPDone.state[t] = IF t = sc.rdp THEN sc.state[t] \ {"DP"} ELSE sc.state[t]
  <2>1. sc.rdp \in Tasks
    BY <1>2, <1>7
  <2>2. RDPDone.state[t] = IF t = sc.rdp THEN sc.state[sc.rdp] \ {"DP"} ELSE sc.state[t]
    BY <1>1, <1>5, <2>1
  <2>3. QED BY <2>2
<1>8. QED BY <1>2, <1>3, <1>4, <1>5, <1>6, <1>7

\* The bits of u are those of s, but for task t's bit b.
BitsBut(u, s, t, b) ==
    \A y \in Tasks, e \in Bits : e # b \/ y # t => (e \in u.state[y] <=> e \in s.state[y])

\* Which bit each of them changes.
LEMMA DoneBits ==
  ASSUME ScOK(sc)
  PROVE  /\ sc.rsp # NoTask =>
             /\ BitsBut(RSPDone, sc, sc.rsp, "SP") /\ "SP" \notin RSPDone.state[sc.rsp]
             /\ BitsBut(RSPYielded, sc, sc.rsp, "YIELDED")
             /\ "YIELDED" \in RSPYielded.state[sc.rsp]
         /\ sc.rdp # NoTask =>
             /\ BitsBut(RDPDone, sc, sc.rdp, "DP") /\ "DP" \notin RDPDone.state[sc.rdp]
<1>1. ASSUME NEW u, NEW t \in Tasks, NEW b,
             \/ \A y \in Tasks : u.state[y] = IF y = t THEN sc.state[y] \ {b} ELSE sc.state[y]
             \/ \A y \in Tasks : u.state[y] = IF y = t THEN sc.state[y] \cup {b} ELSE sc.state[y]
      PROVE  BitsBut(u, sc, t, b)
  <2> SUFFICES ASSUME NEW y \in Tasks, NEW e \in Bits, e # b \/ y # t
               PROVE  e \in u.state[y] <=> e \in sc.state[y]
    BY DEF BitsBut
  <2>1. CASE y = t
    <3>1. u.state[y] = sc.state[y] \ {b} \/ u.state[y] = sc.state[y] \cup {b}
      BY <2>1, <1>1
    <3>2. QED BY <3>1, <2>1
  <2>2. CASE y # t
    <3>1. u.state[y] = sc.state[y]
      BY <2>2, <1>1
    <3>2. QED BY <3>1
  <2>3. QED BY <2>1, <2>2
<1>2. ASSUME sc.rsp # NoTask
      PROVE  /\ BitsBut(RSPDone, sc, sc.rsp, "SP") /\ "SP" \notin RSPDone.state[sc.rsp]
             /\ BitsBut(RSPYielded, sc, sc.rsp, "YIELDED") /\ "YIELDED" \in RSPYielded.state[sc.rsp]
  <2>1. /\ sc.rsp \in Tasks
        /\ \A t \in Tasks :
              RSPDone.state[t] = IF t = sc.rsp THEN sc.state[t] \ {"SP"} ELSE sc.state[t]
        /\ \A t \in Tasks :
              RSPYielded.state[t] = IF t = sc.rsp THEN sc.state[t] \cup {"YIELDED"} ELSE sc.state[t]
    BY <1>2, DoneFields
  <2>2. /\ BitsBut(RSPDone, sc, sc.rsp, "SP") /\ BitsBut(RSPYielded, sc, sc.rsp, "YIELDED")
    BY <2>1, <1>1
  <2>3. RSPDone.state[sc.rsp] = sc.state[sc.rsp] \ {"SP"}
        /\ RSPYielded.state[sc.rsp] = sc.state[sc.rsp] \cup {"YIELDED"}
    BY <2>1
  <2>4. QED BY <2>2, <2>3
<1>3. ASSUME sc.rdp # NoTask
      PROVE  BitsBut(RDPDone, sc, sc.rdp, "DP") /\ "DP" \notin RDPDone.state[sc.rdp]
  <2>1. /\ sc.rdp \in Tasks
        /\ \A t \in Tasks :
              RDPDone.state[t] = IF t = sc.rdp THEN sc.state[t] \ {"DP"} ELSE sc.state[t]
    BY <1>3, DoneFields
  <2>2. BitsBut(RDPDone, sc, sc.rdp, "DP")
    BY <2>1, <1>1
  <2>3. RDPDone.state[sc.rdp] = sc.state[sc.rdp] \ {"DP"}
    BY <2>1
  <2>4. QED BY <2>2, <2>3
<1>4. QED BY <1>2, <1>3

\* The RSP's task has yielded, and is the first of its list again.
LEMMA YieldedKeeps ==
  ASSUME ScOK(sc), HwOK(hw), iq \in Seq(IrqMesgs), Receive("rspDone"), sc.rsp # NoTask,
         "YIELD" \in sc.state[sc.rsp], hw.yielded,
         AllInv(sc, Main, cmdq, iq, reply, hw, graph, audio, disp, gfx)
  PROVE  AllInv(RSPYielded, Main, cmdq, iq', reply, hw, graph, audio, disp, gfx)
<1> DEFINE u == RSPYielded
           t == sc.rsp
<1>0. /\ PlaceInv(sc, Main, cmdq) /\ StateInv(sc, Main) /\ CalmInv(Main, iq)
      /\ HardwareInv(sc, iq, hw) /\ FlushInv(sc, Main, cmdq)
  BY DEF AllInv
<1>1. /\ t \in Tasks /\ u.audioList = sc.audioList /\ u.gfxList = <<t>> \o sc.gfxList
      /\ u.rsp = NoTask /\ u.rdp = sc.rdp
      /\ \A y \in Tasks : u.state[y] = IF y = t THEN sc.state[y] \cup {"YIELDED"} ELSE sc.state[y]
      /\ BitsBut(u, sc, t, "YIELDED") /\ "YIELDED" \in u.state[t]
  BY DoneFields, DoneBits
<1>2. In("rspDone", iq) /\ Once(iq') /\ \A y : In(y, iq') <=> In(y, iq) /\ y # "rspDone"
  BY <1>0, Received DEF CalmInv
<1>3. t # "aud" /\ t # "null" /\ t # NoTask
  BY <1>0 DEF StateInv
<1>4. /\ Main.at = "main" /\ "SP" \in Bits /\ "DP" \in Bits /\ "YIELDED" \in Bits /\ "YIELD" \in Bits
      /\ "gfx" \in Tasks /\ "aud" \in Tasks /\ "jpeg" \in Tasks /\ "null" \in Tasks /\ NoTask \notin Tasks
  BY Places DEF Bits, Tasks, NoTask
<1>l. sc.gfxList \in Seq(Tasks)
  BY DEF ScOK
<1> HIDE DEF u, t
<1>5. /\ \A y : In(y, u.gfxList) <=> y = t \/ In(y, sc.gfxList)
      /\ ~ In(t, sc.gfxList) /\ ~ Listed(sc, t) /\ ~ In(t, cmdq) /\ Once(u.gfxList)
  <2>1. ~ Listed(sc, t) /\ ~ In(t, cmdq)
    BY <1>0, <1>1 DEF PlaceInv, OnRSP, t
  <2>2. ~ In(t, sc.gfxList)
    BY <2>1 DEF Listed
  <2>3. <<t>> \in Seq(Tasks) /\ Once(<<t>>)
    BY <1>1 DEF Once
  <2>4. \A y : In(y, <<t>>) <=> y = t
    BY DEF In
  <2>5. Once(sc.gfxList)
    BY <1>0 DEF PlaceInv
  <2> DEFINE w == <<t>>
  <2>a. u.gfxList = w \o sc.gfxList
    BY <1>1
  <2>b. w \in Seq(Tasks) /\ Once(w) /\ \A y : In(y, w) <=> y = t
    BY <2>3, <2>4
  <2> HIDE DEF w
  <2>6. \A y : In(y, u.gfxList) <=> In(y, w) \/ In(y, sc.gfxList)
    BY <2>a, <1>l, <2>b, ConcatIn
  <2>7. Once(u.gfxList)
    BY <2>a, <1>l, <2>b, <2>2, <2>5, ConcatIn
  <2>8. QED BY <2>1, <2>2, <2>b, <2>6, <2>7
<1>6. /\ \A y \in Tasks : Listed(u, y) <=> y = t \/ Listed(sc, y)
      /\ \A y \in Tasks : OnRSP(sc, Main, y) <=> y = t
      /\ \A y \in Tasks : ~ OnRSP(u, Main, y)
      /\ \A y : ~ Sends(Main, y)
  BY <1>1, <1>4, <1>5 DEF Listed, OnRSP, Sends, t
<1>7. \A y \in Tasks : Holds(u, Main, cmdq, y) <=> Holds(sc, Main, cmdq, y)
  BY <1>1, <1>6 DEF Holds
<1>p. PlaceInv(u, Main, cmdq)
  BY <1>0, <1>1, <1>4, <1>5, <1>6 DEF PlaceInv
<1>r. ReplyInv(u, Main, cmdq, reply, graph, audio)
  BY <1>7 DEF AllInv, ReplyInv
<1>s. StateInv(u, Main)
  <2>1. \A y \in Tasks : /\ "SP" \in u.state[y] <=> "SP" \in sc.state[y]
                         /\ "DP" \in u.state[y] <=> "DP" \in sc.state[y]
                         /\ "YIELD" \in u.state[y] <=> "YIELD" \in sc.state[y]
                         /\ "YIELDED" \in u.state[y] <=> y = t \/ "YIELDED" \in sc.state[y]
    BY <1>1, <1>4 DEF BitsBut
  <2>2. "SP" \in sc.state[t]
    BY <1>0, <1>1, <1>6 DEF StateInv
  <2>3. "gfx" = t /\ "DP" \in sc.state["gfx"] => sc.rdp = "gfx"
    BY <1>0, <1>4 DEF StateInv, t
  <2>4. QED BY <1>0, <1>1, <1>3, <1>4, <1>5, <1>6, <2>1, <2>2, <2>3 DEF StateInv
<1>c. CalmInv(Main, iq')
  BY <1>0, <1>2 DEF CalmInv
<1>h. HardwareInv(u, iq', hw)
  <2>1. /\ sc.rsp # NoTask /\ ~ hw.busy /\ hw.stale = 0
        /\ hw.drawing # "no" => sc.rdp = "gfx" /\ ~ In("rdpDone", iq)
        /\ In("rdpDone", iq) => sc.rdp = "gfx"
        /\ sc.rdp = "gfx" => hw.drawing # "no" \/ In("rdpDone", iq)
        /\ \A y \in Tasks : y \in hw.working <=>
             (sc.rsp = y /\ (hw.busy \/ hw.yielded)) \/ "YIELDED" \in sc.state[y]
    BY <1>0, <1>2, <1>1, <1>4 DEF HardwareInv, t
  <2>2. \A y \in Tasks : y \in hw.working <=> "YIELDED" \in u.state[y]
    BY <2>1, <1>1, <1>4 DEF BitsBut, t
  <2>3. In("rdpDone", iq') <=> In("rdpDone", iq)
    BY <1>2
  <2>4. QED BY <2>1, <2>2, <2>3, <1>1, <1>2, <1>4 DEF HardwareInv
<1>f. FlushInv(u, Main, cmdq)
  <2>1. /\ Len(u.gfxList) = Len(sc.gfxList) + 1 /\ Len(sc.gfxList) \in Nat
        /\ u.gfxList[1] = t /\ \A i \in 1 .. Len(sc.gfxList) : u.gfxList[i + 1] = sc.gfxList[i]
    BY <1>1, <1>l
  <2>2. ASSUME NEW i \in 1 .. Len(u.gfxList), u.gfxList[i] = "null" PROVE i = Len(u.gfxList)
    <3>1. i # 1
      BY <2>1, <2>2, <1>3
    <3>2. i - 1 \in 1 .. Len(sc.gfxList)
      BY <2>1, <3>1
    <3>a. u.gfxList[(i - 1) + 1] = sc.gfxList[i - 1]
      BY <2>1, <3>2
    <3>b. (i - 1) + 1 = i
      OBVIOUS
    <3>3. sc.gfxList[i - 1] = "null"
      BY <2>2, <3>a, <3>b
    <3>4. QED BY <1>0, <2>1, <3>2, <3>3 DEF FlushInv
  <2>3. In("null", u.gfxList) <=> In("null", sc.gfxList)
    BY <1>3, <1>5
  <2>4. QED BY <1>0, <1>6, <2>2, <2>3 DEF FlushInv
<1>d. FrameInv(u, Main, cmdq, disp, gfx, graph)
  <2>1. InFlight(u, Main, cmdq, graph) <=> InFlight(sc, Main, cmdq, graph)
    BY <1>7, <1>4 DEF InFlight
  <2>2. Fresh(u, Main, cmdq, graph) <=> Fresh(sc, Main, cmdq, graph)
    <3>1. CASE t = "gfx"
      BY <3>1, <1>1, <1>5 DEF Fresh
    <3>2. CASE t # "gfx"
      BY <3>2, <1>1, <1>4, <1>5 DEF Fresh, BitsBut
    <3>3. QED BY <3>1, <3>2
  <2>3. QED BY <2>1, <2>2 DEF AllInv, FrameInv, LastFb
<1>9. QED BY <1>p, <1>r, <1>s, <1>c, <1>h, <1>f, <1>d DEF AllInv, u

\* The RSP is done with its task: the RDP may still draw it, or it is answered.
LEMMA RSPDoneKeeps ==
  ASSUME ScOK(sc), HwOK(hw), iq \in Seq(IrqMesgs), Receive("rspDone"), sc.rsp # NoTask,
         ~ ("YIELD" \in sc.state[sc.rsp] /\ hw.yielded),
         AllInv(sc, Main, cmdq, iq, reply, hw, graph, audio, disp, gfx), NEW p,
         IF RSPDone.state[sc.rsp] \cap {"SP", "DP"} = {} THEN p = Sending(sc.rsp, "rsp") ELSE p = Main
  PROVE  AllInv(RSPDone, p, cmdq, iq', reply, hw, graph, audio, disp, gfx)
<1> DEFINE u == RSPDone
           t == sc.rsp
<1>0. /\ PlaceInv(sc, Main, cmdq) /\ StateInv(sc, Main) /\ CalmInv(Main, iq)
      /\ HardwareInv(sc, iq, hw) /\ FlushInv(sc, Main, cmdq)
  BY DEF AllInv
<1>1. /\ t \in Tasks /\ u.audioList = sc.audioList /\ u.gfxList = sc.gfxList
      /\ u.rsp = NoTask /\ u.rdp = sc.rdp
      /\ BitsBut(u, sc, t, "SP") /\ "SP" \notin u.state[t]
  BY DoneFields, DoneBits
<1>2. In("rspDone", iq) /\ Once(iq') /\ \A y : In(y, iq') <=> In(y, iq) /\ y # "rspDone"
  BY <1>0, Received DEF CalmInv
<1>3. t # "null" /\ t # NoTask
  BY <1>0 DEF StateInv
<1>4. /\ Main.at = "main" /\ "SP" \in Bits /\ "DP" \in Bits /\ "YIELDED" \in Bits /\ "YIELD" \in Bits
      /\ "gfx" \in Tasks /\ "aud" \in Tasks /\ "jpeg" \in Tasks /\ "null" \in Tasks /\ NoTask \notin Tasks
      /\ Tasks = {"gfx", "aud", "jpeg", "null"}
  BY Places DEF Bits, Tasks, NoTask
<1>5. \/ "DP" \notin u.state[t] /\ p.at = "send" /\ p.task = t /\ p.then = "rsp"
      \/ "DP" \in u.state[t] /\ p = Main /\ p.at = "main"
  <2>1. CASE u.state[t] \cap {"SP", "DP"} = {}
    <3>1. p = Sending(t, "rsp") /\ "DP" \notin u.state[t]
      BY <2>1
    <3>2. QED BY <3>1, Places
  <2>2. CASE u.state[t] \cap {"SP", "DP"} # {}
    <3>1. p = Main /\ "DP" \in u.state[t]
      BY <2>2, <1>1
    <3>2. QED BY <3>1, Places
  <2>3. QED BY <2>1, <2>2
<1> HIDE DEF u, t
<1>6. \A y \in Tasks : /\ "SP" \in u.state[y] <=> "SP" \in sc.state[y] /\ y # t
                       /\ "DP" \in u.state[y] <=> "DP" \in sc.state[y]
                       /\ "YIELD" \in u.state[y] <=> "YIELD" \in sc.state[y]
                       /\ "YIELDED" \in u.state[y] <=> "YIELDED" \in sc.state[y]
  BY <1>1, <1>4 DEF BitsBut
<1>7. "DP" \in u.state[t] <=> sc.rdp = t
  <2>1. "DP" \in u.state[t] => t = "gfx"
    BY <1>0, <1>1, <1>3, <1>4, <1>6 DEF StateInv
  <2>2. t = "gfx" /\ "DP" \in sc.state["gfx"] => sc.rdp = t
    BY <1>0 DEF StateInv, t
  <2>3. sc.rdp = t => t = "gfx" /\ "DP" \in sc.state["gfx"]
    BY <1>0, <1>3 DEF StateInv
  <2>4. QED BY <2>1, <2>2, <2>3, <1>1, <1>6
<1>8. /\ \A y \in Tasks : Listed(u, y) <=> Listed(sc, y)
      /\ \A y \in Tasks : OnRSP(sc, Main, y) <=> y = t
      /\ \A y \in Tasks : ~ OnRSP(u, p, y)
      /\ \A y \in Tasks : ~ Sends(Main, y)
      /\ \A y \in Tasks : Sends(p, y) <=> y = t /\ sc.rdp # t
  BY <1>1, <1>4, <1>5, <1>7 DEF Listed, OnRSP, Sends, t
<1>9. \A y \in Tasks : Holds(u, p, cmdq, y) <=> Holds(sc, Main, cmdq, y)
  BY <1>1, <1>8 DEF Holds
<1>n. ~ In(t, cmdq) /\ ~ Listed(sc, t)
  BY <1>0, <1>1, <1>8 DEF PlaceInv
<1>p. PlaceInv(u, p, cmdq)
  BY <1>0, <1>1, <1>4, <1>5, <1>8, <1>n DEF PlaceInv
<1>r. ReplyInv(u, p, cmdq, reply, graph, audio)
  BY <1>9 DEF AllInv, ReplyInv
<1>s. StateInv(u, p)
  <2>1. \A y \in Tasks : Listed(u, y) => "SP" \in u.state[y]
    BY <1>0, <1>6, <1>8, <1>n DEF StateInv
  <2>2. \A y \in Tasks : Sends(p, y) => "SP" \notin u.state[y] /\ "DP" \notin u.state[y]
    BY <1>1, <1>7, <1>8
  <2>3. \A y \in Tasks : "YIELDED" \in u.state[y] => In(y, u.gfxList)
    BY <1>0, <1>1, <1>4, <1>6 DEF StateInv
  <2>4. u.rdp = "gfx" /\ "SP" \in u.state["gfx"] => In("gfx", u.gfxList)
    BY <1>0, <1>1, <1>4, <1>6, <1>8 DEF StateInv
  <2>5. p.at # "load"
    BY <1>5
  <2>6. QED BY <1>0, <1>1, <1>4, <1>6, <1>8, <2>1, <2>2, <2>3, <2>4, <2>5 DEF StateInv
<1>c. CalmInv(p, iq')
  BY <1>0, <1>2, <1>3, <1>5 DEF CalmInv
<1>h. HardwareInv(u, iq', hw)
  <2>1. /\ sc.rsp # NoTask /\ ~ hw.busy /\ hw.stale = 0
        /\ hw.drawing # "no" => sc.rdp = "gfx" /\ ~ In("rdpDone", iq)
        /\ In("rdpDone", iq) => sc.rdp = "gfx"
        /\ sc.rdp = "gfx" => hw.drawing # "no" \/ In("rdpDone", iq)
        /\ hw.yielded => hw.yieldReq
        /\ hw.yieldReq <=> "YIELD" \in sc.state[sc.rsp]
        /\ \A y \in Tasks : y \in hw.working <=>
             (sc.rsp = y /\ (hw.busy \/ hw.yielded)) \/ "YIELDED" \in sc.state[y]
    BY <1>0, <1>2, <1>1, <1>4 DEF HardwareInv, t
  <2>2. ~ hw.yielded
    BY <2>1
  <2>3. \A y \in Tasks : y \in hw.working <=> "YIELDED" \in u.state[y]
    BY <2>1, <2>2, <1>6
  <2>4. In("rdpDone", iq') <=> In("rdpDone", iq)
    BY <1>2
  <2>5. QED BY <2>1, <2>3, <2>4, <1>1, <1>2, <1>4 DEF HardwareInv
<1>f. FlushInv(u, p, cmdq)
  <2>1. ~ Sends(p, "null")
    BY <1>3, <1>4, <1>8
  <2>2. QED BY <1>0, <1>1, <2>1 DEF FlushInv
<1>d. FrameInv(u, p, cmdq, disp, gfx, graph)
  <2>1. InFlight(u, p, cmdq, graph) <=> InFlight(sc, Main, cmdq, graph)
    BY <1>9, <1>4 DEF InFlight
  <2>2. Fresh(u, p, cmdq, graph) <=> Fresh(sc, Main, cmdq, graph)
    BY <1>1, <1>4, <1>6 DEF Fresh
  <2>3. QED BY <2>1, <2>2 DEF AllInv, FrameInv, LastFb
<1>10. QED BY <1>p, <1>r, <1>s, <1>c, <1>h, <1>f, <1>d DEF AllInv, u

\* The RDP is done with its task: the RSP is still to finish it, or it is answered.
LEMMA RDPDoneKeeps ==
  ASSUME ScOK(sc), HwOK(hw), iq \in Seq(IrqMesgs), Receive("rdpDone"),
         AllInv(sc, Main, cmdq, iq, reply, hw, graph, audio, disp, gfx), NEW p,
         IF RDPDone.state[sc.rdp] \cap {"SP", "DP"} = {} THEN p = Sending(sc.rdp, "rdp") ELSE p = Main
  PROVE  AllInv(RDPDone, p, cmdq, iq', reply, hw, graph, audio, disp, gfx)
<1> DEFINE u == RDPDone
<1>0. /\ PlaceInv(sc, Main, cmdq) /\ StateInv(sc, Main) /\ CalmInv(Main, iq)
      /\ HardwareInv(sc, iq, hw) /\ FlushInv(sc, Main, cmdq)
  BY DEF AllInv
<1>2. In("rdpDone", iq) /\ Once(iq') /\ \A y : In(y, iq') <=> In(y, iq) /\ y # "rdpDone"
  BY <1>0, Received DEF CalmInv
<1>3. sc.rdp = "gfx" /\ "gfx" # NoTask
  BY <1>0, <1>2 DEF HardwareInv, NoTask
<1>1. /\ u.audioList = sc.audioList /\ u.gfxList = sc.gfxList
      /\ u.rsp = sc.rsp /\ u.rdp = NoTask
      /\ BitsBut(u, sc, "gfx", "DP") /\ "DP" \notin u.state["gfx"]
  BY <1>3, DoneFields, DoneBits
<1>4. /\ Main.at = "main" /\ "SP" \in Bits /\ "DP" \in Bits /\ "YIELDED" \in Bits /\ "YIELD" \in Bits
      /\ "gfx" \in Tasks /\ "aud" \in Tasks /\ "jpeg" \in Tasks /\ "null" \in Tasks /\ NoTask \notin Tasks
  BY Places DEF Bits, Tasks, NoTask
<1>5. \/ "SP" \notin u.state["gfx"] /\ p.at = "send" /\ p.task = "gfx" /\ p.then = "rdp"
      \/ "SP" \in u.state["gfx"] /\ p = Main /\ p.at = "main"
  <2>1. CASE u.state["gfx"] \cap {"SP", "DP"} = {}
    <3>1. p = Sending("gfx", "rdp") /\ "SP" \notin u.state["gfx"]
      BY <2>1, <1>3
    <3>2. QED BY <3>1, Places
  <2>2. CASE u.state["gfx"] \cap {"SP", "DP"} # {}
    <3>1. p = Main /\ "SP" \in u.state["gfx"]
      BY <2>2, <1>1, <1>3
    <3>2. QED BY <3>1, Places
  <2>3. QED BY <2>1, <2>2
<1> HIDE DEF u
<1>6. \A y \in Tasks : /\ "SP" \in u.state[y] <=> "SP" \in sc.state[y]
                       /\ "DP" \in u.state[y] <=> "DP" \in sc.state[y] /\ y # "gfx"
                       /\ "YIELD" \in u.state[y] <=> "YIELD" \in sc.state[y]
                       /\ "YIELDED" \in u.state[y] <=> "YIELDED" \in sc.state[y]
  BY <1>1, <1>4 DEF BitsBut
<1>7. "SP" \in sc.state["gfx"] <=> OnRSP(sc, Main, "gfx") \/ In("gfx", sc.gfxList)
  BY <1>0, <1>3, <1>4 DEF StateInv, Listed
<1>8. /\ \A y \in Tasks : Listed(u, y) <=> Listed(sc, y)
      /\ \A y \in Tasks : OnRSP(u, p, y) <=> OnRSP(sc, Main, y)
      /\ \A y \in Tasks : ~ Sends(Main, y)
      /\ \A y \in Tasks : Sends(p, y) <=> y = "gfx" /\ "SP" \notin sc.state["gfx"]
  BY <1>1, <1>4, <1>5, <1>6 DEF Listed, OnRSP, Sends
<1>n. ~ In("gfx", cmdq) /\ ("SP" \notin sc.state["gfx"] => ~ Listed(sc, "gfx") /\ sc.rsp # "gfx")
  BY <1>0, <1>3, <1>4 DEF PlaceInv, StateInv, OnRSP
<1>9. \A y \in Tasks : Holds(u, p, cmdq, y) <=> Holds(sc, Main, cmdq, y)
  <2>1. Holds(sc, Main, cmdq, "gfx") /\ Holds(u, p, cmdq, "gfx")
    BY <1>3, <1>4, <1>7, <1>8 DEF Holds, Listed
  <2>2. ASSUME NEW y \in Tasks, y # "gfx" PROVE Holds(u, p, cmdq, y) <=> Holds(sc, Main, cmdq, y)
    BY <2>2, <1>1, <1>3, <1>4, <1>8 DEF Holds
  <2>3. QED BY <2>1, <2>2
<1>p. PlaceInv(u, p, cmdq)
  BY <1>0, <1>1, <1>4, <1>5, <1>8, <1>n DEF PlaceInv
<1>r. ReplyInv(u, p, cmdq, reply, graph, audio)
  BY <1>9 DEF AllInv, ReplyInv
<1>s. StateInv(u, p)
  <2>1. In("gfx", sc.gfxList) => "YIELDED" \in sc.state["gfx"]
    BY <1>0, <1>3 DEF StateInv
  <2>2. \A y \in Tasks : Sends(p, y) => "SP" \notin u.state[y] /\ "DP" \notin u.state[y]
    BY <1>6, <1>8
  <2>3. \A y \in Tasks : Listed(u, y) \/ OnRSP(u, p, y) => "SP" \in u.state[y]
    BY <1>0, <1>6, <1>8 DEF StateInv
  <2>4. \A y \in Tasks : "YIELDED" \in u.state[y] => In(y, u.gfxList)
    BY <1>0, <1>1, <1>4, <1>6 DEF StateInv
  <2>5. p.at # "load"
    BY <1>5
  <2>6. QED BY <1>0, <1>1, <1>4, <1>6, <2>1, <2>2, <2>3, <2>4, <2>5 DEF StateInv
<1>c. CalmInv(p, iq')
  BY <1>0, <1>2, <1>5 DEF CalmInv
<1>h. HardwareInv(u, iq', hw)
  <2>1. hw.drawing = "no"
    BY <1>0, <1>2 DEF HardwareInv
  <2>2. u.rsp # NoTask => u.rsp \in Tasks
    BY <1>1 DEF ScOK
  <2>3. In("rspDone", iq') <=> In("rspDone", iq)
    BY <1>2
  <2>4. QED BY <1>0, <1>1, <1>2, <1>3, <1>6, <2>1, <2>2, <2>3 DEF HardwareInv
<1>f. FlushInv(u, p, cmdq)
  <2>1. ~ Sends(p, "null")
    BY <1>4, <1>8
  <2>2. QED BY <1>0, <1>1, <2>1 DEF FlushInv
<1>d. FrameInv(u, p, cmdq, disp, gfx, graph)
  <2>1. InFlight(u, p, cmdq, graph) <=> InFlight(sc, Main, cmdq, graph)
    BY <1>9, <1>4 DEF InFlight
  <2>2. Fresh(u, p, cmdq, graph) <=> Fresh(sc, Main, cmdq, graph)
    BY <1>1, <1>4, <1>6 DEF Fresh
  <2>3. QED BY <2>1, <2>2 DEF AllInv, FrameInv, LastFb
<1>10. QED BY <1>p, <1>r, <1>s, <1>c, <1>h, <1>f, <1>d DEF AllInv, u

-----------------------------------------------------------------------------
(* Sched_TaskComplete, its answer, and Sched_RunTask.                      *)

\* The parts of the invariant in a state and in the next.
Consistent == AllInv(sc, pc, cmdq, iq, reply, hw, graph, audio, disp, gfx)

\* What Sched_TaskComplete makes of the framebuffers when a frame is done.
LEMMA SwapFacts ==
  ASSUME NEW d, DispOK(d), NEW c \in Cfbs
  PROVE  LET e == SetNextFramebuffer(d, c)
         IN  /\ \A i \in Cfbs : e.cfb[i].fb = d.cfb[i].fb /\ e.cfb[i].rate = d.cfb[i].rate
             /\ e.viCur = d.viCur /\ e.pending = c
             /\ e.viNext = d.viNext \/ e.viNext = d.cfb[c].fb
<1> DEFINE n == [d EXCEPT !.pending = c]
           e == SetNextFramebuffer(d, c)
           one == [n.cfb[c] EXCEPT !.timer = n.cfb[c].rate]
           all == [n.cfb EXCEPT ![c] = one]
<1>1. /\ n.cfb = d.cfb /\ n.viCur = d.viCur /\ n.viNext = d.viNext /\ n.pending = c
      /\ DispOK(n)
  BY DEF DispOK
<1>2. e = n \/ e = SwapFramebuffer(n)
  BY DEF SetNextFramebuffer
<1> HIDE DEF n, e
<1>3. one.fb = n.cfb[c].fb /\ one.rate = n.cfb[c].rate
  BY <1>1 DEF DispOK
<1>4. SwapFramebuffer(n) = [n EXCEPT !.viNext = n.cfb[c].fb, !.cfb = all]
  BY <1>1 DEF SwapFramebuffer, DispOK
<1> HIDE DEF one
<1>5. \A i \in Cfbs : all[i].fb = n.cfb[i].fb /\ all[i].rate = n.cfb[i].rate
  BY <1>1, <1>3 DEF DispOK
<1> HIDE DEF all
<1>6. CASE e = n
  BY <1>6, <1>1 DEF e
<1>7. CASE e = SwapFramebuffer(n)
  <2>1. e.cfb = all /\ e.viCur = n.viCur /\ e.pending = c /\ e.viNext = n.cfb[c].fb
    BY <1>7, <1>4, <1>1 DEF DispOK
  <2>2. QED BY <2>1, <1>1, <1>5 DEF e
<1>8. QED BY <1>2, <1>6, <1>7

\* The place of the scheduler thread, by its name.
LEMMA PcFacts ==
  ASSUME NEW p, PcOK(p)
  PROVE  /\ p.at \in {"main", "load", "send", "halt"}
         /\ p.at = "main" => p = Main
         /\ p.at = "send" => p.task \in Tasks
         /\ p.at = "load" => p.task \in Tasks /\ p.dp \in BOOLEAN
<1>1. CASE p = Main
  BY <1>1, Places
<1>2. ASSUME NEW t \in Tasks, p = Halting(t) PROVE p.at = "halt"
  BY <1>2, Places
<1>3. ASSUME NEW t \in Tasks, NEW dp \in BOOLEAN, p = Loading(t, dp)
      PROVE  p.at = "load" /\ p.task \in Tasks /\ p.dp \in BOOLEAN
  BY <1>3, Places
<1>4. ASSUME NEW t \in Tasks, NEW then, p = Sending(t, then)
      PROVE  p.at = "send" /\ p.task \in Tasks
  BY <1>4, Places
<1>5. QED BY <1>1, <1>2, <1>3, <1>4 DEF PcOK

\* osSendMesg(task->msgQ, ...) has answered the task: before the rest of the handler.
LEMMA SentKeeps ==
  ASSUME TypeInv, Consistent, pc.at = "send", NEW d,
         d = IF pc.task = "gfx" /\ gfx.swap THEN SetNextFramebuffer(disp, gfx.cfb) ELSE disp
  PROVE  AllInv(sc, Main, cmdq, iq, [reply EXCEPT ![pc.task] = Append(@, "done")], hw,
                graph, audio, d, gfx)
<1> DEFINE t == pc.task
           r == [reply EXCEPT ![t] = Append(@, "done")]
<1>0. /\ PlaceInv(sc, pc, cmdq) /\ StateInv(sc, pc) /\ CalmInv(pc, iq)
      /\ ReplyInv(sc, pc, cmdq, reply, graph, audio)
      /\ HardwareInv(sc, iq, hw) /\ FlushInv(sc, pc, cmdq)
      /\ ThreadInv(graph, audio) /\ FrameInv(sc, pc, cmdq, disp, gfx, graph)
  BY DEF Consistent, AllInv
<1>1. t \in Tasks /\ reply \in [Tasks -> Seq({"done", "timeout"})]
      /\ GraphOK(graph) /\ DispOK(disp) /\ gfx.cfb \in Cfbs
  <2>1. PcOK(pc)
    BY DEF TypeInv
  <2>2. t \in Tasks
    BY <2>1, PcFacts
  <2>3. QED BY <2>2 DEF TypeInv
<1>2. /\ Main.at = "main" /\ "gfx" \in Tasks /\ NoTask \notin Tasks
  BY Places DEF Tasks, NoTask
<1> HIDE DEF t
<1>3. /\ \A y \in Tasks : Sends(pc, y) <=> y = t
      /\ \A y \in Tasks : ~ Sends(Main, y)
      /\ \A y \in Tasks : OnRSP(sc, Main, y) <=> OnRSP(sc, pc, y)
  BY <1>2 DEF Sends, OnRSP, t
<1>4. ~ In(t, cmdq) /\ ~ Listed(sc, t) /\ ~ OnRSP(sc, pc, t) /\ sc.rdp # t
  <2>1. Sends(pc, t)
    BY <1>1, <1>3
  <2>2. QED BY <1>0, <1>1, <2>1 DEF PlaceInv, OnRSP, Sends
<1>5. \A y \in Tasks : Holds(sc, Main, cmdq, y) <=> Holds(sc, pc, cmdq, y) /\ y # t
  BY <1>3, <1>4 DEF Holds
<1>6. Holds(sc, pc, cmdq, t)
  BY <1>1, <1>3 DEF Holds
<1>p. PlaceInv(sc, Main, cmdq)
  BY <1>0, <1>2, <1>3 DEF PlaceInv
<1>r. ReplyInv(sc, Main, cmdq, r, graph, audio)
  <2>1. AwaitedBy(graph, audio, t) /\ reply[t] = <<>>
    BY <1>0, <1>1, <1>6 DEF ReplyInv
  <2>2. r[t] = <<"done">>
    <3>1. r[t] = Append(reply[t], "done")
      BY <1>1
    <3>2. Append(<<>>, "done") = <<"done">>
      OBVIOUS
    <3>3. QED BY <3>1, <3>2, <2>1
  <2>3. \A y \in Tasks : y # t => r[y] = reply[y]
    BY <1>1
  <2> HIDE DEF r
  <2>4. QED BY <1>0, <1>5, <2>1, <2>2, <2>3 DEF ReplyInv
<1>s. StateInv(sc, Main)
  BY <1>0, <1>2, <1>3, Places DEF StateInv
<1>c. CalmInv(Main, iq)
  BY <1>0, <1>2 DEF CalmInv
<1>f. FlushInv(sc, Main, cmdq)
  BY <1>0, <1>2 DEF FlushInv, Sends
<1>d. FrameInv(sc, Main, cmdq, d, gfx, graph)
  <2>1. CASE t # "gfx"
    <3>1. InFlight(sc, Main, cmdq, graph) <=> InFlight(sc, pc, cmdq, graph)
      BY <1>2, <1>5, <2>1 DEF InFlight
    <3>2. Fresh(sc, Main, cmdq, graph) <=> Fresh(sc, pc, cmdq, graph)
      BY DEF Fresh
    <3>3. d = disp
      BY <2>1 DEF t
    <3>4. QED BY <1>0, <3>1, <3>2, <3>3 DEF FrameInv, LastFb
  <2>2. CASE t = "gfx"
    <3>1. AwaitedBy(graph, audio, "gfx")
      BY <1>0, <1>2, <1>6, <2>2 DEF ReplyInv
    <3>2. graph.at # "drain" /\ ~ (graph.at = "send" /\ graph.task = "gfx")
      BY <3>1 DEF AwaitedBy
    <3>3. InFlight(sc, pc, cmdq, graph) /\ ~ Fresh(sc, pc, cmdq, graph)
          /\ ~ InFlight(sc, Main, cmdq, graph)
      BY <1>2, <1>4, <1>5, <1>6, <2>2, <3>2 DEF InFlight, Fresh, Listed
    <3> DEFINE f == disp.cfb[gfx.cfb].fb
               last == LastFb(sc, pc, cmdq, gfx, graph)
    <3>4. /\ f = 1 - last /\ gfx.cfb = (graph.cfbIndex + 2) % 3
          /\ disp.pending = NoCfb /\ disp.viCur # f /\ disp.viNext # f
          /\ disp.viNext \in {last, Boot}
      BY <1>0, <3>3 DEF FrameInv
    <3>5. last = IF gfx.swap THEN graph.fbIndex ELSE 1 - graph.fbIndex
      BY <3>3 DEF LastFb
    <3>6. LastFb(sc, Main, cmdq, gfx, graph) = 1 - graph.fbIndex
      BY <3>3 DEF LastFb
    <3>7. graph.fbIndex \in {0, 1}
      BY <1>1 DEF GraphOK, FBs
    <3> HIDE DEF f, last
    <3>8. CASE ~ gfx.swap
      <4>1. d = disp
        BY <3>8
      <4>2. QED BY <4>1, <3>3, <3>4, <3>5, <3>6, <3>8 DEF FrameInv
    <3>9. CASE gfx.swap
      <4>1. d = SetNextFramebuffer(disp, gfx.cfb)
        BY <3>9, <2>2 DEF t
      <4>2. /\ \A i \in Cfbs : d.cfb[i].fb = disp.cfb[i].fb
            /\ d.viCur = disp.viCur /\ d.pending = gfx.cfb
        BY <4>1, <1>1, SwapFacts
      <4>3. d.cfb[gfx.cfb].fb = f
        BY <4>2, <1>1 DEF f
      <4>4. f = 1 - graph.fbIndex
        BY <3>4, <3>5, <3>9
      <4>5. gfx.cfb # NoCfb
        BY <1>1 DEF Cfbs, NoCfb
      <4>6. QED BY <3>3, <3>4, <3>6, <4>2, <4>3, <4>4, <4>5 DEF FrameInv
    <3>10. QED BY <3>8, <3>9
  <2>3. QED BY <2>1, <2>2
<1>9. QED BY <1>0, <1>p, <1>r, <1>s, <1>c, <1>f, <1>d DEF AllInv, t

\* The scheduler sends its answer, and goes on with the rest of the handler.
LEMMA SendDoneKeeps ==
  ASSUME TypeInv, Consistent, SendDone, UNCHANGED <<graph, audio>>
  PROVE  Consistent'
<1> DEFINE d == IF pc.task = "gfx" /\ gfx.swap THEN SetNextFramebuffer(disp, gfx.cfb) ELSE disp
<1>1. pc.at = "send" /\ reply' = [reply EXCEPT ![pc.task] = Append(@, "done")]
      /\ UNCHANGED <<cmdq, gfx, hw, graph, audio>>
  BY DEF SendDone
<1>2. AllInv(sc, Main, cmdq, iq, reply', hw, graph, audio, d, gfx)
  BY <1>1, SentKeeps
<1>3. IF pc.task = "null" THEN pc.then = "end" ELSE pc.then \in {"rsp", "rdp"}
  BY <1>1 DEF Consistent, AllInv, CalmInv
<1>4. CASE pc.task = "null"
  <2>1. pc' = Main /\ UNCHANGED <<sc, iq, disp>>
    BY <1>3, <1>4 DEF SendDone
  <2>2. d = disp
    BY <1>4
  <2>3. QED BY <2>1, <2>2, <1>1, <1>2 DEF Consistent
<1>5. CASE pc.task # "null"
  <2>1. disp' = d /\ ScheduleAndRun(sc, TaskFramebuffersValid') /\ iq' = iq
    BY <1>3, <1>5 DEF SendDone
  <2>2. DispOK(disp)
    BY DEF TypeInv
  <2>3. DispOK(disp')
    BY <2>1, <2>2, SwapType DEF TypeInv
  <2> HIDE DEF d
  <2>4. AllInv(sc, Main, cmdq, iq, reply', hw, graph, audio, disp', gfx)
    BY <1>2, <2>1
  <2> DEFINE valid == TaskFramebuffersValid'
  <2>5. valid \in BOOLEAN /\ (valid => FbFree(disp', gfx))
    BY <1>1 DEF TaskFramebuffersValid, FbFree
  <2>6. ScheduleAndRun(sc, valid)
    BY <2>1
  <2> HIDE DEF valid
  <2>7. ScOK(sc) /\ GraphOK(graph) /\ gfx \in [cfb : Cfbs, swap : BOOLEAN]
    BY DEF TypeInv
  <2>8. AllInv(sc', pc', cmdq, iq, reply', hw, graph, audio, disp', gfx)
    BY <2>3, <2>4, <2>5, <2>6, <2>7, ScheduleKeeps
  <2>9. QED BY <2>8, <2>1, <1>1 DEF Consistent
<1>6. QED BY <1>4, <1>5

\* A handler that takes a message for which there is nothing to do keeps the invariant.
LEMMA TakenKeeps ==
  ASSUME TypeInv, Consistent, UNCHANGED <<graph, audio>>, HandleNotify \/ HandleRetrace
  PROVE  Consistent'
<1>1. /\ ScOK(sc) /\ cmdq \in Seq(Tasks) /\ HwOK(hw) /\ DispOK(disp) /\ GraphOK(graph)
      /\ gfx \in [cfb : Cfbs, swap : BOOLEAN] /\ iq \in Seq(IrqMesgs)
  BY DEF TypeInv
<1>2. PICK m \in {"notify", "retrace"} :
         /\ Receive(m) /\ Notify /\ UNCHANGED <<reply, gfx>>
         /\ disp' = IF m = "retrace" THEN RetraceFramebuffers(disp) ELSE disp
  BY DEF HandleNotify, HandleRetrace
<1>3. pc = Main
  BY <1>2 DEF Receive
<1>4. AllInv(sc, Main, cmdq, iq', reply, hw, graph, audio, disp, gfx)
  BY <1>1, <1>2, <1>3, ReceivedKeeps DEF Consistent
<1>5. DispOK(disp') /\ AllInv(sc, Main, cmdq, iq', reply, hw, graph, audio, disp', gfx)
  <2>1. CASE disp' = disp
    BY <2>1, <1>1, <1>4
  <2>2. CASE disp' = RetraceFramebuffers(disp)
    <3>1. DispOK(disp')
      BY <2>2, <1>1, SwapType
    <3>2. FrameInv(sc, Main, cmdq, disp', gfx, graph)
      BY <2>2, <1>1, <1>4, RetraceKeeps DEF AllInv
    <3>3. QED BY <3>1, <3>2, <1>4 DEF AllInv
  <2>3. QED BY <1>2, <2>1, <2>2
<1>6. AllInv(sc', pc', cmdq', iq', reply, hw', graph, audio, disp', gfx)
  BY <1>1, <1>2, <1>5, NotifyKeeps
<1>7. QED BY <1>2, <1>6 DEF Consistent

\* The rest of a handler that has cleared the task of a processor.
LEMMA CompleteKeeps ==
  ASSUME TypeInv, NEW s, ScOK(s), NEW t \in Tasks, NEW then, TaskComplete(s, t, then), NEW q,
         \A p : (IF s.state[t] \cap {"SP", "DP"} = {} THEN p = Sending(t, then) ELSE p = Main) =>
                   AllInv(s, p, cmdq, q, reply, hw, graph, audio, disp, gfx)
  PROVE  AllInv(sc', pc', cmdq, q, reply, hw, graph, audio, disp, gfx)
<1>1. CASE s.state[t] \cap {"SP", "DP"} = {}
  <2>1. sc' = s /\ pc' = Sending(t, then)
    BY <1>1 DEF TaskComplete
  <2>2. QED BY <1>1, <2>1
<1>2. CASE s.state[t] \cap {"SP", "DP"} # {}
  <2>1. ScheduleAndRun(s, TaskFramebuffersValid)
    BY <1>2 DEF TaskComplete
  <2>2. AllInv(s, Main, cmdq, q, reply, hw, graph, audio, disp, gfx)
    BY <1>2
  <2>3. TaskFramebuffersValid \in BOOLEAN /\ (TaskFramebuffersValid => FbFree(disp, gfx))
    BY DEF TaskFramebuffersValid, FbFree
  <2>4. DispOK(disp) /\ GraphOK(graph) /\ gfx \in [cfb : Cfbs, swap : BOOLEAN]
    BY DEF TypeInv
  <2>5. QED BY <2>1, <2>2, <2>3, <2>4, ScheduleKeeps
<1>3. QED BY <1>1, <1>2

\* Sched_HandleRSPDone keeps the invariant.
LEMMA HandleRSPDoneKeeps ==
  ASSUME TypeInv, Consistent, UNCHANGED <<graph, audio>>, HandleRSPDone
  PROVE  Consistent'
<1>1. /\ ScOK(sc) /\ HwOK(hw) /\ DispOK(disp) /\ GraphOK(graph)
      /\ gfx \in [cfb : Cfbs, swap : BOOLEAN] /\ iq \in Seq(IrqMesgs)
      /\ "YIELD" \notin sc.state["aud"]
  BY DEF TypeInv
<1>2. Receive("rspDone") /\ pc = Main /\ UNCHANGED <<cmdq, reply, disp, gfx, hw>>
  BY DEF HandleRSPDone, Receive
<1>3. AllInv(sc, Main, cmdq, iq, reply, hw, graph, audio, disp, gfx)
  BY <1>2 DEF Consistent
<1>4. sc.rsp # NoTask
  <2>1. In("rspDone", iq)
    BY <1>1, <1>2, <1>3, Received DEF AllInv, CalmInv
  <2>2. QED BY <2>1, <1>3 DEF AllInv, HardwareInv
<1>5. AllInv(sc', pc', cmdq, iq', reply, hw, graph, audio, disp, gfx)
  <2>1. CASE "YIELD" \in sc.state[sc.rsp] /\ hw.yielded
    <3>1. AllInv(RSPYielded, Main, cmdq, iq', reply, hw, graph, audio, disp, gfx)
      BY <1>1, <1>2, <1>3, <1>4, <2>1, YieldedKeeps
    <3>2. ScOK(RSPYielded)
      BY <1>1, <1>4, <2>1, DoneType
    <3>3. ScheduleAndRun(RSPYielded, TaskFramebuffersValid)
      BY <1>4, <2>1, RSPDoneSteps
    <3>4. TaskFramebuffersValid \in BOOLEAN /\ (TaskFramebuffersValid => FbFree(disp, gfx))
      BY DEF TaskFramebuffersValid, FbFree
    <3>5. QED BY <1>1, <3>1, <3>2, <3>3, <3>4, ScheduleKeeps
  <2>2. CASE ~ ("YIELD" \in sc.state[sc.rsp] /\ hw.yielded)
    <3>1. \A p : (IF RSPDone.state[sc.rsp] \cap {"SP", "DP"} = {} THEN p = Sending(sc.rsp, "rsp")
                  ELSE p = Main) =>
                    AllInv(RSPDone, p, cmdq, iq', reply, hw, graph, audio, disp, gfx)
      BY <1>1, <1>2, <1>3, <1>4, <2>2, RSPDoneKeeps
    <3>2. ScOK(RSPDone) /\ sc.rsp \in Tasks
      BY <1>1, <1>4, DoneType
    <3>3. TaskComplete(RSPDone, sc.rsp, "rsp")
      BY <1>4, <2>2, RSPDoneSteps
    <3>4. QED BY <3>1, <3>2, <3>3, CompleteKeeps
  <2>3. QED BY <2>1, <2>2
<1>6. QED BY <1>2, <1>5 DEF Consistent

\* Sched_HandleRDPDone keeps the invariant.
LEMMA HandleRDPDoneKeeps ==
  ASSUME TypeInv, Consistent, UNCHANGED <<graph, audio>>, HandleRDPDone
  PROVE  Consistent'
<1>1. /\ ScOK(sc) /\ HwOK(hw) /\ DispOK(disp) /\ GraphOK(graph)
      /\ gfx \in [cfb : Cfbs, swap : BOOLEAN] /\ iq \in Seq(IrqMesgs)
      /\ "YIELD" \notin sc.state["aud"]
  BY DEF TypeInv
<1>2. Receive("rdpDone") /\ pc = Main /\ UNCHANGED <<cmdq, reply, disp, gfx, hw>>
  BY DEF HandleRDPDone, Receive
<1>3. AllInv(sc, Main, cmdq, iq, reply, hw, graph, audio, disp, gfx)
  BY <1>2 DEF Consistent
<1>4. sc.rdp # NoTask
  <2>1. In("rdpDone", iq)
    BY <1>1, <1>2, <1>3, Received DEF AllInv, CalmInv
  <2>2. sc.rdp = "gfx"
    BY <2>1, <1>3 DEF AllInv, HardwareInv
  <2>3. QED BY <2>2 DEF NoTask
<1>5. AllInv(sc', pc', cmdq, iq', reply, hw, graph, audio, disp, gfx)
  <2>1. \A p : (IF RDPDone.state[sc.rdp] \cap {"SP", "DP"} = {} THEN p = Sending(sc.rdp, "rdp")
                ELSE p = Main) =>
                  AllInv(RDPDone, p, cmdq, iq', reply, hw, graph, audio, disp, gfx)
    BY <1>1, <1>2, <1>3, RDPDoneKeeps
  <2>2. ScOK(RDPDone) /\ sc.rdp \in Tasks
    BY <1>1, <1>4, DoneType
  <2>3. TaskComplete(RDPDone, sc.rdp, "rdp")
    <3> DEFINE d == [sc EXCEPT !.rdp = NoTask, !.state[sc.rdp] = @ \ {"DP"}]
    <3>1. TaskComplete(d, sc.rdp, "rdp")
      BY <1>4 DEF HandleRDPDone
    <3>2. d = RDPDone
      BY <1>1 DEF ScOK, RDPDone, Bit
    <3> HIDE DEF d
    <3>3. QED BY <3>1, <3>2
  <2>4. QED BY <2>1, <2>2, <2>3, CompleteKeeps
<1>6. QED BY <1>2, <1>5 DEF Consistent

\* Sched_RunTask: the task of the scheduler is loaded.
LEMMA RunTaskKeeps ==
  ASSUME TypeInv, Consistent, UNCHANGED <<graph, audio>>, RunTask
  PROVE  Consistent'
<1> DEFINE t == pc.task
           fresh == t = "gfx" /\ "YIELDED" \notin sc.state[t]
<1>0. /\ PlaceInv(sc, pc, cmdq) /\ StateInv(sc, pc) /\ CalmInv(pc, iq)
      /\ ReplyInv(sc, pc, cmdq, reply, graph, audio)
      /\ HardwareInv(sc, iq, hw) /\ FlushInv(sc, pc, cmdq)
      /\ ThreadInv(graph, audio) /\ FrameInv(sc, pc, cmdq, disp, gfx, graph)
  BY DEF Consistent, AllInv
<1>1. /\ pc.at = "load" /\ pc' = Main /\ UNCHANGED <<iq, cmdq, reply, disp, gfx, graph, audio>>
      /\ sc' = [sc EXCEPT !.state[t] = @ \ {"YIELD", "YIELDED"}, !.rsp = t,
                          !.rdp = IF pc.dp /\ @ = NoTask THEN t ELSE @]
      /\ hw' = [hw EXCEPT !.task = t, !.busy = TRUE, !.yieldReq = FALSE,
                          !.yielded = FALSE, !.working = @ \cup {t},
                          !.stale = IF fresh /\ hw.drawing = "synced" THEN @ + 1 ELSE @,
                          !.drawing = IF fresh THEN "drawing" ELSE @]
  BY DEF RunTask
<1>2. t \in Tasks /\ ScOK(sc) /\ HwOK(hw)
  BY <1>1, PcFacts DEF TypeInv
<1>3. /\ t # "null" /\ (pc.dp <=> fresh) /\ sc.rsp = NoTask
      /\ pc.dp => sc.rdp = NoTask /\ "DP" \in sc.state["gfx"]
  BY <1>0, <1>1 DEF StateInv, PlaceInv
<1> HIDE DEF t, fresh
<1>4. /\ sc'.audioList = sc.audioList /\ sc'.gfxList = sc.gfxList /\ sc'.rsp = t
      /\ sc'.rdp = IF fresh THEN t ELSE sc.rdp
      /\ \A y \in Tasks : y # t => sc'.state[y] = sc.state[y]
      /\ sc'.state[t] = sc.state[t] \ {"YIELD", "YIELDED"}
  <2> DEFINE st == [sc.state EXCEPT ![t] = @ \ {"YIELD", "YIELDED"}]
  <2>1. sc' = [sc EXCEPT !.state = st, !.rsp = t, !.rdp = IF pc.dp /\ @ = NoTask THEN t ELSE @]
    BY <1>1, <1>2 DEF ScOK
  <2>2. \A y \in Tasks : st[y] = IF y = t THEN sc.state[t] \ {"YIELD", "YIELDED"} ELSE sc.state[y]
    BY <1>2 DEF ScOK
  <2> HIDE DEF st
  <2>3. /\ sc'.audioList = sc.audioList /\ sc'.gfxList = sc.gfxList /\ sc'.rsp = t
        /\ sc'.rdp = (IF pc.dp /\ sc.rdp = NoTask THEN t ELSE sc.rdp) /\ sc'.state = st
    BY <2>1, <1>2 DEF ScOK
  <2>4. QED BY <2>2, <2>3, <1>2, <1>3
<1>5. /\ hw'.task = t /\ hw'.busy = TRUE /\ hw'.yieldReq = FALSE /\ hw'.yielded = FALSE
      /\ hw'.working = hw.working \cup {t}
      /\ hw'.stale = IF fresh /\ hw.drawing = "synced" THEN hw.stale + 1 ELSE hw.stale
      /\ hw'.drawing = IF fresh THEN "drawing" ELSE hw.drawing
  BY <1>1, <1>2 DEF HwOK
<1>6. /\ Main.at = "main" /\ "gfx" \in Tasks /\ "aud" \in Tasks /\ "jpeg" \in Tasks
      /\ "null" \in Tasks /\ NoTask \notin Tasks
  BY Places DEF Tasks, NoTask
<1>7. /\ \A y \in Tasks : Listed(sc', y) <=> Listed(sc, y)
      /\ \A y \in Tasks : OnRSP(sc', Main, y) <=> y = t
      /\ \A y \in Tasks : OnRSP(sc, pc, y) <=> y = t
      /\ \A y \in Tasks : ~ Sends(Main, y) /\ ~ Sends(pc, y)
  BY <1>1, <1>2, <1>3, <1>4, <1>6 DEF Listed, OnRSP, Sends, t
<1>8. \A y \in Tasks : Holds(sc', Main, cmdq, y) <=> Holds(sc, pc, cmdq, y)
  BY <1>3, <1>4, <1>6, <1>7 DEF Holds
<1>9. \A y \in Tasks : /\ "SP" \in sc'.state[y] <=> "SP" \in sc.state[y]
                       /\ "DP" \in sc'.state[y] <=> "DP" \in sc.state[y]
                       /\ "YIELD" \in sc'.state[y] <=> "YIELD" \in sc.state[y] /\ y # t
                       /\ "YIELDED" \in sc'.state[y] <=> "YIELDED" \in sc.state[y] /\ y # t
  <2> SUFFICES ASSUME NEW y \in Tasks
               PROVE  /\ "SP" \in sc'.state[y] <=> "SP" \in sc.state[y]
                      /\ "DP" \in sc'.state[y] <=> "DP" \in sc.state[y]
                      /\ "YIELD" \in sc'.state[y] <=> "YIELD" \in sc.state[y] /\ y # t
                      /\ "YIELDED" \in sc'.state[y] <=> "YIELDED" \in sc.state[y] /\ y # t
    OBVIOUS
  <2>1. CASE y = t
    <3>1. sc'.state[y] = sc.state[y] \ {"YIELD", "YIELDED"}
      BY <2>1, <1>4
    <3>2. QED BY <3>1, <2>1
  <2>2. CASE y # t
    <3>1. sc'.state[y] = sc.state[y]
      BY <2>2, <1>4
    <3>2. QED BY <3>1, <2>2
  <2>3. QED BY <2>1, <2>2
<1>n. /\ ~ In(t, cmdq) /\ ~ Listed(sc, t)
  BY <1>0, <1>2, <1>7 DEF PlaceInv
<1>m. fresh <=> t = "gfx" /\ "YIELDED" \notin sc.state["gfx"]
  BY DEF fresh
<1>p. PlaceInv(sc', Main, cmdq)
  BY <1>0, <1>4, <1>6, <1>7, <1>n DEF PlaceInv
<1>r. ReplyInv(sc', Main, cmdq, reply, graph, audio)
  BY <1>0, <1>8 DEF ReplyInv
<1>s. StateInv(sc', Main)
  <2>1. \A y \in Tasks : Listed(sc', y) \/ OnRSP(sc', Main, y) => "SP" \in sc'.state[y]
    BY <1>0, <1>7, <1>9 DEF StateInv
  <2>2. \A y \in Tasks : "YIELDED" \in sc'.state[y] => In(y, sc'.gfxList)
    <3>1. \A y \in Tasks : "YIELDED" \in sc.state[y] => In(y, sc.gfxList) \/ y = t
      BY <1>0 DEF StateInv, t
    <3>2. QED BY <3>1, <1>4, <1>9
  <2>3. sc'.rdp \in {NoTask, "gfx"} /\ (sc'.rdp = "gfx" => "DP" \in sc'.state["gfx"])
    BY <1>0, <1>3, <1>4, <1>6, <1>9, <1>m DEF StateInv
  <2>4. sc'.rdp = "gfx" /\ "SP" \in sc'.state["gfx"] => OnRSP(sc', Main, "gfx") \/ In("gfx", sc'.gfxList)
    BY <1>0, <1>4, <1>6, <1>7, <1>9, <1>m DEF StateInv
  <2>5. t = "gfx" /\ "DP" \in sc.state["gfx"] => sc'.rdp = "gfx"
    BY <1>0, <1>4, <1>m DEF StateInv
  <2>6. "YIELDED" \in sc'.state["gfx"] /\ "DP" \in sc'.state["gfx"] => sc'.rdp = "gfx"
    BY <1>0, <1>4, <1>6, <1>9, <1>m DEF StateInv
  <2>7. In("gfx", sc'.gfxList) /\ "YIELDED" \notin sc'.state["gfx"] =>
           "DP" \in sc'.state["gfx"] /\ sc'.rdp # "gfx"
    <3>1. In("gfx", sc'.gfxList) => t # "gfx"
      BY <1>4, <1>n DEF Listed
    <3>2. QED BY <3>1, <1>0, <1>4, <1>6, <1>9, <1>m DEF StateInv
  <2>8. QED BY <1>0, <1>3, <1>4, <1>6, <1>7, <1>9, <2>1, <2>2, <2>3, <2>4, <2>5, <2>6, <2>7
           DEF StateInv
<1>c. CalmInv(Main, iq)
  BY <1>0, <1>6 DEF CalmInv
<1>h. HardwareInv(sc', iq, hw')
  <2>1. /\ ~ hw.busy /\ ~ In("rspDone", iq) /\ hw.stale = 0
        /\ hw.drawing # "no" => sc.rdp = "gfx" /\ ~ In("rdpDone", iq)
        /\ In("rdpDone", iq) => sc.rdp = "gfx"
        /\ sc.rdp = "gfx" => hw.drawing # "no" \/ In("rdpDone", iq)
        /\ \A y \in Tasks : y \in hw.working <=> "YIELDED" \in sc.state[y]
    BY <1>0, <1>3, <1>6 DEF HardwareInv
  <2>2. fresh => sc.rdp = NoTask /\ t = "gfx" /\ NoTask # "gfx"
    BY <1>3, <1>m DEF NoTask
  <2>3. \A y \in Tasks : y \in hw'.working <=> y = t \/ "YIELDED" \in sc'.state[y]
    BY <1>5, <1>9, <2>1
  <2>4. hw'.stale = 0 /\ (hw'.drawing # "no" => sc'.rdp = "gfx" /\ ~ In("rdpDone", iq))
        /\ (In("rdpDone", iq) => sc'.rdp = "gfx")
        /\ (sc'.rdp = "gfx" => hw'.drawing # "no" \/ In("rdpDone", iq))
    BY <1>4, <1>5, <2>1, <2>2
  <2>5. "YIELD" \notin sc'.state[sc'.rsp]
    BY <1>2, <1>4, <1>9
  <2>6. QED BY <1>2, <1>4, <1>5, <1>6, <2>1, <2>3, <2>4, <2>5 DEF HardwareInv
<1>f. FlushInv(sc', Main, cmdq)
  BY <1>0, <1>4, <1>6, <1>7 DEF FlushInv
<1>d. FrameInv(sc', Main, cmdq, disp, gfx, graph)
  <2>1. InFlight(sc', Main, cmdq, graph) <=> InFlight(sc, pc, cmdq, graph)
    BY <1>8, <1>6 DEF InFlight
  <2>2. Fresh(sc', Main, cmdq, graph) <=> Fresh(sc, pc, cmdq, graph)
    BY <1>4, <1>6, <1>9, <1>n DEF Fresh, Listed
  <2>3. QED BY <1>0, <2>1, <2>2 DEF FrameInv, LastFb
<1>10. QED BY <1>1, <1>0, <1>p, <1>r, <1>s, <1>c, <1>h, <1>f, <1>d DEF Consistent, AllInv

\* Whatever the scheduler does keeps the invariant: while no timer expires nothing is
\* cancelled.
LEMMA SchedStepKeeps ==
  ASSUME TypeInv, Consistent, SchedStep, UNCHANGED <<graph, audio>>
  PROVE  Consistent'
<1>1. CASE HandleNotify \/ HandleRetrace
  BY <1>1, TakenKeeps
<1>2. CASE HandleRSPDone
  BY <1>2, HandleRSPDoneKeeps
<1>3. CASE HandleRDPDone
  BY <1>3, HandleRDPDoneKeeps
<1>4. CASE HandleAudioCancel \/ HandleGfxCancel
  <2>1. iq # <<>> /\ Head(iq) \in {"audioCancel", "gfxCancel"} /\ iq \in Seq(IrqMesgs)
    BY <1>4 DEF HandleAudioCancel, HandleGfxCancel, TypeInv
  <2>2. In(Head(iq), iq)
    BY <2>1, TailIn
  <2>3. QED BY <2>1, <2>2 DEF Consistent, AllInv, CalmInv
<1>5. CASE FinishHalt
  BY <1>5 DEF FinishHalt, Consistent, AllInv, CalmInv
<1>6. CASE SendDone
  BY <1>6, SendDoneKeeps
<1>7. CASE RunTask
  BY <1>7, RunTaskKeeps
<1>8. QED BY <1>1, <1>2, <1>3, <1>4, <1>5, <1>6, <1>7 DEF SchedStep

-----------------------------------------------------------------------------
(* The hardware, and the retraces and timers.                              *)

\* One element more, at most.
LEMMA OneMore ==
  ASSUME NEW S, IsFiniteSet(S), NEW n \in Nat, Cardinality(S) <= n, NEW e
  PROVE  IsFiniteSet(S \cup {e}) /\ Cardinality(S \cup {e}) <= n + 1
<1>1. Cardinality(S) \in Nat
  BY FS_CardinalityType
<1>2. /\ IsFiniteSet(S \cup {e})
      /\ Cardinality(S \cup {e}) = IF e \in S THEN Cardinality(S) ELSE Cardinality(S) + 1
  BY FS_AddElement
<1>3. QED BY <1>1, <1>2

\* A queue without repetitions has room.
LEMMA HasRoom ==
  ASSUME NEW q \in Seq(IrqMesgs), Once(q), NEW m \in IrqMesgs
  PROVE  Post(q, m) = Append(q, m)
<1>1. Len(q) \in Nat /\ q \in [1 .. Len(q) -> IrqMesgs]
  OBVIOUS
<1>2. IsFiniteSet(IrqMesgs) /\ Cardinality(IrqMesgs) <= 6
  <2>0. IsFiniteSet({}) /\ Cardinality({}) <= 0
    BY FS_EmptySet
  <2>1. IsFiniteSet({} \cup {"notify"}) /\ Cardinality({} \cup {"notify"}) <= 1
    BY <2>0, OneMore, 0 \in Nat, 0 + 1 = 1
  <2> DEFINE A == {} \cup {"notify"}
  <2> HIDE DEF A
  <2>2. IsFiniteSet(A \cup {"retrace"}) /\ Cardinality(A \cup {"retrace"}) <= 2
    BY <2>1, OneMore, 1 \in Nat, 1 + 1 = 2 DEF A
  <2> DEFINE B == A \cup {"retrace"}
  <2> HIDE DEF B
  <2>3. IsFiniteSet(B \cup {"rspDone"}) /\ Cardinality(B \cup {"rspDone"}) <= 3
    BY <2>2, OneMore, 2 \in Nat, 2 + 1 = 3 DEF B
  <2> DEFINE C == B \cup {"rspDone"}
  <2> HIDE DEF C
  <2>4. IsFiniteSet(C \cup {"rdpDone"}) /\ Cardinality(C \cup {"rdpDone"}) <= 4
    BY <2>3, OneMore, 3 \in Nat, 3 + 1 = 4 DEF C
  <2> DEFINE D == C \cup {"rdpDone"}
  <2> HIDE DEF D
  <2>5. IsFiniteSet(D \cup {"audioCancel"}) /\ Cardinality(D \cup {"audioCancel"}) <= 5
    BY <2>4, OneMore, 4 \in Nat, 4 + 1 = 5 DEF D
  <2> DEFINE E == D \cup {"audioCancel"}
  <2> HIDE DEF E
  <2>6. IsFiniteSet(E \cup {"gfxCancel"}) /\ Cardinality(E \cup {"gfxCancel"}) <= 6
    BY <2>5, OneMore, 5 \in Nat, 5 + 1 = 6 DEF E
  <2>7. E \cup {"gfxCancel"} = IrqMesgs
    BY DEF A, B, C, D, E, IrqMesgs
  <2>8. QED BY <2>6, <2>7
<1>3. IsFiniteSet(1 .. Len(q)) /\ Cardinality(1 .. Len(q)) = Len(q)
  <2>1. 1 \in Int /\ Len(q) \in Int
    BY <1>1
  <2>2. /\ IsFiniteSet(1 .. Len(q))
        /\ Cardinality(1 .. Len(q)) = IF 1 > Len(q) THEN 0 ELSE Len(q) - 1 + 1
    BY ONLY <2>1, FS_Interval
  <2>3. QED BY <2>2, <1>1
<1>4. Cardinality(1 .. Len(q)) <= Cardinality(IrqMesgs)
  <2>1. ~ (Cardinality(IrqMesgs) < Cardinality(1 .. Len(q)))
    BY <1>1, <1>2, <1>3, FS_PigeonHole DEF Once
  <2>2. Cardinality(IrqMesgs) \in Nat
    BY <1>2, FS_CardinalityType
  <2>3. QED BY <2>1, <2>2, <1>3, <1>1
<1>5. Len(q) < InterruptQueueSize
  <2>1. Cardinality(IrqMesgs) \in Nat
    BY <1>2, FS_CardinalityType
  <2>2. QED BY <1>1, <1>2, <1>3, <1>4, <2>1 DEF InterruptQueueSize
<1>6. QED BY <1>5 DEF Post

\* Posting a message that is not in the queue.
LEMMA PostKeeps ==
  ASSUME NEW q \in Seq(IrqMesgs), Once(q), NEW m \in IrqMesgs, ~ In(m, q)
  PROVE  Once(Post(q, m)) /\ \A y : In(y, Post(q, m)) <=> In(y, q) \/ y = m
<1>1. Post(q, m) = Append(q, m)
  BY HasRoom
<1>2. QED BY <1>1, AppendIn

\* The RSP, the RDP and the VI: what they do to the queue and to their state.
LEMMA HardwareKeeps ==
  ASSUME TypeInv, Consistent, Hardware, UNCHANGED <<graph, audio>>
  PROVE  Consistent'
<1>0. /\ PlaceInv(sc, pc, cmdq) /\ StateInv(sc, pc) /\ CalmInv(pc, iq)
      /\ HardwareInv(sc, iq, hw) /\ Once(iq)
  BY DEF Consistent, AllInv, CalmInv
<1>1. /\ ScOK(sc) /\ HwOK(hw) /\ iq \in Seq(IrqMesgs)
      /\ UNCHANGED <<sc, pc, cmdq, reply, disp, gfx, graph, audio>>
  BY HardwareType DEF TypeInv
<1>2. /\ "rspDone" \in IrqMesgs /\ "rdpDone" \in IrqMesgs /\ NoTask # "gfx"
  BY DEF IrqMesgs, NoTask
<1>3. CalmInv(pc, iq') /\ HardwareInv(sc, iq', hw')
  <2>1. CASE RSPSync
    <3>1. iq' = iq /\ hw.drawing = "drawing"
      BY <2>1 DEF RSPSync
    <3>2. /\ hw'.task = hw.task /\ hw'.busy = hw.busy /\ hw'.yieldReq = hw.yieldReq
          /\ hw'.yielded = hw.yielded /\ hw'.working = hw.working
          /\ hw'.drawing = "synced" /\ hw'.stale = hw.stale
      BY <2>1, <1>1 DEF RSPSync, HwOK
    <3>3. QED BY <1>0, <3>1, <3>2 DEF HardwareInv
  <2>2. CASE RSPFinish \/ RSPYield
    <3>1. hw.busy /\ iq' = Post(iq, "rspDone")
      BY <2>2 DEF RSPFinish, RSPYield
    <3>2. /\ sc.rsp # NoTask /\ hw.task = sc.rsp /\ ~ In("rspDone", iq) /\ ~ hw.yielded
          /\ sc.rsp \in Tasks
      BY <1>0, <1>1, <3>1 DEF HardwareInv, ScOK
    <3>3. Once(iq') /\ \A y : In(y, iq') <=> In(y, iq) \/ y = "rspDone"
      BY <1>0, <1>1, <1>2, <3>1, <3>2, PostKeeps
    <3>4. "YIELDED" \notin sc.state[sc.rsp]
      <4>1. pc.at # "load" /\ OnRSP(sc, pc, sc.rsp)
        BY <1>0, <3>2 DEF PlaceInv, OnRSP
      <4>2. ~ Listed(sc, sc.rsp)
        BY <1>0, <3>2, <4>1 DEF PlaceInv
      <4>3. ~ In(sc.rsp, sc.gfxList)
        BY <4>2 DEF Listed
      <4>4. QED BY <1>0, <3>2, <4>1, <4>3 DEF StateInv
    <3>5. CalmInv(pc, iq')
      BY <1>0, <3>3 DEF CalmInv
    <3>6. HardwareInv(sc, iq', hw')
      <4>1. /\ hw'.task = hw.task /\ ~ hw'.busy /\ hw'.yieldReq = hw.yieldReq
            /\ hw'.drawing = hw.drawing /\ hw'.stale = hw.stale
            /\ \/ ~ hw'.yielded /\ hw'.working = hw.working \ {sc.rsp}
               \/ hw'.yielded /\ hw.yieldReq /\ hw'.working = hw.working
        BY <2>2, <1>1, <3>2 DEF RSPFinish, RSPYield, HwOK
      <4>2. \A y \in Tasks : y \in hw'.working <=>
                (sc.rsp = y /\ hw'.yielded) \/ "YIELDED" \in sc.state[y]
        <5>1. \A y \in Tasks : y \in hw.working <=> sc.rsp = y \/ "YIELDED" \in sc.state[y]
          BY <1>0, <3>1 DEF HardwareInv
        <5>2. QED BY <5>1, <3>4, <4>1
      <4>3. QED BY <1>0, <3>2, <3>3, <4>1, <4>2 DEF HardwareInv
    <3>7. QED BY <3>5, <3>6
  <2>3. CASE RDPFinish
    <3>1. hw.stale = 0
      BY <1>0 DEF HardwareInv
    <3>2. hw.drawing = "synced" /\ hw' = [hw EXCEPT !.drawing = "no"] /\ iq' = Post(iq, "rdpDone")
      BY <2>3, <3>1 DEF RDPFinish
    <3>3. /\ hw'.task = hw.task /\ hw'.busy = hw.busy /\ hw'.yieldReq = hw.yieldReq
          /\ hw'.yielded = hw.yielded /\ hw'.working = hw.working
          /\ hw'.drawing = "no" /\ hw'.stale = hw.stale
      BY <3>2, <1>1 DEF HwOK
    <3>4. sc.rdp = "gfx" /\ ~ In("rdpDone", iq)
      BY <1>0, <3>2 DEF HardwareInv
    <3>5. Once(iq') /\ \A y : In(y, iq') <=> In(y, iq) \/ y = "rdpDone"
      BY <1>0, <1>1, <1>2, <3>2, <3>4, PostKeeps
    <3>6. CalmInv(pc, iq')
      BY <1>0, <3>5 DEF CalmInv
    <3>7. QED BY <1>0, <3>3, <3>4, <3>5, <3>6 DEF HardwareInv
  <2>4. QED BY <2>1, <2>2, <2>3 DEF Hardware
<1>4. QED BY <1>1, <1>3 DEF Consistent, AllInv

\* The VI turns to the next framebuffer, and the scheduler and the audio thread are told.
LEMMA EnvironmentKeeps ==
  ASSUME TypeInv, Consistent, Timers = {}, Environment
  PROVE  Consistent'
<1>1. Retrace
  BY DEF Environment, GraphTimeout, AudioTimeout
<1>2. /\ disp' = [disp EXCEPT !.viCur = disp.viNext] /\ iq' = Post(iq, "retrace")
      /\ audio' = [audio EXCEPT !.retrace = (audio.at # "dead")]
      /\ UNCHANGED <<sc, pc, cmdq, reply, gfx, hw, graph>>
  BY <1>1 DEF Retrace, PostIrq
<1>3. /\ iq \in Seq(IrqMesgs) /\ DispOK(disp) /\ AudioOK(audio) /\ "retrace" \in IrqMesgs
      /\ gfx.cfb \in Cfbs
  BY DEF TypeInv, IrqMesgs
<1>4. ~ In("retrace", iq)
  BY <1>1, <1>3 DEF Retrace, In, Range
<1>5. Once(iq') /\ \A y : In(y, iq') <=> In(y, iq) \/ y = "retrace"
  <2>1. Once(iq)
    BY DEF Consistent, AllInv, CalmInv
  <2>2. QED BY <1>2, <1>3, <1>4, <2>1, PostKeeps
<1>6. CalmInv(pc, iq') /\ HardwareInv(sc, iq', hw)
  BY <1>5 DEF Consistent, AllInv, CalmInv, HardwareInv
<1>7. /\ disp'.pending = disp.pending /\ disp'.cfb = disp.cfb /\ disp'.viNext = disp.viNext
      /\ disp'.viCur = disp.viNext
  BY <1>2, <1>3 DEF DispOK
<1>8. FrameInv(sc, pc, cmdq, disp', gfx, graph)
  BY <1>7 DEF Consistent, AllInv, FrameInv
<1>9. audio'.at = audio.at /\ audio'.mesg = audio.mesg
  BY <1>2, <1>3 DEF AudioOK
<1>10. ThreadInv(graph, audio') /\ ReplyInv(sc, pc, cmdq, reply, graph, audio')
  <2>1. \A t \in Tasks : AwaitedBy(graph, audio', t) <=> AwaitedBy(graph, audio, t)
    BY <1>9 DEF AwaitedBy
  <2>2. QED BY <2>1, <1>9 DEF Consistent, AllInv, ThreadInv, ReplyInv
<1>11. QED BY <1>2, <1>6, <1>8, <1>10 DEF Consistent, AllInv

-----------------------------------------------------------------------------
(* The graph and the audio thread.                                         *)

\* A step of the graph or the audio thread that sends nothing and builds no frame.
LEMMA ThreadMoves ==
  ASSUME NEW s, NEW p, NEW c, NEW q, NEW r, NEW h, NEW g, NEW a, NEW d, NEW x,
         AllInv(s, p, c, q, r, h, g, a, d, x),
         NEW r2, NEW g2, NEW a2, ThreadInv(g2, a2),
         \A t \in Tasks : Holds(s, p, c, t) => AwaitedBy(g2, a2, t),
         \A t \in Tasks :
            r2[t] = IF AwaitedBy(g2, a2, t) /\ ~ Holds(s, p, c, t) THEN <<"done">> ELSE <<>>,
         g2.cfbIndex = g.cfbIndex /\ g2.fbIndex = g.fbIndex,
         (g2.at = "drain" \/ (g2.at = "send" /\ g2.task = "gfx")) <=>
            (g.at = "drain" \/ (g.at = "send" /\ g.task = "gfx"))
  PROVE  AllInv(s, p, c, q, r2, h, g2, a2, d, x)
<1>1. ReplyInv(s, p, c, r2, g2, a2)
  BY DEF ReplyInv
<1>2. FrameInv(s, p, c, d, x, g2)
  <2>1. InFlight(s, p, c, g2) <=> InFlight(s, p, c, g)
    BY DEF InFlight
  <2>2. Fresh(s, p, c, g2) <=> Fresh(s, p, c, g)
    BY DEF Fresh
  <2>3. QED BY <2>1, <2>2 DEF AllInv, FrameInv, LastFb
<1>3. QED BY <1>1, <1>2 DEF AllInv

\* What the graph and the audio thread find when they run.
LEMMA Idle ==
  ASSUME TypeInv, Consistent, SchedWaits
  PROVE  pc = Main /\ iq = <<>>
<1>1. CASE pc = Main /\ iq = <<>>
  BY <1>1
<1>2. CASE pc.at = "send" /\ Len(reply[pc.task]) = ReplySize(pc.task)
  <2>1. PcOK(pc)
    BY DEF TypeInv
  <2>2. pc.task \in Tasks
    BY <1>2, <2>1, PcFacts
  <2>3. Holds(sc, pc, cmdq, pc.task)
    BY <1>2 DEF Holds, Sends
  <2>4. reply[pc.task] = <<>>
    BY <2>2, <2>3 DEF Consistent, AllInv, ReplyInv
  <2>5. Len(<<>>) = 0
    OBVIOUS
  <2>6. QED BY <1>2, <2>4, <2>5 DEF ReplySize
<1>3. CASE pc.at = "halt"
  BY <1>3 DEF Consistent, AllInv, CalmInv
<1>4. QED BY <1>1, <1>2, <1>3 DEF SchedWaits

\* A task that is answered for is not held.
LEMMA Answered ==
  ASSUME Consistent, TypeInv, NEW t \in Tasks
  PROVE  /\ Holds(sc, pc, cmdq, t) => AwaitedBy(graph, audio, t) /\ reply[t] = <<>>
         /\ ~ AwaitedBy(graph, audio, t) => reply[t] = <<>>
         /\ AwaitedBy(graph, audio, t) /\ ~ Holds(sc, pc, cmdq, t) => reply[t] = <<"done">>
         /\ reply[t] # <<>> => reply[t] = <<"done">> /\ ~ Holds(sc, pc, cmdq, t)
BY DEF Consistent, AllInv, ReplyInv

\* How a thread's step changes what it waits for and its reply queues, none of whose
\* messages it takes before it is due.
AnswersOne(g2, a2, r2, t) ==
    /\ \A y \in Tasks : y # t => (AwaitedBy(g2, a2, y) <=> AwaitedBy(graph, audio, y))
    /\ \/ /\ ~ AwaitedBy(graph, audio, t) /\ AwaitedBy(g2, a2, t)
          /\ r2 = [reply EXCEPT ![t] = Append(@, "done")]
       \/ /\ reply[t] # <<>> /\ ~ AwaitedBy(g2, a2, t)
          /\ r2 = [reply EXCEPT ![t] = Tail(@)]
       \/ /\ ~ AwaitedBy(graph, audio, t) /\ ~ AwaitedBy(g2, a2, t)
          /\ r2 = [reply EXCEPT ![t] = <<>>]
SameAnswers(g2, a2, r2) ==
    r2 = reply /\ \A t \in Tasks : AwaitedBy(g2, a2, t) <=> AwaitedBy(graph, audio, t)
\* A thread's step that sends nothing and builds no frame.
Quiet(g2, a2, r2) ==
    /\ SameAnswers(g2, a2, r2) \/ \E t \in Tasks : AnswersOne(g2, a2, r2, t)
    /\ ThreadInv(g2, a2)
    /\ g2.cfbIndex = graph.cfbIndex /\ g2.fbIndex = graph.fbIndex
    /\ (g2.at = "drain" \/ (g2.at = "send" /\ g2.task = "gfx")) <=>
          (graph.at = "drain" \/ (graph.at = "send" /\ graph.task = "gfx"))

\* Such a step keeps the invariant.
LEMMA QuietKeeps ==
  ASSUME TypeInv, Consistent, NEW g2, NEW a2, NEW r2, Quiet(g2, a2, r2), NEW q,
         AllInv(sc, pc, cmdq, q, reply, hw, graph, audio, disp, gfx)
  PROVE  AllInv(sc, pc, cmdq, q, r2, hw, g2, a2, disp, gfx)
<1>1. /\ \A t \in Tasks : Holds(sc, pc, cmdq, t) => AwaitedBy(g2, a2, t)
      /\ \A t \in Tasks :
           r2[t] = IF AwaitedBy(g2, a2, t) /\ ~ Holds(sc, pc, cmdq, t) THEN <<"done">> ELSE <<>>
  <2>0. /\ \A t \in Tasks : /\ Holds(sc, pc, cmdq, t) => AwaitedBy(graph, audio, t) /\ reply[t] = <<>>
                            /\ ~ AwaitedBy(graph, audio, t) => reply[t] = <<>>
                            /\ AwaitedBy(graph, audio, t) /\ ~ Holds(sc, pc, cmdq, t) =>
                                 reply[t] = <<"done">>
                            /\ reply[t] # <<>> => reply[t] = <<"done">> /\ ~ Holds(sc, pc, cmdq, t)
        /\ reply \in [Tasks -> Seq({"done", "timeout"})]
    BY Answered DEF TypeInv
  <2>1. CASE SameAnswers(g2, a2, r2)
    BY <2>0, <2>1 DEF SameAnswers
  <2>2. ASSUME NEW t \in Tasks, AnswersOne(g2, a2, r2, t)
        PROVE  /\ \A y \in Tasks : Holds(sc, pc, cmdq, y) => AwaitedBy(g2, a2, y)
               /\ \A y \in Tasks :
                    r2[y] = IF AwaitedBy(g2, a2, y) /\ ~ Holds(sc, pc, cmdq, y) THEN <<"done">>
                            ELSE <<>>
    <3>1. \A y \in Tasks : y # t => r2[y] = reply[y]
      BY <2>0, <2>2 DEF AnswersOne
    <3>2. \A y \in Tasks : y # t => (AwaitedBy(g2, a2, y) <=> AwaitedBy(graph, audio, y))
      BY <2>2 DEF AnswersOne
    <3>3. /\ Tail(<<"done">>) = <<>> /\ Append(<<>>, "done") = <<"done">>
      OBVIOUS
    <3>4. /\ Holds(sc, pc, cmdq, t) => AwaitedBy(g2, a2, t)
          /\ r2[t] = IF AwaitedBy(g2, a2, t) /\ ~ Holds(sc, pc, cmdq, t) THEN <<"done">> ELSE <<>>
      <4>1. CASE /\ ~ AwaitedBy(graph, audio, t) /\ AwaitedBy(g2, a2, t)
                 /\ r2 = [reply EXCEPT ![t] = Append(@, "done")]
        <5>1. r2[t] = Append(reply[t], "done") /\ reply[t] = <<>>
          BY <2>0, <4>1
        <5>2. QED BY <5>1, <4>1, <3>3, <2>0
      <4>2. CASE /\ reply[t] # <<>> /\ ~ AwaitedBy(g2, a2, t)
                 /\ r2 = [reply EXCEPT ![t] = Tail(@)]
        <5>1. r2[t] = Tail(reply[t]) /\ reply[t] = <<"done">>
          BY <2>0, <4>2
        <5>2. QED BY <5>1, <4>2, <3>3, <2>0
      <4>3. CASE /\ ~ AwaitedBy(graph, audio, t) /\ ~ AwaitedBy(g2, a2, t)
                 /\ r2 = [reply EXCEPT ![t] = <<>>]
        <5>1. r2[t] = <<>>
          BY <2>0, <4>3
        <5>2. QED BY <5>1, <4>3, <2>0
      <4>4. QED BY <2>2, <4>1, <4>2, <4>3 DEF AnswersOne
    <3>5. QED BY <2>0, <3>1, <3>2, <3>4
  <2>3. QED BY <2>1, <2>2 DEF Quiet
<1>2. QED BY <1>1, ThreadMoves DEF Quiet

\* The steps of the graph thread between the frames, and around them.
LEMMA GraphQuietKeeps ==
  ASSUME TypeInv, Consistent, pc = Main,
         GameStateInit \/ GameStateDestroy \/ GraphStartTask \/ GraphStartFrame
            \/ GraphReceive \/ GraphGot \/ GraphDrain \/ GraphAnswer
  PROVE  Consistent'
<1>1. /\ GraphOK(graph) /\ reply \in [Tasks -> Seq({"done", "timeout"})]
      /\ ThreadInv(graph, audio) /\ "gfx" \in Tasks
      /\ graph.task \in Tasks /\ graph.task # "aud"
  BY DEF TypeInv, Consistent, AllInv, Tasks, GraphOK
<1>2. Head(<<"done">>) = "done"
  OBVIOUS
<1>3. reply["gfx"] # <<>> => reply["gfx"] = <<"done">>
  BY Answered, <1>1
<1>4. CASE GameStateInit
  <2>1. /\ graph.at = "init" /\ graph.in = "init" /\ graph.task = "gfx" /\ graph'.at = "game"
        /\ graph'.in = "game" /\ graph'.task = graph.task /\ graph'.mesg = graph.mesg
        /\ graph'.cfbIndex = graph.cfbIndex /\ graph'.fbIndex = graph.fbIndex
        /\ reply' = [reply EXCEPT !["gfx"] = Append(@, "done")]
        /\ UNCHANGED <<sc, pc, cmdq, iq, hw, audio, disp, gfx>>
    BY <1>1, <1>4 DEF GameStateInit, GraphUnchanged, GraphOK, ThreadInv
  <2>2. ThreadInv(graph', audio)
    BY <1>1, <2>1 DEF ThreadInv
  <2>3. AnswersOne(graph', audio, reply', "gfx")
    <3>1. \A y \in Tasks : y # "gfx" => (AwaitedBy(graph', audio, y) <=> AwaitedBy(graph, audio, y))
      BY <2>1 DEF AwaitedBy
    <3>2. ~ AwaitedBy(graph, audio, "gfx") /\ AwaitedBy(graph', audio, "gfx")
      BY <2>1 DEF AwaitedBy
    <3>3. QED BY <2>1, <3>1, <3>2 DEF AnswersOne
  <2>4. Quiet(graph', audio, reply')
    BY <1>1, <2>1, <2>2, <2>3 DEF Quiet
  <2>5. QED BY <2>1, <2>4, QuietKeeps DEF Consistent
<1>5. CASE GameStateDestroy
  <2>1. CASE graph.at = "game"
    <3>1. /\ graph.in = "game" /\ graph.task = "gfx" /\ graph'.at = "destroy"
          /\ graph'.in = "game" /\ graph'.task = "gfx" /\ graph'.mesg = graph.mesg
          /\ graph'.cfbIndex = graph.cfbIndex /\ graph'.fbIndex = graph.fbIndex
          /\ UNCHANGED <<sc, pc, cmdq, iq, hw, audio, disp, gfx, reply>>
      BY <1>1, <1>5, <2>1 DEF GameStateDestroy, GraphUnchanged, GraphOK, ThreadInv
    <3>2. ThreadInv(graph', audio)
      BY <1>1, <3>1 DEF ThreadInv
    <3>3. SameAnswers(graph', audio, reply')
      BY <2>1, <3>1 DEF AwaitedBy, SameAnswers
    <3>4. Quiet(graph', audio, reply')
      BY <2>1, <3>1, <3>2, <3>3 DEF Quiet
    <3>5. QED BY <3>1, <3>4, QuietKeeps DEF Consistent
  <2>2. CASE graph.at = "destroy"
    <3>1. /\ graph.in = "game" /\ graph.task = "gfx" /\ graph'.at = "init"
          /\ graph'.in = "init" /\ graph'.task = "gfx" /\ graph'.mesg = graph.mesg
          /\ graph'.cfbIndex = graph.cfbIndex /\ graph'.fbIndex = graph.fbIndex
          /\ reply["gfx"] # <<>> /\ reply' = [reply EXCEPT !["gfx"] = Tail(@)]
          /\ UNCHANGED <<sc, pc, cmdq, iq, hw, audio, disp, gfx>>
      BY <1>1, <1>5, <2>2 DEF GameStateDestroy, GraphUnchanged, GraphOK, ThreadInv
    <3>2. ThreadInv(graph', audio)
      BY <1>1, <3>1 DEF ThreadInv
    <3>3. AnswersOne(graph', audio, reply', "gfx")
      <4>1. \A y \in Tasks : y # "gfx" => (AwaitedBy(graph', audio, y) <=> AwaitedBy(graph, audio, y))
        BY <2>2, <3>1 DEF AwaitedBy
      <4>2. ~ AwaitedBy(graph', audio, "gfx")
        BY <3>1 DEF AwaitedBy
      <4>3. QED BY <3>1, <4>1, <4>2 DEF AnswersOne
    <3>4. Quiet(graph', audio, reply')
      BY <1>1, <2>2, <3>1, <3>2, <3>3 DEF Quiet
    <3>5. QED BY <3>1, <3>4, QuietKeeps DEF Consistent
  <2>3. QED BY <1>5, <2>1, <2>2 DEF GameStateDestroy
<1>6. CASE GraphStartTask
  <2>1. PICK t \in {"jpeg", "null"} : /\ graph' = [graph EXCEPT !.at = "send", !.task = t]
                                      /\ reply' = [reply EXCEPT ![t] = <<>>]
    BY <1>6 DEF GraphStartTask
  <2>2. /\ graph.at \in {"init", "game"} /\ graph.task = "gfx" /\ graph'.at = "send"
        /\ graph'.in = graph.in /\ graph'.task = t /\ graph'.mesg = graph.mesg
        /\ graph'.cfbIndex = graph.cfbIndex /\ graph'.fbIndex = graph.fbIndex
        /\ UNCHANGED <<sc, pc, cmdq, iq, hw, audio, disp, gfx>>
        /\ graph.in = IF graph.at = "init" THEN "init" ELSE "game"
    BY <1>1, <1>6, <2>1 DEF GraphStartTask, GraphUnchanged, GraphOK, ThreadInv
  <2>3. t # "gfx" /\ t # "aud" /\ t \in Tasks
    BY DEF Tasks
  <2>4. ThreadInv(graph', audio)
    BY <1>1, <2>2, <2>3 DEF ThreadInv
  <2>5. AnswersOne(graph', audio, reply', t)
    <3>1. \A y \in Tasks : AwaitedBy(graph', audio, y) <=> AwaitedBy(graph, audio, y)
      BY <2>2, <2>3 DEF AwaitedBy
    <3>2. ~ AwaitedBy(graph', audio, t)
      BY <2>2, <2>3 DEF AwaitedBy
    <3>3. QED BY <2>1, <2>3, <3>1, <3>2 DEF AnswersOne
  <2>6. Quiet(graph', audio, reply')
    BY <2>2, <2>3, <2>4, <2>5 DEF Quiet
  <2>7. QED BY <2>2, <2>6, QuietKeeps DEF Consistent
<1>7. CASE GraphStartFrame
  <2>1. /\ graph.at = "game" /\ graph.in = "game" /\ graph.task = "gfx" /\ graph'.at = "wait"
        /\ graph'.in = "game" /\ graph'.task = "gfx" /\ graph'.mesg = graph.mesg
        /\ graph'.cfbIndex = graph.cfbIndex /\ graph'.fbIndex = graph.fbIndex
        /\ UNCHANGED <<sc, pc, cmdq, iq, hw, audio, disp, gfx, reply>>
    BY <1>1, <1>7 DEF GraphStartFrame, GraphUnchanged, GraphOK, ThreadInv
  <2>2. ThreadInv(graph', audio)
    BY <1>1, <2>1 DEF ThreadInv
  <2>3. SameAnswers(graph', audio, reply')
    BY <2>1 DEF AwaitedBy, SameAnswers
  <2>4. Quiet(graph', audio, reply')
    BY <2>1, <2>2, <2>3 DEF Quiet
  <2>5. QED BY <2>1, <2>4, QuietKeeps DEF Consistent
<1>8. CASE GraphReceive
  <2>1. /\ graph.at = "wait" /\ graph.in = "game" /\ graph.task = "gfx" /\ graph'.at = "got"
        /\ graph'.in = "game" /\ graph'.task = "gfx" /\ graph'.mesg = Head(reply["gfx"])
        /\ graph'.cfbIndex = graph.cfbIndex /\ graph'.fbIndex = graph.fbIndex
        /\ reply["gfx"] # <<>> /\ reply' = [reply EXCEPT !["gfx"] = Tail(@)]
        /\ UNCHANGED <<sc, pc, cmdq, iq, hw, audio, disp, gfx>>
    BY <1>1, <1>8 DEF GraphReceive, GraphUnchanged, GraphOK, ThreadInv
  <2>2. ThreadInv(graph', audio)
    BY <1>1, <1>2, <1>3, <2>1 DEF ThreadInv
  <2>3. AnswersOne(graph', audio, reply', "gfx")
    <3>1. \A y \in Tasks : y # "gfx" => (AwaitedBy(graph', audio, y) <=> AwaitedBy(graph, audio, y))
      BY <2>1 DEF AwaitedBy
    <3>2. ~ AwaitedBy(graph', audio, "gfx")
      BY <2>1 DEF AwaitedBy
    <3>3. QED BY <2>1, <3>1, <3>2 DEF AnswersOne
  <2>4. Quiet(graph', audio, reply')
    BY <1>1, <2>1, <2>2, <2>3 DEF Quiet
  <2>5. QED BY <2>1, <2>4, QuietKeeps DEF Consistent
<1>9. CASE GraphGot
  <2>1. /\ graph.at = "got" /\ graph.in = "game" /\ graph.task = "gfx" /\ graph'.at = "build"
        /\ graph'.in = "game" /\ graph'.task = "gfx" /\ graph'.mesg = graph.mesg
        /\ graph'.cfbIndex = graph.cfbIndex /\ graph'.fbIndex = graph.fbIndex
        /\ UNCHANGED <<sc, pc, cmdq, iq, hw, audio, disp, gfx, reply>>
    BY <1>1, <1>9 DEF GraphGot, GraphUnchanged, GraphOK, ThreadInv
  <2>2. ThreadInv(graph', audio)
    BY <1>1, <2>1 DEF ThreadInv
  <2>3. SameAnswers(graph', audio, reply')
    BY <2>1 DEF AwaitedBy, SameAnswers
  <2>4. Quiet(graph', audio, reply')
    BY <2>1, <2>2, <2>3 DEF Quiet
  <2>5. QED BY <2>1, <2>4, QuietKeeps DEF Consistent
<1>10. CASE GraphDrain
  <2>1. /\ graph.at = "drain" /\ graph.in = "game" /\ graph.task = "gfx" /\ graph'.at = "send"
        /\ graph'.in = "game" /\ graph'.task = "gfx" /\ graph'.mesg = graph.mesg
        /\ graph'.cfbIndex = graph.cfbIndex /\ graph'.fbIndex = graph.fbIndex
        /\ reply' = [reply EXCEPT !["gfx"] = <<>>]
        /\ UNCHANGED <<sc, pc, cmdq, iq, hw, audio, disp, gfx>>
    BY <1>1, <1>10 DEF GraphDrain, GraphUnchanged, GraphOK, ThreadInv
  <2>2. ThreadInv(graph', audio)
    BY <1>1, <2>1 DEF ThreadInv
  <2>3. AnswersOne(graph', audio, reply', "gfx")
    <3>1. \A y \in Tasks : y # "gfx" => (AwaitedBy(graph', audio, y) <=> AwaitedBy(graph, audio, y))
      BY <2>1 DEF AwaitedBy
    <3>2. ~ AwaitedBy(graph', audio, "gfx") /\ ~ AwaitedBy(graph, audio, "gfx")
      BY <2>1 DEF AwaitedBy
    <3>3. QED BY <2>1, <3>1, <3>2 DEF AnswersOne
  <2>4. Quiet(graph', audio, reply')
    BY <1>1, <2>1, <2>2, <2>3 DEF Quiet
  <2>5. QED BY <2>1, <2>4, QuietKeeps DEF Consistent
<1>11. CASE GraphAnswer
  <2> DEFINE t == graph.task
  <2>1. /\ graph.at = "answer" /\ t # "gfx" /\ graph'.at = graph.in /\ graph.in \in {"init", "game"}
        /\ graph'.in = graph.in /\ graph'.task = "gfx" /\ graph'.mesg = graph.mesg
        /\ graph'.cfbIndex = graph.cfbIndex /\ graph'.fbIndex = graph.fbIndex
        /\ reply[t] # <<>> /\ reply' = [reply EXCEPT ![t] = Tail(@)]
        /\ UNCHANGED <<sc, pc, cmdq, iq, hw, audio, disp, gfx>>
    BY <1>1, <1>11 DEF GraphAnswer, GraphUnchanged, GraphOK, ThreadInv
  <2>2. ThreadInv(graph', audio)
    BY <1>1, <2>1 DEF ThreadInv
  <2>3. AnswersOne(graph', audio, reply', t)
    <3>1. \A y \in Tasks : y # t => (AwaitedBy(graph', audio, y) <=> AwaitedBy(graph, audio, y))
      BY <2>1 DEF AwaitedBy
    <3>2. ~ AwaitedBy(graph', audio, t)
      BY <1>1, <2>1 DEF AwaitedBy
    <3>3. QED BY <2>1, <3>1, <3>2 DEF AnswersOne
  <2>4. Quiet(graph', audio, reply')
    BY <1>1, <2>1, <2>2, <2>3 DEF Quiet
  <2>5. QED BY <2>1, <2>4, QuietKeeps DEF Consistent
<1>12. QED BY <1>4, <1>5, <1>6, <1>7, <1>8, <1>9, <1>10, <1>11

\* A task is sent.
LEMMA SendKeeps ==
  ASSUME TypeInv, Consistent, pc = Main, NEW t \in Tasks, NEW g2, NEW a2,
         ~ AwaitedBy(graph, audio, t), AwaitedBy(g2, a2, t),
         \A y \in Tasks : y # t => (AwaitedBy(g2, a2, y) <=> AwaitedBy(graph, audio, y)),
         t = "aud" \/ ~ AwaitedBy(graph, audio, "null"),
         ThreadInv(g2, a2), g2.cfbIndex = graph.cfbIndex /\ g2.fbIndex = graph.fbIndex,
         IF t = "gfx" THEN graph.at = "send" /\ graph.task = "gfx"
         ELSE (g2.at = "drain" \/ (g2.at = "send" /\ g2.task = "gfx")) <=>
              (graph.at = "drain" \/ (graph.at = "send" /\ graph.task = "gfx"))
  PROVE  AllInv(sc, pc, Append(cmdq, t), iq, reply, hw, g2, a2, disp, gfx)
<1> DEFINE c == Append(cmdq, t)
<1>0. /\ PlaceInv(sc, pc, cmdq) /\ StateInv(sc, pc)
      /\ ReplyInv(sc, pc, cmdq, reply, graph, audio)
      /\ FlushInv(sc, pc, cmdq) /\ FrameInv(sc, pc, cmdq, disp, gfx, graph)
  BY DEF Consistent, AllInv
<1>1. cmdq \in Seq(Tasks)
  BY DEF TypeInv
<1>2. /\ Len(c) = Len(cmdq) + 1 /\ Len(cmdq) \in Nat
      /\ \A i \in 1 .. Len(cmdq) : c[i] = cmdq[i]
      /\ c[Len(cmdq) + 1] = t
      /\ \A y : In(y, c) <=> In(y, cmdq) \/ y = t
      /\ Once(cmdq) /\ ~ In(t, cmdq) => Once(c)
  BY <1>1, AppendProperties, AppendIn
<1> HIDE DEF c
<1>3. ~ Holds(sc, pc, cmdq, t)
  BY <1>0 DEF ReplyInv
<1>4. /\ ~ In(t, cmdq) /\ ~ Listed(sc, t) /\ ~ OnRSP(sc, pc, t) /\ sc.rdp # t /\ ~ Sends(pc, t)
  BY <1>3 DEF Holds
<1>5. \A y \in Tasks : Holds(sc, pc, c, y) <=> Holds(sc, pc, cmdq, y) \/ y = t
  BY <1>2 DEF Holds
<1>6. "gfx" \in Tasks /\ "null" \in Tasks
  BY DEF Tasks
<1>p. PlaceInv(sc, pc, c)
  BY <1>0, <1>2, <1>4 DEF PlaceInv
<1>r. ReplyInv(sc, pc, c, reply, g2, a2)
  <2>1. reply[t] = <<>>
    BY <1>0, <1>3 DEF ReplyInv
  <2>2. ASSUME NEW y \in Tasks
        PROVE  /\ Holds(sc, pc, c, y) => AwaitedBy(g2, a2, y)
               /\ reply[y] = IF AwaitedBy(g2, a2, y) /\ ~ Holds(sc, pc, c, y) THEN <<"done">> ELSE <<>>
    <3>1. CASE y = t
      BY <2>1, <1>5, <3>1
    <3>2. CASE y # t
      <4>1. /\ Holds(sc, pc, cmdq, y) => AwaitedBy(graph, audio, y)
            /\ reply[y] = IF AwaitedBy(graph, audio, y) /\ ~ Holds(sc, pc, cmdq, y) THEN <<"done">>
                          ELSE <<>>
        BY <1>0 DEF ReplyInv
      <4>2. AwaitedBy(g2, a2, y) <=> AwaitedBy(graph, audio, y)
        BY <3>2
      <4>3. QED BY <4>1, <4>2, <3>2, <1>5
    <3>3. QED BY <3>1, <3>2
  <2>3. QED BY <2>2 DEF ReplyInv
<1>f. FlushInv(sc, pc, c)
  <2>1. t # "aud" => ~ In("null", sc.gfxList) /\ ~ In("null", cmdq)
    <3>1. t # "aud" => ~ Holds(sc, pc, cmdq, "null")
      BY <1>0, <1>6 DEF ReplyInv
    <3>2. QED BY <3>1 DEF Holds, Listed
  <2>2. In("null", sc.gfxList) => \A i \in 1 .. Len(c) : c[i] = "aud"
    <3> SUFFICES ASSUME In("null", sc.gfxList), NEW i \in 1 .. Len(c) PROVE c[i] = "aud"
      OBVIOUS
    <3>1. CASE i = Len(c)
      BY <2>1, <3>1, <1>2
    <3>2. CASE i # Len(c)
      <4>1. i \in 1 .. Len(cmdq)
        BY <3>2, <1>2
      <4>2. QED BY <4>1, <1>2, <1>0 DEF FlushInv
    <3>3. QED BY <3>1, <3>2
  <2>3. ASSUME NEW i \in 1 .. Len(c), NEW j \in 1 .. Len(c), c[i] = "null", i < j PROVE c[j] = "aud"
    <3>1. i \in 1 .. Len(cmdq) /\ cmdq[i] = "null"
      BY <2>3, <1>2
    <3>2. t = "aud"
      BY <2>1, <3>1 DEF In
    <3>3. CASE j = Len(c)
      BY <3>2, <3>3, <1>2
    <3>4. CASE j # Len(c)
      <4>1. j \in 1 .. Len(cmdq) /\ cmdq[j] = c[j]
        BY <3>4, <1>2
      <4>2. QED BY <4>1, <3>1, <2>3, <1>0 DEF FlushInv
    <3>5. QED BY <3>3, <3>4
  <2>4. QED BY <1>0, <2>2, <2>3 DEF FlushInv
<1>d. FrameInv(sc, pc, c, disp, gfx, g2)
  <2>0. (t = "gfx" => In("gfx", c)) /\ (t # "gfx" => (In("gfx", c) <=> In("gfx", cmdq)))
    BY <1>2
  <2>1. InFlight(sc, pc, c, g2) <=> InFlight(sc, pc, cmdq, graph)
    BY <1>5, <1>6 DEF InFlight
  <2>2. Fresh(sc, pc, c, g2) <=> Fresh(sc, pc, cmdq, graph)
    BY <2>0 DEF Fresh
  <2>3. QED BY <1>0, <2>1, <2>2 DEF FrameInv, LastFb
<1>9. QED BY <1>p, <1>r, <1>f, <1>d DEF Consistent, AllInv, c

\* The message to the scheduler that a task was sent, in an empty queue.
LEMMA KickKeeps ==
  ASSUME Consistent, iq = <<>>, iq' = Post(iq, "notify")
  PROVE  AllInv(sc, pc, cmdq, iq', reply, hw, graph, audio, disp, gfx)
<1>1. Once(iq') /\ \A y : In(y, iq') <=> y = "notify"
  <2>1. iq \in Seq(IrqMesgs) /\ "notify" \in IrqMesgs
    BY DEF IrqMesgs
  <2>2. Once(iq) /\ \A y : ~ In(y, iq)
    BY DEF Once, In
  <2>3. QED BY <2>1, <2>2, PostKeeps
<1>2. \A y : ~ In(y, iq)
  BY DEF In
<1>3. CalmInv(pc, iq') /\ HardwareInv(sc, iq', hw)
  BY <1>1, <1>2 DEF Consistent, AllInv, CalmInv, HardwareInv
<1>4. QED BY <1>3 DEF Consistent, AllInv

\* The graph thread sends a task and tells the scheduler.
LEMMA GraphSendsKeeps ==
  ASSUME TypeInv, Consistent, pc = Main, iq = <<>>, GraphSend \/ GraphKick
  PROVE  Consistent'
<1>1. /\ GraphOK(graph) /\ ThreadInv(graph, audio)
      /\ graph.task \in Tasks /\ graph.task # "aud"
      /\ \A y \in Tasks : y \in {"gfx", "aud", "jpeg", "null"}
  BY DEF TypeInv, Consistent, AllInv, Tasks, GraphOK
<1>2. CASE GraphSend
  <2> DEFINE t == graph.task
  <2>1. /\ graph.at = "send" /\ graph'.at = "kick" /\ graph'.in = graph.in /\ graph'.task = t
        /\ graph'.mesg = graph.mesg
        /\ graph'.cfbIndex = graph.cfbIndex /\ graph'.fbIndex = graph.fbIndex
        /\ cmdq' = Append(cmdq, t)
        /\ UNCHANGED <<sc, pc, iq, reply, hw, audio, disp, gfx>>
        /\ t = "gfx" => graph.in = "game"
    BY <1>1, <1>2 DEF GraphSend, GraphUnchanged, GraphOK, ThreadInv
  <2>2. ThreadInv(graph', audio)
    BY <1>1, <2>1 DEF ThreadInv
  <2>3. /\ \A y \in Tasks : y # t => (AwaitedBy(graph', audio, y) <=> AwaitedBy(graph, audio, y))
        /\ ~ AwaitedBy(graph, audio, t) /\ AwaitedBy(graph', audio, t)
        /\ ~ AwaitedBy(graph, audio, "null")
    BY <1>1, <2>1 DEF AwaitedBy
  <2>4. AllInv(sc, pc, Append(cmdq, t), iq, reply, hw, graph', audio, disp, gfx)
    BY <1>1, <2>1, <2>2, <2>3, SendKeeps
  <2>5. QED BY <2>1, <2>4 DEF Consistent
<1>3. CASE GraphKick
  <2>1. /\ graph.at = "kick" /\ graph'.at = (IF graph.task = "gfx" THEN "game" ELSE "answer")
        /\ graph'.in = graph.in /\ graph'.task = graph.task /\ graph'.mesg = graph.mesg
        /\ graph'.cfbIndex = graph.cfbIndex /\ graph'.fbIndex = graph.fbIndex
        /\ iq' = Post(iq, "notify")
        /\ UNCHANGED <<sc, pc, cmdq, reply, hw, audio, disp, gfx>>
        /\ graph.task = "gfx" => graph.in = "game"
    BY <1>1, <1>3 DEF GraphKick, GraphUnchanged, PostIrq, GraphOK, ThreadInv
  <2>2. ThreadInv(graph', audio)
    BY <1>1, <2>1 DEF ThreadInv
  <2>3. SameAnswers(graph', audio, reply')
    BY <1>1, <2>1 DEF AwaitedBy, SameAnswers
  <2>4. Quiet(graph', audio, reply')
    BY <2>1, <2>2, <2>3 DEF Quiet
  <2>5. AllInv(sc, pc, cmdq, iq', reply, hw, graph, audio, disp, gfx)
    BY <2>1, KickKeeps
  <2>6. QED BY <2>1, <2>4, <2>5, QuietKeeps DEF Consistent
<1>4. QED BY <1>2, <1>3

\* The task and the CfbInfo of the next frame are written: neither is in use.
LEMMA GraphBuildKeeps ==
  ASSUME TypeInv, Consistent, pc = Main, GraphBuild
  PROVE  Consistent'
<1>0. /\ ReplyInv(sc, pc, cmdq, reply, graph, audio) /\ ThreadInv(graph, audio)
      /\ FrameInv(sc, pc, cmdq, disp, gfx, graph)
  BY DEF Consistent, AllInv
<1>1. /\ GraphOK(graph) /\ DispOK(disp) /\ "gfx" \in Tasks
      /\ setting.rates \subseteq 1 .. MaxRate
  BY RcpAssumption DEF TypeInv, Tasks
<1>2. PICK swap \in BOOLEAN, rate \in 1 .. MaxRate :
        /\ gfx' = [cfb |-> graph.cfbIndex, swap |-> swap]
        /\ disp' = [disp EXCEPT !.cfb[graph.cfbIndex].fb = graph.fbIndex,
                                !.cfb[graph.cfbIndex].rate = rate]
        /\ graph' = [graph EXCEPT !.at = "drain", !.cfbIndex = (@ + 1) % 3,
                                  !.fbIndex = IF swap THEN 1 - @ ELSE @]
  BY <1>1 DEF GraphBuild
<1>3. /\ graph.at = "build" /\ UNCHANGED <<sc, pc, iq, cmdq, reply, hw, audio>>
  BY DEF GraphBuild
<1>4. /\ graph.in = "game" /\ graph.task = "gfx" /\ graph'.at = "drain" /\ graph'.in = "game"
      /\ graph'.task = "gfx" /\ graph'.mesg = graph.mesg
      /\ graph'.cfbIndex = (graph.cfbIndex + 1) % 3
      /\ graph'.fbIndex = IF swap THEN 1 - graph.fbIndex ELSE graph.fbIndex
      /\ graph.cfbIndex \in 0 .. 2 /\ graph.fbIndex \in 0 .. 1
  BY <1>0, <1>1, <1>2, <1>3 DEF GraphOK, ThreadInv, Cfbs, FBs
<1>5. /\ disp'.pending = disp.pending /\ disp'.viCur = disp.viCur /\ disp'.viNext = disp.viNext
      /\ disp'.cfb[graph.cfbIndex].fb = graph.fbIndex
      /\ \A i \in Cfbs : i # graph.cfbIndex => disp'.cfb[i].fb = disp.cfb[i].fb
  <2> DEFINE one == [disp.cfb[graph.cfbIndex] EXCEPT !.fb = graph.fbIndex, !.rate = rate]
             all == [disp.cfb EXCEPT ![graph.cfbIndex] = one]
  <2>1. graph.cfbIndex \in Cfbs
    BY <1>4 DEF Cfbs
  <2>2. one.fb = graph.fbIndex
    BY <1>1, <2>1 DEF DispOK
  <2>3. disp' = [disp EXCEPT !.cfb = all]
    BY <1>1, <1>2, <2>1 DEF DispOK
  <2> HIDE DEF one
  <2>4. all[graph.cfbIndex] = one /\ \A i \in Cfbs : i # graph.cfbIndex => all[i] = disp.cfb[i]
    BY <1>1, <2>1 DEF DispOK
  <2> HIDE DEF all
  <2>5. disp'.cfb = all /\ disp'.pending = disp.pending /\ disp'.viCur = disp.viCur
        /\ disp'.viNext = disp.viNext
    BY <1>1, <2>3 DEF DispOK
  <2>6. QED BY <2>1, <2>2, <2>4, <2>5
<1>6. ThreadInv(graph', audio)
  BY <1>0, <1>4 DEF ThreadInv
<1>7. \A t \in Tasks : AwaitedBy(graph', audio, t) <=> AwaitedBy(graph, audio, t)
  BY <1>3, <1>4 DEF AwaitedBy
<1>8. ReplyInv(sc, pc, cmdq, reply, graph', audio)
  BY <1>0, <1>7 DEF ReplyInv
<1>9. ~ Holds(sc, pc, cmdq, "gfx")
  <2>1. ~ AwaitedBy(graph, audio, "gfx")
    BY <1>3 DEF AwaitedBy
  <2>2. QED BY <2>1, <1>0, <1>1 DEF ReplyInv
<1>10. FrameInv(sc, pc, cmdq, disp', gfx', graph')
  <2> DEFINE last == 1 - graph.fbIndex
  <2>1. /\ ~ InFlight(sc, pc, cmdq, graph)
        /\ InFlight(sc, pc, cmdq, graph') /\ Fresh(sc, pc, cmdq, graph')
    BY <1>3, <1>4, <1>9 DEF InFlight, Fresh
  <2>2. gfx'.cfb = graph.cfbIndex /\ gfx'.swap = swap
    BY <1>2
  <2>3. LastFb(sc, pc, cmdq, gfx, graph) = last
    BY <2>1 DEF LastFb
  <2>4. LastFb(sc, pc, cmdq, gfx', graph') = last
    BY <2>1, <2>2, <1>4 DEF LastFb
  <2> HIDE DEF last
  <2>5. /\ disp.pending # NoCfb =>
              /\ disp.cfb[disp.pending].fb = last
              /\ disp.viCur = last => disp.viNext = last
              /\ disp.pending = (graph.cfbIndex + 2) % 3
        /\ disp.pending = NoCfb => disp.viNext \in {last, Boot}
    BY <1>0, <2>1, <2>3 DEF FrameInv
  <2>6. disp.pending # NoCfb => disp'.cfb[disp.pending].fb = last
    <3>1. disp.pending # NoCfb => disp.pending \in Cfbs
      BY <1>1 DEF DispOK
    <3>2. disp.pending # NoCfb => disp.pending # graph.cfbIndex
      BY <2>5, <1>4
    <3>3. QED BY <3>1, <3>2, <2>5, <1>5
  <2>7. (graph.cfbIndex + 2) % 3 = (graph'.cfbIndex + 1) % 3
        /\ graph.cfbIndex = (graph'.cfbIndex + 2) % 3
    BY <1>4
  <2>8. disp'.cfb[gfx'.cfb].fb = 1 - last
    BY <1>4, <1>5, <2>2 DEF last
  <2>9. QED BY <1>5, <2>1, <2>2, <2>4, <2>5, <2>6, <2>7, <2>8 DEF FrameInv
<1>11. QED BY <1>3, <1>6, <1>8, <1>10 DEF Consistent, AllInv

\* The steps of the graph thread.
LEMMA GraphStepKeeps ==
  ASSUME TypeInv, Consistent, GraphStep
  PROVE  Consistent'
<1>1. pc = Main /\ iq = <<>>
  BY Idle DEF GraphStep
<1>2. CASE GraphSend \/ GraphKick
  BY <1>1, <1>2, GraphSendsKeeps
<1>3. CASE GraphBuild
  BY <1>1, <1>3, GraphBuildKeeps
<1>4. QED BY <1>1, <1>2, <1>3, GraphQuietKeeps DEF GraphStep

\* The steps of the audio thread.
LEMMA AudioStepKeeps ==
  ASSUME TypeInv, Consistent, AudioStep
  PROVE  Consistent'
<1>0. pc = Main /\ iq = <<>>
  BY Idle DEF AudioStep
<1>1. /\ AudioOK(audio) /\ ThreadInv(graph, audio) /\ "aud" \in Tasks
  BY DEF TypeInv, Consistent, AllInv, Tasks
<1>2. Head(<<"done">>) = "done"
  OBVIOUS
<1>3. reply["aud"] # <<>> => reply["aud"] = <<"done">>
  BY Answered, <1>1
<1>4. CASE AudioRetrace
  <2>1. /\ audio.at = "idle" /\ audio'.at \in {"idle", "send"} /\ audio'.mesg = audio.mesg
        /\ reply' = [reply EXCEPT !["aud"] = <<>>]
        /\ UNCHANGED <<sc, pc, cmdq, iq, hw, graph, disp, gfx>>
    BY <1>1, <1>4 DEF AudioRetrace, AudioUnchanged, AudioOK
  <2>2. ThreadInv(graph, audio')
    BY <1>1, <2>1 DEF ThreadInv
  <2>3. AnswersOne(graph, audio', reply', "aud")
    <3>1. \A y \in Tasks : y # "aud" => (AwaitedBy(graph, audio', y) <=> AwaitedBy(graph, audio, y))
      BY DEF AwaitedBy
    <3>2. ~ AwaitedBy(graph, audio', "aud") /\ ~ AwaitedBy(graph, audio, "aud")
      BY <2>1 DEF AwaitedBy
    <3>3. QED BY <2>1, <3>1, <3>2 DEF AnswersOne
  <2>4. Quiet(graph, audio', reply')
    BY <1>1, <2>2, <2>3 DEF Quiet
  <2>5. QED BY <2>1, <2>4, QuietKeeps DEF Consistent
<1>5. CASE AudioSend
  <2>1. /\ audio.at = "send" /\ audio'.at = "kick" /\ audio'.mesg = audio.mesg
        /\ cmdq' = Append(cmdq, "aud")
        /\ UNCHANGED <<sc, pc, reply, iq, hw, graph, disp, gfx>>
    BY <1>1, <1>5 DEF AudioSend, AudioUnchanged, AudioOK
  <2>2. ThreadInv(graph, audio')
    BY <1>1, <2>1 DEF ThreadInv
  <2>3. /\ \A y \in Tasks : y # "aud" => (AwaitedBy(graph, audio', y) <=> AwaitedBy(graph, audio, y))
        /\ ~ AwaitedBy(graph, audio, "aud") /\ AwaitedBy(graph, audio', "aud")
    BY <2>1 DEF AwaitedBy
  <2>4. AllInv(sc, pc, Append(cmdq, "aud"), iq, reply, hw, graph, audio', disp, gfx)
    BY <1>0, <1>1, <2>2, <2>3, SendKeeps
  <2>5. QED BY <2>1, <2>4 DEF Consistent
<1>6. CASE AudioKick
  <2>1. /\ audio.at = "kick" /\ audio'.at = "update" /\ audio'.mesg = audio.mesg
        /\ iq' = Post(iq, "notify")
        /\ UNCHANGED <<sc, pc, cmdq, reply, hw, graph, disp, gfx>>
    BY <1>1, <1>6 DEF AudioKick, AudioUnchanged, PostIrq, AudioOK
  <2>2. ThreadInv(graph, audio')
    BY <1>1, <2>1 DEF ThreadInv
  <2>3. SameAnswers(graph, audio', reply')
    BY <2>1 DEF AwaitedBy, SameAnswers
  <2>4. Quiet(graph, audio', reply')
    BY <2>2, <2>3 DEF Quiet
  <2>5. AllInv(sc, pc, cmdq, iq', reply, hw, graph, audio, disp, gfx)
    BY <1>0, <2>1, KickKeeps
  <2>6. QED BY <2>1, <2>4, <2>5, QuietKeeps DEF Consistent
<1>7. CASE AudioUpdate
  <2>1. /\ audio.at = "update" /\ audio'.at = "wait" /\ audio'.mesg = audio.mesg
        /\ UNCHANGED <<sc, pc, cmdq, iq, reply, hw, graph, disp, gfx>>
    BY <1>1, <1>7 DEF AudioUpdate, AudioUnchanged, AudioOK
  <2>2. ThreadInv(graph, audio')
    BY <1>1, <2>1 DEF ThreadInv
  <2>3. SameAnswers(graph, audio', reply')
    BY <2>1 DEF AwaitedBy, SameAnswers
  <2>4. Quiet(graph, audio', reply')
    BY <2>2, <2>3 DEF Quiet
  <2>5. QED BY <2>1, <2>4, QuietKeeps DEF Consistent
<1>8. CASE AudioReceive
  <2>1. /\ audio.at = "wait" /\ audio'.at = "got" /\ audio'.mesg = Head(reply["aud"])
        /\ reply["aud"] # <<>> /\ reply' = [reply EXCEPT !["aud"] = Tail(@)]
        /\ UNCHANGED <<sc, pc, cmdq, iq, hw, graph, disp, gfx>>
    BY <1>1, <1>8 DEF AudioReceive, AudioUnchanged, AudioOK
  <2>2. ThreadInv(graph, audio')
    BY <1>1, <1>2, <1>3, <2>1 DEF ThreadInv
  <2>3. AnswersOne(graph, audio', reply', "aud")
    <3>1. \A y \in Tasks : y # "aud" => (AwaitedBy(graph, audio', y) <=> AwaitedBy(graph, audio, y))
      BY DEF AwaitedBy
    <3>2. ~ AwaitedBy(graph, audio', "aud")
      BY <2>1 DEF AwaitedBy
    <3>3. QED BY <2>1, <3>1, <3>2 DEF AnswersOne
  <2>4. Quiet(graph, audio', reply')
    BY <1>1, <2>2, <2>3 DEF Quiet
  <2>5. QED BY <2>1, <2>4, QuietKeeps DEF Consistent
<1>9. CASE AudioGot
  <2>1. /\ audio.at = "got" /\ audio'.at = "idle" /\ audio'.mesg = audio.mesg
        /\ UNCHANGED <<sc, pc, cmdq, iq, reply, hw, graph, disp, gfx>>
    BY <1>1, <1>9 DEF AudioGot, AudioUnchanged, AudioOK, ThreadInv
  <2>2. ThreadInv(graph, audio')
    BY <1>1, <2>1 DEF ThreadInv
  <2>3. SameAnswers(graph, audio', reply')
    BY <2>1 DEF AwaitedBy, SameAnswers
  <2>4. Quiet(graph, audio', reply')
    BY <2>2, <2>3 DEF Quiet
  <2>5. QED BY <2>1, <2>4, QuietKeeps DEF Consistent
<1>10. QED BY <1>4, <1>5, <1>6, <1>7, <1>8, <1>9 DEF AudioStep

-----------------------------------------------------------------------------
(* The invariant, and the properties that follow.                          *)

\* The initial state.
LEMMA InitConsistent == Init => Consistent
<1> SUFFICES ASSUME Init PROVE Consistent
  OBVIOUS
<1>1. /\ \A y : ~ In(y, <<>>)
      /\ Once(<<>>) /\ Len(<<>>) = 0
  BY DEF In, Once
<1>2. /\ sc.audioList = <<>> /\ sc.gfxList = <<>> /\ sc.rsp = NoTask /\ sc.rdp = NoTask
      /\ \A t \in Tasks : sc.state[t] = {}
      /\ pc.at = "main" /\ iq = <<>> /\ cmdq = <<>>
      /\ \A t \in Tasks : reply[t] = <<>>
      /\ disp.pending = NoCfb /\ disp.viCur = Boot /\ disp.viNext = Boot
      /\ ~ hw.busy /\ hw.working = {} /\ hw.drawing = "no" /\ hw.stale = 0
      /\ graph.at = "init" /\ graph.in = "init" /\ graph.task = "gfx" /\ graph.mesg = "done"
      /\ audio.at = "idle" /\ audio.mesg = "done"
  BY Places DEF Init, SchedInit
<1>3. /\ "gfx" \in Tasks /\ "aud" \in Tasks /\ "jpeg" \in Tasks /\ "null" \in Tasks
      /\ NoTask \notin Tasks /\ NoTask # "gfx" /\ NoTask # "null"
  BY DEF Tasks, NoTask
<1>4. \A t \in Tasks : ~ Listed(sc, t) /\ ~ OnRSP(sc, pc, t) /\ ~ Sends(pc, t)
                       /\ ~ Holds(sc, pc, cmdq, t)
  BY <1>1, <1>2, <1>3 DEF Listed, OnRSP, Sends, Holds
<1>5. \A t \in Tasks : ~ AwaitedBy(graph, audio, t)
  BY <1>2 DEF AwaitedBy
<1>p. PlaceInv(sc, pc, cmdq)
  BY <1>1, <1>2, <1>4 DEF PlaceInv
<1>r. ReplyInv(sc, pc, cmdq, reply, graph, audio)
  BY <1>2, <1>4, <1>5 DEF ReplyInv
<1>s. StateInv(sc, pc)
  BY <1>1, <1>2, <1>3, <1>4 DEF StateInv
<1>c. CalmInv(pc, iq)
  BY <1>1, <1>2 DEF CalmInv
<1>h. HardwareInv(sc, iq, hw)
  BY <1>1, <1>2, <1>3 DEF HardwareInv
<1>f. FlushInv(sc, pc, cmdq)
  BY <1>1, <1>2, <1>3, <1>4 DEF FlushInv
<1>t. ThreadInv(graph, audio)
  BY <1>2 DEF ThreadInv
<1>d. FrameInv(sc, pc, cmdq, disp, gfx, graph)
  <2>1. ~ InFlight(sc, pc, cmdq, graph)
    BY <1>2, <1>3, <1>4 DEF InFlight
  <2>2. QED BY <1>2, <2>1 DEF FrameInv
<1>9. QED BY <1>p, <1>r, <1>s, <1>c, <1>h, <1>f, <1>t, <1>d DEF Consistent, AllInv

\* Every step keeps the invariant.
LEMMA ConsistentStep ==
  ASSUME TypeInv, IInv, [Next]_vars
  PROVE  IInv'
<1>1. setting' = setting
  <2>1. CASE SchedStep /\ UNCHANGED <<graph, audio, setting>>
    BY <2>1
  <2>2. CASE Hardware /\ UNCHANGED <<graph, audio, setting>>
    BY <2>2
  <2>3. CASE GraphStep
    BY <2>3, GraphType
  <2>4. CASE AudioStep
    BY <2>4, AudioType
  <2>5. CASE Environment
    BY <2>5, EnvironmentType
  <2>6. CASE UNCHANGED vars
    BY <2>6 DEF vars
  <2>7. QED BY <2>1, <2>2, <2>3, <2>4, <2>5, <2>6 DEF Next
<1>2. SUFFICES ASSUME Timers = {}, Consistent PROVE Consistent'
  BY <1>1 DEF IInv, Consistent, Timers
<1>3. CASE SchedStep /\ UNCHANGED <<graph, audio, setting>>
  BY <1>2, <1>3, SchedStepKeeps
<1>4. CASE Hardware /\ UNCHANGED <<graph, audio, setting>>
  BY <1>2, <1>4, HardwareKeeps
<1>5. CASE GraphStep
  BY <1>2, <1>5, GraphStepKeeps
<1>6. CASE AudioStep
  BY <1>2, <1>6, AudioStepKeeps
<1>7. CASE Environment
  BY <1>2, <1>7, EnvironmentKeeps
<1>8. CASE UNCHANGED vars
  BY <1>2, <1>8 DEF vars, Consistent
<1>9. QED BY <1>3, <1>4, <1>5, <1>6, <1>7, <1>8 DEF Next

-----------------------------------------------------------------------------
(* What the invariant implies.                                             *)

\* How often an element is in a sequence that has none twice.
LEMMA CountOnce ==
  ASSUME NEW S, NEW q \in Seq(S), Once(q), NEW m
  PROVE  Count(q, m) = IF In(m, q) THEN 1 ELSE 0
<1>1. DOMAIN q = 1 .. Len(q)
  OBVIOUS
<1>2. CASE In(m, q)
  <2>1. PICK i \in 1 .. Len(q) : q[i] = m
    BY <1>2 DEF In
  <2>2. {j \in DOMAIN q : q[j] = m} = {i}
    BY <1>1, <2>1 DEF Once
  <2>3. Cardinality({i}) = 1
    BY FS_Singleton
  <2>4. QED BY <1>2, <2>2, <2>3 DEF Count
<1>3. CASE ~ In(m, q)
  <2>1. {j \in DOMAIN q : q[j] = m} = {}
    BY <1>1, <1>3 DEF In
  <2>2. Cardinality({}) = 0
    BY FS_EmptySet
  <2>3. QED BY <1>3, <2>1, <2>2 DEF Count
<1>4. QED BY <1>2, <1>3

\* The numbers of the property OneAnswer.
LEMMA HeldOnce ==
  ASSUME TypeInv, Consistent, NEW t \in Tasks
  PROVE  Held(t) = IF Holds(sc, pc, cmdq, t) THEN 1 ELSE 0
<1> DEFINE A == In(t, cmdq)
           B == In(t, sc.audioList)
           C == In(t, sc.gfxList)
           D == OnRSP(sc, pc, t)
           E == sc.rdp = t
           F == Sends(pc, t)
<1>1. /\ cmdq \in Seq(Tasks) /\ sc.audioList \in Seq({"aud"})
      /\ sc.gfxList \in Seq(Tasks \ {"aud"}) /\ ScOK(sc)
  BY DEF TypeInv, ScOK
<1>2. PlaceInv(sc, pc, cmdq)
  BY DEF Consistent, AllInv
<1>3. /\ Count(cmdq, t) = IF A THEN 1 ELSE 0
      /\ Count(sc.audioList, t) = IF B THEN 1 ELSE 0
      /\ Count(sc.gfxList, t) = IF C THEN 1 ELSE 0
  BY <1>1, <1>2, CountOnce DEF PlaceInv
<1>4. ~ (B /\ C)
  BY <1>1, ListKinds
<1>5. /\ A => ~ B /\ ~ C /\ ~ D /\ ~ E /\ ~ F
      /\ B \/ C => ~ D /\ ~ F
      /\ F => ~ E /\ ~ D
  <2>1. F => ~ D
    BY <1>2 DEF PlaceInv, OnRSP, Sends
  <2>2. QED BY <1>2, <2>1 DEF PlaceInv, Listed
<1>6. (sc.rsp = t \/ At("load", t)) <=> D
  BY DEF At, OnRSP
<1>7. At("send", t) <=> F
  BY DEF At, Sends
<1>8. Holds(sc, pc, cmdq, t) <=> A \/ B \/ C \/ D \/ E \/ F
  BY DEF Holds, Listed
<1> HIDE DEF A, B, C, D, E, F
<1>9. ForRSP(t) = IF A \/ B \/ C \/ D THEN 1 ELSE 0
  BY <1>3, <1>4, <1>5, <1>6 DEF ForRSP
<1>10. QED BY <1>5, <1>7, <1>8, <1>9 DEF Held, E

\* Awaited, by the parts of the state it depends on.
LEMMA AwaitedSame ==
  ASSUME NEW t \in Tasks
  PROVE  Awaited(t) <=> AwaitedBy(graph, audio, t)
<1>1. CASE t = "gfx"
  BY <1>1 DEF Awaited, AwaitedBy
<1>2. CASE t = "aud"
  BY <1>2 DEF Awaited, AwaitedBy
<1>3. CASE t \in {"jpeg", "null"}
  BY <1>3 DEF Awaited, AwaitedBy
<1>4. QED BY <1>1, <1>2, <1>3 DEF Tasks

\* The safety properties of the system, in a state.
LEMMA ConsistentSafe ==
  ASSUME TypeInv, IInv
  PROVE  OneAnswer /\ DoneInTime /\ FlushDrains /\ NoTear
<1> SUFFICES ASSUME Timers = {}, Consistent
             PROVE  OneAnswer /\ DoneInTime /\ FlushDrains /\ NoTear
  BY DEF IInv, Consistent, OneAnswer, DoneInTime, FlushDrains, NoTear
<1>0. /\ PlaceInv(sc, pc, cmdq) /\ StateInv(sc, pc)
      /\ ReplyInv(sc, pc, cmdq, reply, graph, audio)
      /\ HardwareInv(sc, iq, hw) /\ FlushInv(sc, pc, cmdq)
      /\ FrameInv(sc, pc, cmdq, disp, gfx, graph)
  BY DEF Consistent, AllInv
<1>1. /\ ScOK(sc) /\ HwOK(hw)
      /\ "gfx" \in Tasks /\ "null" \in Tasks /\ NoTask \notin Tasks /\ NoTask # "gfx"
  BY DEF TypeInv, Tasks, NoTask
<1>2. pc.at = "send" => pc.task \in Tasks
  BY PcFacts DEF TypeInv
<1>3. OneAnswer
  <2>1. ASSUME NEW t \in Tasks PROVE Held(t) + Len(reply[t]) = IF Awaited(t) THEN 1 ELSE 0
    <3>1. Held(t) = IF Holds(sc, pc, cmdq, t) THEN 1 ELSE 0
      BY HeldOnce
    <3>2. /\ Holds(sc, pc, cmdq, t) => AwaitedBy(graph, audio, t)
          /\ reply[t] = IF AwaitedBy(graph, audio, t) /\ ~ Holds(sc, pc, cmdq, t)
                        THEN <<"done">> ELSE <<>>
      BY <1>0 DEF ReplyInv
    <3>3. Awaited(t) <=> AwaitedBy(graph, audio, t)
      BY AwaitedSame
    <3>4. Len(<<"done">>) = 1 /\ Len(<<>>) = 0
      OBVIOUS
    <3>5. QED BY <3>1, <3>2, <3>3, <3>4
  <2>2. QED BY <2>1 DEF OneAnswer
<1>4. DoneInTime
  <2> SUFFICES ASSUME pc.at = "send"
               PROVE  ~ (hw.busy /\ hw.task = pc.task) /\ (pc.task = "gfx" => hw.drawing = "no")
    BY DEF DoneInTime, DoneMeansDone
  <2>1. sc.rsp # pc.task /\ sc.rdp # pc.task
    <3>1. Sends(pc, pc.task) /\ pc.task \in Tasks
      BY <1>2 DEF Sends
    <3>2. QED BY <1>0, <3>1 DEF PlaceInv
  <2>2. hw.busy => hw.task = sc.rsp
    BY <1>0 DEF HardwareInv
  <2>3. hw.drawing # "no" => sc.rdp = "gfx"
    BY <1>0 DEF HardwareInv
  <2>4. QED BY <2>1, <2>2, <2>3
<1>5. FlushDrains
  <2> SUFFICES ASSUME pc.at = "send", pc.task = "null"
               PROVE  /\ sc.rsp = NoTask /\ sc.rdp = NoTask
                      /\ sc.audioList = <<>> /\ sc.gfxList = <<>>
                      /\ ~ hw.busy /\ hw.drawing = "no" /\ hw.working = {}
    BY DEF FlushDrains
  <2>1. /\ sc.rsp = NoTask /\ sc.rdp = NoTask
        /\ sc.audioList = <<>> /\ sc.gfxList = <<>>
    BY <1>0 DEF FlushInv, Sends
  <2>2. ~ hw.busy /\ hw.drawing = "no"
    BY <1>0, <1>1, <2>1 DEF HardwareInv
  <2>3. \A y \in Tasks : ~ In(y, sc.gfxList)
    BY <2>1 DEF In
  <2>4. \A y \in Tasks : "YIELDED" \notin sc.state[y]
    BY <1>0, <2>3 DEF StateInv
  <2>5. \A y \in Tasks : y \notin hw.working
    BY <1>0, <1>1, <2>1, <2>4 DEF HardwareInv
  <2>6. hw.working = {}
    BY <1>1, <2>5 DEF HwOK
  <2>7. QED BY <2>1, <2>2, <2>6
<1>6. NoTear
  <2> SUFFICES ASSUME hw.drawing # "no" PROVE disp.viCur # disp.cfb[gfx.cfb].fb
    BY DEF NoTear
  <2>1. sc.rdp = "gfx"
    BY <1>0 DEF HardwareInv
  <2>2. Holds(sc, pc, cmdq, "gfx") /\ AwaitedBy(graph, audio, "gfx")
    BY <1>0, <1>1, <2>1 DEF Holds, ReplyInv
  <2>3. graph.at # "drain" /\ ~ (graph.at = "send" /\ graph.task = "gfx")
    BY <2>2 DEF AwaitedBy
  <2>4. ~ In("gfx", cmdq)
    BY <1>0, <1>1, <2>1 DEF PlaceInv
  <2>5. ~ (In("gfx", sc.gfxList) /\ "YIELDED" \notin sc.state["gfx"])
    BY <1>0, <2>1 DEF StateInv
  <2>6. InFlight(sc, pc, cmdq, graph) /\ ~ Fresh(sc, pc, cmdq, graph)
    BY <2>2, <2>3, <2>4, <2>5 DEF InFlight, Fresh
  <2>7. QED BY <1>0, <2>6 DEF FrameInv
<1>7. QED BY <1>3, <1>4, <1>5, <1>6

\* What a step may do to a frame that waits to be shown.
LEMMA FrameKeptStep ==
  ASSUME TypeInv, IInv, [Next]_vars, Timers = {}, disp.pending # NoCfb,
         disp'.pending = disp.pending
  PROVE  /\ disp'.cfb[disp.pending].fb = disp.cfb[disp.pending].fb
         /\ disp'.cfb[disp.pending].rate = disp.cfb[disp.pending].rate
<1>0. Consistent /\ DispOK(disp) /\ gfx.cfb \in Cfbs /\ disp.pending \in Cfbs
  BY DEF IInv, Consistent, TypeInv, DispOK
<1>1. CASE disp' = disp
  BY <1>1
<1>2. CASE disp' = RetraceFramebuffers(disp)
  BY <1>0, <1>2, RetraceFacts
<1>3. CASE disp' = SetNextFramebuffer(disp, gfx.cfb)
  BY <1>0, <1>3, SwapFacts
<1>4. CASE disp' = [disp EXCEPT !.viCur = disp.viNext]
  BY <1>0, <1>4 DEF DispOK
<1>5. CASE GraphStep /\ GraphBuild
  <2>1. pc = Main /\ graph.at = "build"
    BY <1>0, <1>5, Idle DEF GraphStep, GraphBuild
  <2>2. ~ InFlight(sc, pc, cmdq, graph)
    <3>1. ~ AwaitedBy(graph, audio, "gfx") /\ "gfx" \in Tasks
      BY <2>1 DEF AwaitedBy, Tasks
    <3>2. ~ Holds(sc, pc, cmdq, "gfx")
      BY <3>1, <1>0 DEF Consistent, AllInv, ReplyInv
    <3>3. QED BY <2>1, <3>2 DEF InFlight
  <2>3. disp.pending = (graph.cfbIndex + 2) % 3 /\ graph.cfbIndex \in 0 .. 2
    BY <1>0, <2>2 DEF Consistent, AllInv, FrameInv, TypeInv, GraphOK, Cfbs
  <2>4. disp.pending # graph.cfbIndex
    BY <2>3
  <2>5. PICK rate : disp' = [disp EXCEPT !.cfb[graph.cfbIndex].fb = graph.fbIndex,
                                         !.cfb[graph.cfbIndex].rate = rate]
    BY <1>5 DEF GraphBuild
  <2>6. disp'.cfb[disp.pending] = disp.cfb[disp.pending]
    BY <1>0, <2>4, <2>5 DEF DispOK
  <2>7. QED BY <2>6
<1>6. QED
  <2>1. CASE SchedStep
    <3>1. CASE HandleRetrace
      BY <3>1, <1>2 DEF HandleRetrace
    <3>2. CASE SendDone
      <4>1. disp' = disp \/ disp' = SetNextFramebuffer(disp, gfx.cfb)
        <5>1. IF pc.task = "null" THEN pc.then = "end" ELSE pc.then \in {"rsp", "rdp"}
          BY <1>0, <3>2 DEF SendDone, Consistent, AllInv, CalmInv
        <5>2. CASE pc.then \in {"rsp", "rdp"}
          BY <3>2, <5>2 DEF SendDone
        <5>3. CASE pc.then = "end"
          BY <3>2, <5>3 DEF SendDone
        <5>4. QED BY <5>1, <5>2, <5>3
      <4>2. QED BY <4>1, <1>1, <1>3
    <3>3. CASE ~ HandleRetrace /\ ~ SendDone
      BY <2>1, <3>3, <1>1 DEF SchedStep, HandleNotify, HandleRSPDone, HandleRDPDone,
         HandleAudioCancel, HandleGfxCancel, FinishHalt, RunTask
    <3>4. QED BY <3>1, <3>2, <3>3
  <2>2. CASE Hardware
    BY <2>2, <1>1, HardwareType
  <2>3. CASE GraphStep
    <3>1. CASE GraphBuild
      BY <2>3, <3>1, <1>5
    <3>2. CASE ~ GraphBuild
      BY <2>3, <3>2, <1>1 DEF GraphStep, GameStateInit, GameStateDestroy, GraphStartTask,
         GraphStartFrame, GraphReceive, GraphGot, GraphDrain, GraphSend, GraphKick, GraphAnswer,
         GraphUnchanged
    <3>3. QED BY <3>1, <3>2
  <2>4. CASE AudioStep
    BY <2>4, <1>1, AudioType
  <2>5. CASE Environment
    <3>1. Retrace
      BY <2>5 DEF Environment, GraphTimeout, AudioTimeout
    <3>2. QED BY <3>1, <1>4 DEF Retrace
  <2>6. CASE UNCHANGED vars
    BY <2>6, <1>1 DEF vars
  <2>7. QED BY <2>1, <2>2, <2>3, <2>4, <2>5, <2>6 DEF Next

-----------------------------------------------------------------------------
(* The linked lists, whether timers expire or not.                         *)

\* What the bits of a task's state say of its place, whether timers expire or not.
BitsInv(s, p) ==
    /\ \A t \in Tasks : Listed(s, t) \/ OnRSP(s, p, t) => "SP" \in s.state[t]
    /\ "YIELDED" \notin s.state["aud"] /\ "YIELDED" \notin s.state["null"]
    /\ s.rdp \in {NoTask, "gfx"}
    /\ s.rdp = "gfx" => "DP" \in s.state["gfx"]
    /\ In("gfx", s.gfxList) /\ "YIELDED" \notin s.state["gfx"] => "DP" \in s.state["gfx"] /\ s.rdp # "gfx"
    /\ s.rsp # "null"
    /\ p.at = "load" =>
          /\ p.task # "null"
          /\ p.dp => p.task = "gfx" /\ s.rdp = NoTask /\ "DP" \in s.state["gfx"]

\* No task has been asked to yield.
NoYields(s) == \A t \in Tasks : "YIELD" \notin s.state[t] /\ "YIELDED" \notin s.state[t]

\* B says that nothing ever yields.
LinkInv(s, p, c, B) == PlaceInv(s, p, c) /\ BitsInv(s, p) /\ (B => NoYields(s))

-----------------------------------------------------------------------------
(* What the handlers do to the lists.                                      *)

\* Sched_Schedule keeps it, and the tasks that the scheduler holds.
LEMMA ScheduleLinks ==
  ASSUME NEW s, ScOK(s), NEW c, NEW B, LinkInv(s, Main, c, B),
         NEW valid \in BOOLEAN, ScheduleAndRun(s, valid)
  PROVE  /\ LinkInv(sc', pc', c, B)
         /\ \A y \in Tasks : Holds(sc', pc', c, y) <=> Holds(s, Main, c, y)
<1>1. CASE sc' = s /\ pc' = Main
  BY <1>1
<1>2. ASSUME NEW t \in Tasks, Chosen(s, t, sc', pc', valid)
      PROVE  /\ LinkInv(sc', pc', c, B)
             /\ \A y \in Tasks : Holds(sc', pc', c, y) <=> Holds(s, Main, c, y)
  <2> DEFINE u == sc'
             p == pc'
  <2>0. Chosen(s, t, u, p, valid)
    BY <1>2
  <2> HIDE DEF u, p
  <2>1. /\ \A y \in Tasks : Holds(u, p, c, y) <=> Holds(s, Main, c, y)
        /\ \A y \in Tasks : OnRSP(u, p, y) \/ Sends(p, y) <=> y = t
        /\ \A y : Listed(u, y) <=> Listed(s, y) /\ y # t
        /\ \A y : ~ OnRSP(s, Main, y) \/ y = NoTask
        /\ \A y : ~ Sends(Main, y)
    BY <2>0, ChosenHolds
  <2>2. NoTask \notin Tasks /\ Main.at = "main" /\ "null" \in Tasks /\ "gfx" \in Tasks /\ "aud" \in Tasks
    BY Places DEF Tasks, NoTask
  <2>3. /\ s.rsp = NoTask /\ u.rsp = NoTask /\ u.rdp = s.rdp /\ Listed(s, t)
        /\ \A y \in Tasks : y # "null" => u.state[y] = s.state[y]
        /\ Once(u.audioList) /\ Once(u.gfxList)
        /\ \A y : In(y, u.gfxList) <=> In(y, s.gfxList) /\ y # t
    BY <2>0 DEF Chosen
  <2>4. \/ /\ t = "null" /\ p.at = "send" /\ p.task = "null" /\ s.rdp = NoTask
           /\ u.state["null"] = s.state["null"] \ {"SP", "DP"}
        \/ /\ t # "null" /\ p.at = "load" /\ p.task = t /\ u.state["null"] = s.state["null"]
           /\ p.dp <=> t = "gfx" /\ "YIELDED" \notin s.state[t]
           /\ p.dp => s.rdp = NoTask
    BY <2>0, Places DEF Chosen
  <2>p. PlaceInv(u, p, c)
    <3>1. PlaceInv(s, Main, c)
      BY DEF LinkInv
    <3>2. \A y \in Tasks : In(y, c) => y # t
      BY <3>1, <2>3 DEF PlaceInv
    <3>3. t = "null" => s.rdp = NoTask
      BY <2>4
    <3>4. \A y \in Tasks : Sends(p, y) => y = t /\ t = "null"
      BY <2>4, <2>1 DEF Sends
    <3>5. QED BY <3>1, <3>2, <3>3, <3>4, <2>1, <2>2, <2>3 DEF PlaceInv, OnRSP
  <2>b. BitsInv(u, p)
    <3>1. BitsInv(s, Main)
      BY DEF LinkInv
    <3>2. \A y \in Tasks : Listed(u, y) \/ OnRSP(u, p, y) => "SP" \in u.state[y]
      BY <3>1, <2>1, <2>2, <2>3, <2>4 DEF BitsInv, OnRSP, Sends
    <3>3. /\ "YIELDED" \notin u.state["aud"] /\ "YIELDED" \notin u.state["null"]
          /\ u.rdp \in {NoTask, "gfx"} /\ u.rsp # "null"
          /\ u.state["gfx"] = s.state["gfx"]
      BY <3>1, <2>2, <2>3, <2>4 DEF BitsInv, Tasks, NoTask
    <3>4. t = "gfx" => In("gfx", s.gfxList)
      BY <2>3, ListKinds DEF Listed
    <3>5. p.at = "load" =>
             p.task # "null" /\ (p.dp => p.task = "gfx" /\ u.rdp = NoTask /\ "DP" \in u.state["gfx"])
      BY <3>1, <3>3, <3>4, <2>3, <2>4 DEF BitsInv
    <3>6. QED BY <3>1, <3>2, <3>3, <3>5, <2>3 DEF BitsInv
  <2>y. B => NoYields(u)
    BY <2>3, <2>4 DEF LinkInv, NoYields
  <2>5. QED BY <2>1, <2>p, <2>b, <2>y DEF LinkInv, u, p
<1>3. Once(s.audioList) /\ Once(s.gfxList) /\ "YIELDED" \notin s.state["null"]
  BY DEF LinkInv, PlaceInv, BitsInv
<1>4. QED BY <1>1, <1>2, <1>3, Scheduled

\* Sched_QueueTask keeps it.
LEMMA QueueLinks ==
  ASSUME NEW s, ScOK(s), NEW c \in Seq(Tasks), NEW B, LinkInv(s, Main, c, B)
  PROVE  /\ LinkInv(QueueTasks(s, c), Main, <<>>, B)
         /\ \A y \in Tasks : Holds(QueueTasks(s, c), Main, <<>>, y) <=> Holds(s, Main, c, y)
<1> DEFINE u == QueueTasks(s, c)
<1>1. PlaceInv(s, Main, c) /\ BitsInv(s, Main)
  BY DEF LinkInv
<1>2. /\ u.rsp = s.rsp /\ u.rdp = s.rdp
      /\ \A t \in Tasks : Listed(u, t) <=> Listed(s, t) \/ In(t, c)
      /\ \A t \in Tasks : In(t, u.gfxList) <=> In(t, s.gfxList) \/ (In(t, c) /\ t # "aud")
      /\ Once(u.audioList) /\ Once(u.gfxList)
      /\ \A t \in Tasks : ~ In(t, c) => u.state[t] = s.state[t]
      /\ \A t \in Tasks : In(t, c) => u.state[t] = IF t \in NeedsRDP THEN {"SP", "DP"} ELSE {"SP"}
  <2>1. Once(s.audioList) /\ Once(s.gfxList) /\ Once(c) /\ \A t \in Tasks : In(t, c) => ~ Listed(s, t)
    BY <1>1 DEF PlaceInv
  <2>2. QED BY <2>1, QueueFacts
<1> HIDE DEF u
<1>3. /\ Main.at = "main" /\ Once(<<>>)
      /\ \A t : ~ In(t, <<>>)
      /\ \A t : ~ Sends(Main, t)
      /\ \A t : OnRSP(u, Main, t) <=> s.rsp = t
      /\ \A t : OnRSP(s, Main, t) <=> s.rsp = t
  <2>1. Main.at = "main" /\ \A t : ~ In(t, <<>>)
    BY Places DEF In
  <2>2. Once(<<>>)
    BY DEF Once
  <2>3. QED BY <2>1, <2>2, <1>2 DEF Sends, OnRSP
<1>4. \A t \in Tasks : Holds(u, Main, <<>>, t) <=> Holds(s, Main, c, t)
  BY <1>2, <1>3 DEF Holds
<1>p. PlaceInv(u, Main, <<>>)
  BY <1>1, <1>2, <1>3 DEF PlaceInv
<1>5. \A t \in Tasks : In(t, c) => ~ Listed(s, t) /\ s.rsp # t /\ s.rdp # t
  BY <1>1, <1>3 DEF PlaceInv
<1>6. {"aud", "null", "gfx"} \subseteq Tasks /\ "gfx" \in NeedsRDP
  BY DEF Tasks, NeedsRDP
<1>b. BitsInv(u, Main)
  <2>1. \A t \in Tasks : Listed(u, t) \/ OnRSP(u, Main, t) => "SP" \in u.state[t]
    BY <1>1, <1>2, <1>3 DEF BitsInv
  <2>2. "YIELDED" \notin u.state["aud"] /\ "YIELDED" \notin u.state["null"]
    BY <1>1, <1>2, <1>6 DEF BitsInv
  <2>3. CASE In("gfx", c)
    <3>1. s.rdp # "gfx" /\ u.state["gfx"] = {"SP", "DP"}
      BY <2>3, <1>2, <1>5, <1>6
    <3>2. QED BY <3>1, <1>1, <1>2, <1>3, <2>1, <2>2 DEF BitsInv
  <2>4. CASE ~ In("gfx", c)
    <3>1. u.state["gfx"] = s.state["gfx"] /\ (In("gfx", u.gfxList) <=> In("gfx", s.gfxList))
      BY <2>4, <1>2, <1>6
    <3>2. QED BY <3>1, <1>1, <1>2, <1>3, <2>1, <2>2 DEF BitsInv
  <2>5. QED BY <2>3, <2>4
<1>y. B => NoYields(u)
  <2>1. \A t \in Tasks : In(t, c) => "YIELD" \notin u.state[t] /\ "YIELDED" \notin u.state[t]
    BY <1>2
  <2>2. QED BY <2>1, <1>2 DEF LinkInv, NoYields
<1>7. QED BY <1>4, <1>p, <1>b, <1>y DEF LinkInv, u

\* Sched_HandleNotify keeps it: what makes a task yield is an audio task.
LEMMA NotifyLinks ==
  ASSUME ScOK(sc), cmdq \in Seq(Tasks), NEW B, LinkInv(sc, Main, cmdq, B),
         B => ~ Holds(sc, Main, cmdq, "aud"), Notify
  PROVE  /\ LinkInv(sc', pc', cmdq', B)
         /\ \A y \in Tasks : Holds(sc', pc', cmdq', y) <=> Holds(sc, Main, cmdq, y)
<1> DEFINE s == QueueTasks(sc, cmdq)
           valid == TaskFramebuffersValid'
<1>1. /\ LinkInv(s, Main, <<>>, B)
      /\ \A y \in Tasks : Holds(s, Main, <<>>, y) <=> Holds(sc, Main, cmdq, y)
  BY QueueLinks
<1>2. ScOK(s)
  BY QueueType
<1>3. cmdq' = <<>>
  BY DEF Notify
<1>4. CASE s.audioList # <<>> /\ s.rsp # NoTask
  <2>1. CASE s.rsp = "aud" \/ "YIELD" \in s.state[s.rsp]
    <3>1. sc' = s /\ pc' = Main
      BY <1>4, <2>1 DEF Notify
    <3> HIDE DEF s
    <3>2. QED BY <3>1, <1>1, <1>3
  <2>2. CASE ~ (s.rsp = "aud" \/ "YIELD" \in s.state[s.rsp])
    <3>1. sc' = [s EXCEPT !.state[s.rsp] = @ \cup {"YIELD"}] /\ pc' = Main
      BY <1>4, <2>2 DEF Notify
    <3> HIDE DEF s
    <3>2. /\ sc'.audioList = s.audioList /\ sc'.gfxList = s.gfxList /\ sc'.rsp = s.rsp
          /\ sc'.rdp = s.rdp
          /\ \A t \in Tasks : sc'.state[t] = IF t = s.rsp THEN s.state[t] \cup {"YIELD"} ELSE s.state[t]
      <4> DEFINE st == [s.state EXCEPT ![s.rsp] = @ \cup {"YIELD"}]
      <4>1. sc' = [s EXCEPT !.state = st]
        BY <3>1, <1>2 DEF ScOK
      <4>2. \A t \in Tasks : st[t] = IF t = s.rsp THEN s.state[t] \cup {"YIELD"} ELSE s.state[t]
        BY <1>2 DEF ScOK
      <4> HIDE DEF st
      <4>3. sc'.state = st
        BY <4>1, <1>2 DEF ScOK
      <4>4. QED BY <4>1, <4>2, <4>3, <1>2 DEF ScOK
    <3>3. \A t \in Tasks : \A e \in {"SP", "DP", "YIELDED"} : e \in sc'.state[t] <=> e \in s.state[t]
      <4> SUFFICES ASSUME NEW t \in Tasks, NEW e \in {"SP", "DP", "YIELDED"}
                   PROVE  e \in sc'.state[t] <=> e \in s.state[t]
        OBVIOUS
      <4>1. CASE t = s.rsp
        <5>1. sc'.state[t] = s.state[t] \cup {"YIELD"}
          BY <4>1, <3>2
        <5>2. QED BY <5>1
      <4>2. CASE t # s.rsp
        <5>1. sc'.state[t] = s.state[t]
          BY <4>2, <3>2
        <5>2. QED BY <5>1
      <4>3. QED BY <4>1, <4>2
    <3>4. \A t : /\ Listed(sc', t) <=> Listed(s, t)
                 /\ OnRSP(sc', Main, t) <=> OnRSP(s, Main, t)
                 /\ Holds(sc', Main, <<>>, t) <=> Holds(s, Main, <<>>, t)
      BY <3>2 DEF Listed, OnRSP, Holds
    <3>5. PlaceInv(sc', Main, <<>>)
      BY <1>1, <3>2, <3>4 DEF LinkInv, PlaceInv
    <3>6. BitsInv(sc', Main)
      <4>1. "gfx" \in Tasks /\ "aud" \in Tasks /\ "null" \in Tasks
        BY DEF Tasks
      <4>2. QED BY <1>1, <3>2, <3>3, <3>4, <4>1, Places DEF LinkInv, BitsInv
    <3>7. ~ B
      <4>1. In("aud", s.audioList)
        <5>1. s.audioList \in Seq({"aud"})
          BY <1>2 DEF ScOK
        <5>2. Head(s.audioList) = "aud" /\ In(Head(s.audioList), s.audioList)
          BY <5>1, <1>4, TailIn
        <5>3. QED BY <5>2
      <4>2. Holds(s, Main, <<>>, "aud") /\ "aud" \in Tasks
        BY <4>1 DEF Holds, Listed, Tasks
      <4>3. QED BY <4>2, <1>1
    <3>8. QED BY <3>1, <3>4, <3>5, <3>6, <3>7, <1>1, <1>3 DEF LinkInv
  <2>3. QED BY <2>1, <2>2
<1>5. CASE ~ (s.audioList # <<>> /\ s.rsp # NoTask)
  <2>1. ScheduleAndRun(s, valid)
    BY <1>5 DEF Notify
  <2>2. valid \in BOOLEAN
    BY DEF TaskFramebuffersValid
  <2> HIDE DEF s, valid
  <2>3. QED BY <2>1, <2>2, <1>1, <1>2, <1>3, ScheduleLinks
<1>6. QED BY <1>4, <1>5

\* The RSP's task has yielded, and is the first of its list again.
LEMMA YieldedLinks ==
  ASSUME TypeInv, NEW B, LinkInv(sc, Main, cmdq, B), sc.rsp # NoTask, "YIELD" \in sc.state[sc.rsp]
  PROVE  /\ LinkInv(RSPYielded, Main, cmdq, B)
         /\ \A y \in Tasks : Holds(RSPYielded, Main, cmdq, y) <=> Holds(sc, Main, cmdq, y)
<1> DEFINE u == RSPYielded
           t == sc.rsp
<1>0. /\ PlaceInv(sc, Main, cmdq) /\ BitsInv(sc, Main) /\ ScOK(sc) /\ "YIELD" \notin sc.state["aud"]
  BY DEF LinkInv, TypeInv
<1>1. /\ t \in Tasks /\ u.audioList = sc.audioList /\ u.gfxList = <<t>> \o sc.gfxList
      /\ u.rsp = NoTask /\ u.rdp = sc.rdp
      /\ BitsBut(u, sc, t, "YIELDED") /\ "YIELDED" \in u.state[t]
  BY <1>0, DoneFields, DoneBits
<1>2. t # "aud" /\ t # "null" /\ t # NoTask
  BY <1>0 DEF BitsInv
<1>3. /\ Main.at = "main" /\ "SP" \in Bits /\ "DP" \in Bits /\ "YIELDED" \in Bits
      /\ "gfx" \in Tasks /\ "aud" \in Tasks /\ "null" \in Tasks /\ NoTask \notin Tasks
  BY Places DEF Bits, Tasks, NoTask
<1>4. sc.gfxList \in Seq(Tasks) /\ sc.gfxList \in Seq(Tasks \ {"aud"})
  BY <1>0 DEF ScOK, Tasks
<1> HIDE DEF u, t
<1>5. ~ Listed(sc, t) /\ ~ In(t, cmdq)
  BY <1>0, <1>1 DEF PlaceInv, OnRSP, t
<1>6. (\A y : In(y, u.gfxList) <=> y = t \/ In(y, sc.gfxList)) /\ Once(u.gfxList)
  <2>1. /\ <<t>> \in Seq(Tasks) /\ Once(<<t>>)
        /\ \A y : In(y, <<t>>) <=> y = t
    BY <1>1 DEF Once, In
  <2>2. \A y : ~ (In(y, <<t>>) /\ In(y, sc.gfxList))
    BY <2>1, <1>5 DEF Listed
  <2>3. Once(sc.gfxList)
    BY <1>0 DEF PlaceInv
  <2> DEFINE v == <<t>>
  <2> HIDE DEF v
  <2>4. v \in Seq(Tasks) /\ Once(v) /\ (\A y : In(y, v) <=> y = t)
        /\ (\A y : ~ (In(y, v) /\ In(y, sc.gfxList))) /\ u.gfxList = v \o sc.gfxList
    BY <2>1, <2>2, <1>1 DEF v
  <2>5. (\A y : In(y, v \o sc.gfxList) <=> In(y, v) \/ In(y, sc.gfxList)) /\ Once(v \o sc.gfxList)
    BY <2>3, <2>4, <1>4, ConcatIn
  <2>6. QED BY <2>4, <2>5
<1>7. \A y \in Tasks : /\ "SP" \in u.state[y] <=> "SP" \in sc.state[y]
                       /\ "DP" \in u.state[y] <=> "DP" \in sc.state[y]
                       /\ "YIELDED" \in u.state[y] <=> "YIELDED" \in sc.state[y] \/ y = t
  BY <1>1, <1>3 DEF BitsBut
<1>8. /\ \A y \in Tasks : Listed(u, y) <=> Listed(sc, y) \/ y = t
      /\ \A y \in Tasks : OnRSP(sc, Main, y) <=> y = t
      /\ \A y \in Tasks : ~ OnRSP(u, Main, y) /\ ~ Sends(Main, y)
  BY <1>1, <1>3, <1>6 DEF Listed, OnRSP, Sends, t
<1>9. \A y \in Tasks : Holds(u, Main, cmdq, y) <=> Holds(sc, Main, cmdq, y)
  BY <1>1, <1>8 DEF Holds
<1>p. PlaceInv(u, Main, cmdq)
  BY <1>0, <1>1, <1>3, <1>5, <1>6, <1>8 DEF PlaceInv
<1>b. BitsInv(u, Main)
  <2>1. \A y \in Tasks : Listed(u, y) \/ OnRSP(u, Main, y) => "SP" \in u.state[y]
    BY <1>0, <1>7, <1>8 DEF BitsInv
  <2>2. QED BY <1>0, <1>1, <1>2, <1>3, <1>6, <1>7, <2>1 DEF BitsInv
<1>y. ~ B
  BY <1>1, <1>3 DEF LinkInv, NoYields, t
<1>10. QED BY <1>9, <1>p, <1>b, <1>y DEF LinkInv, u

\* The RSP's task is done there; it is answered if that is all.
LEMMA RSPDoneLinks ==
  ASSUME TypeInv, NEW B, LinkInv(sc, Main, cmdq, B), sc.rsp # NoTask, NEW p,
         IF RSPDone.state[sc.rsp] \cap {"SP", "DP"} = {} THEN p = Sending(sc.rsp, "rsp") ELSE p = Main
  PROVE  /\ LinkInv(RSPDone, p, cmdq, B)
         /\ \A y \in Tasks : Holds(RSPDone, p, cmdq, y) => Holds(sc, Main, cmdq, y)
<1> DEFINE u == RSPDone
           t == sc.rsp
<1>0. PlaceInv(sc, Main, cmdq) /\ BitsInv(sc, Main) /\ ScOK(sc)
  BY DEF LinkInv, TypeInv
<1>1. /\ t \in Tasks /\ u.audioList = sc.audioList /\ u.gfxList = sc.gfxList
      /\ u.rsp = NoTask /\ u.rdp = sc.rdp
      /\ BitsBut(u, sc, t, "SP") /\ "SP" \notin u.state[t]
  BY <1>0, DoneFields, DoneBits
<1>2. t # "null" /\ t # NoTask
  BY <1>0 DEF BitsInv
<1>3. /\ Main.at = "main" /\ "SP" \in Bits /\ "DP" \in Bits /\ "YIELDED" \in Bits /\ "YIELD" \in Bits
      /\ "gfx" \in Tasks /\ "aud" \in Tasks /\ "null" \in Tasks /\ NoTask \notin Tasks
      /\ NoTask # "null"
  BY Places DEF Bits, Tasks, NoTask
<1>4. \/ "DP" \notin u.state[t] /\ p.at = "send" /\ p.task = t
      \/ "DP" \in u.state[t] /\ p = Main /\ p.at = "main"
  <2>1. CASE u.state[t] \cap {"SP", "DP"} = {}
    <3>1. p = Sending(t, "rsp") /\ "DP" \notin u.state[t]
      BY <2>1
    <3>2. QED BY <3>1, Places
  <2>2. CASE u.state[t] \cap {"SP", "DP"} # {}
    <3>1. p = Main /\ "DP" \in u.state[t]
      BY <2>2, <1>1
    <3>2. QED BY <3>1, Places
  <2>3. QED BY <2>1, <2>2
<1> HIDE DEF u, t
<1>5. \A y \in Tasks : /\ "SP" \in u.state[y] <=> "SP" \in sc.state[y] /\ y # t
                       /\ "DP" \in u.state[y] <=> "DP" \in sc.state[y]
                       /\ "YIELD" \in u.state[y] <=> "YIELD" \in sc.state[y]
                       /\ "YIELDED" \in u.state[y] <=> "YIELDED" \in sc.state[y]
  BY <1>1, <1>3 DEF BitsBut
<1>6. sc.rdp = t => "DP" \in u.state[t]
  BY <1>0, <1>1, <1>2, <1>5 DEF BitsInv
<1>7. /\ \A y \in Tasks : Listed(u, y) <=> Listed(sc, y)
      /\ \A y \in Tasks : OnRSP(sc, Main, y) <=> y = t
      /\ \A y \in Tasks : ~ OnRSP(u, p, y)
      /\ \A y \in Tasks : ~ Sends(Main, y)
      /\ \A y \in Tasks : Sends(p, y) => y = t /\ sc.rdp # t
  BY <1>1, <1>3, <1>4, <1>6 DEF Listed, OnRSP, Sends, t
<1>8. \A y \in Tasks : Holds(u, p, cmdq, y) => Holds(sc, Main, cmdq, y)
  BY <1>1, <1>7 DEF Holds
<1>9. ~ In(t, cmdq) /\ ~ Listed(sc, t)
  BY <1>0, <1>1, <1>7 DEF PlaceInv
<1>p. PlaceInv(u, p, cmdq)
  BY <1>0, <1>1, <1>3, <1>4, <1>7, <1>9 DEF PlaceInv
<1>b. BitsInv(u, p)
  <2>1. \A y \in Tasks : Listed(u, y) \/ OnRSP(u, p, y) => "SP" \in u.state[y]
    BY <1>0, <1>5, <1>7, <1>9 DEF BitsInv
  <2>2. p.at # "load"
    BY <1>4
  <2>3. QED BY <1>0, <1>1, <1>3, <1>5, <2>1, <2>2 DEF BitsInv
<1>y. B => NoYields(u)
  BY <1>5 DEF LinkInv, NoYields
<1>10. QED BY <1>8, <1>p, <1>b, <1>y DEF LinkInv, u

\* The RDP's task is done there; it is answered if that is all.
LEMMA RDPDoneLinks ==
  ASSUME TypeInv, NEW B, LinkInv(sc, Main, cmdq, B), sc.rdp # NoTask, NEW p,
         IF RDPDone.state[sc.rdp] \cap {"SP", "DP"} = {} THEN p = Sending(sc.rdp, "rdp") ELSE p = Main
  PROVE  /\ LinkInv(RDPDone, p, cmdq, B)
         /\ \A y \in Tasks : Holds(RDPDone, p, cmdq, y) => Holds(sc, Main, cmdq, y)
<1> DEFINE u == RDPDone
           t == sc.rdp
<1>0. PlaceInv(sc, Main, cmdq) /\ BitsInv(sc, Main) /\ ScOK(sc)
  BY DEF LinkInv, TypeInv
<1>1. /\ t \in Tasks /\ u.audioList = sc.audioList /\ u.gfxList = sc.gfxList
      /\ u.rsp = sc.rsp /\ u.rdp = NoTask
      /\ BitsBut(u, sc, t, "DP") /\ "DP" \notin u.state[t]
  BY <1>0, DoneFields, DoneBits
<1>2. t = "gfx"
  BY <1>0 DEF BitsInv
<1>3. /\ Main.at = "main" /\ "SP" \in Bits /\ "DP" \in Bits /\ "YIELDED" \in Bits /\ "YIELD" \in Bits
      /\ "gfx" \in Tasks /\ "aud" \in Tasks /\ "null" \in Tasks /\ NoTask \notin Tasks
      /\ NoTask # "gfx"
  BY Places DEF Bits, Tasks, NoTask
<1>4. \/ "SP" \notin u.state[t] /\ p.at = "send" /\ p.task = t
      \/ "SP" \in u.state[t] /\ p = Main /\ p.at = "main"
  <2>1. CASE u.state[t] \cap {"SP", "DP"} = {}
    <3>1. p = Sending(t, "rdp") /\ "SP" \notin u.state[t]
      BY <2>1
    <3>2. QED BY <3>1, Places
  <2>2. CASE u.state[t] \cap {"SP", "DP"} # {}
    <3>1. p = Main /\ "SP" \in u.state[t]
      BY <2>2, <1>1
    <3>2. QED BY <3>1, Places
  <2>3. QED BY <2>1, <2>2
<1>t. sc.rdp = t
  OBVIOUS
<1> HIDE DEF u, t
<1>5. \A y \in Tasks : /\ "SP" \in u.state[y] <=> "SP" \in sc.state[y]
                       /\ "DP" \in u.state[y] <=> "DP" \in sc.state[y] /\ y # t
                       /\ "YIELD" \in u.state[y] <=> "YIELD" \in sc.state[y]
                       /\ "YIELDED" \in u.state[y] <=> "YIELDED" \in sc.state[y]
  BY <1>1, <1>3 DEF BitsBut
<1>6. Sends(p, t) => ~ Listed(sc, t) /\ sc.rsp # t
  BY <1>0, <1>1, <1>3, <1>4, <1>5 DEF BitsInv, Sends, OnRSP
<1>7. /\ \A y \in Tasks : Listed(u, y) <=> Listed(sc, y)
      /\ \A y \in Tasks : OnRSP(u, p, y) <=> OnRSP(sc, Main, y)
      /\ \A y \in Tasks : OnRSP(sc, Main, y) <=> sc.rsp = y
      /\ \A y \in Tasks : ~ Sends(Main, y)
      /\ \A y \in Tasks : Sends(p, y) => y = t
  BY <1>1, <1>3, <1>4 DEF Listed, OnRSP, Sends
<1>8. \A y \in Tasks : Holds(u, p, cmdq, y) => Holds(sc, Main, cmdq, y)
  BY <1>1, <1>3, <1>7, <1>t DEF Holds
<1>9. ~ In(t, cmdq)
  BY <1>0, <1>1, <1>t DEF PlaceInv
<1>p. PlaceInv(u, p, cmdq)
  BY <1>0, <1>1, <1>3, <1>4, <1>6, <1>7, <1>9 DEF PlaceInv
<1>b. BitsInv(u, p)
  <2>1. \A y \in Tasks : Listed(u, y) \/ OnRSP(u, p, y) => "SP" \in u.state[y]
    BY <1>0, <1>5, <1>7 DEF BitsInv
  <2>2. p.at # "load"
    BY <1>4
  <2>3. In("gfx", u.gfxList) /\ "YIELDED" \notin u.state["gfx"] => FALSE
    BY <1>0, <1>1, <1>2, <1>3, <1>5, <1>t DEF BitsInv
  <2>4. QED BY <1>0, <1>1, <1>3, <1>5, <2>1, <2>2, <2>3 DEF BitsInv
<1>y. B => NoYields(u)
  BY <1>5 DEF LinkInv, NoYields
<1>10. QED BY <1>8, <1>p, <1>b, <1>y DEF LinkInv, u

\* The rest of a handler that has cleared the task of a processor.
LEMMA CompleteLinks ==
  ASSUME NEW s, ScOK(s), NEW t \in Tasks, NEW then, TaskComplete(s, t, then), NEW B,
         \A p : (IF s.state[t] \cap {"SP", "DP"} = {} THEN p = Sending(t, then) ELSE p = Main) =>
                   /\ LinkInv(s, p, cmdq, B)
                   /\ \A y \in Tasks : Holds(s, p, cmdq, y) => Holds(sc, Main, cmdq, y)
  PROVE  /\ LinkInv(sc', pc', cmdq, B)
         /\ \A y \in Tasks : Holds(sc', pc', cmdq, y) => Holds(sc, Main, cmdq, y)
<1>1. CASE s.state[t] \cap {"SP", "DP"} = {}
  <2>1. sc' = s /\ pc' = Sending(t, then)
    BY <1>1 DEF TaskComplete
  <2>2. QED BY <1>1, <2>1
<1>2. CASE s.state[t] \cap {"SP", "DP"} # {}
  <2>1. ScheduleAndRun(s, TaskFramebuffersValid)
    BY <1>2 DEF TaskComplete
  <2>2. LinkInv(s, Main, cmdq, B) /\ \A y \in Tasks : Holds(s, Main, cmdq, y) => Holds(sc, Main, cmdq, y)
    BY <1>2
  <2>3. TaskFramebuffersValid \in BOOLEAN
    BY DEF TaskFramebuffersValid
  <2>4. QED BY <2>1, <2>2, <2>3, ScheduleLinks
<1>3. QED BY <1>1, <1>2

\* A message that is not posted is in the queue only if it was.
LEMMA PostIn ==
  ASSUME NEW q \in Seq(IrqMesgs), NEW m \in IrqMesgs
  PROVE  \A y : In(y, Post(q, m)) => In(y, q) \/ y = m
BY AppendIn DEF Post

LEMMA TailFrom ==
  ASSUME NEW S, NEW q \in Seq(S), q # <<>>
  PROVE  \A y : In(y, Tail(q)) => In(y, q)
<1>1. /\ Len(Tail(q)) = Len(q) - 1 /\ Len(q) \in Nat
      /\ \A i \in 1 .. Len(q) - 1 : Tail(q)[i] = q[i + 1]
  BY HeadTailProperties
<1>2. QED BY <1>1 DEF In

\* The handlers do not cancel the graph thread's task of themselves.
LEMMA SchedCancels ==
  ASSUME TypeInv, SchedStep
  PROVE  In("gfxCancel", iq') => In("gfxCancel", iq)
<1>1. /\ iq \in Seq(IrqMesgs) /\ "rspDone" \in IrqMesgs /\ "rdpDone" \in IrqMesgs
  BY DEF TypeInv, IrqMesgs
<1> DEFINE Less(q) == q \in Seq(IrqMesgs) /\ (In("gfxCancel", q) => In("gfxCancel", iq))
<1>2. Less(iq) /\ (iq # <<>> => Less(Tail(iq)))
  BY <1>1, TailFrom, TailIn
<1>3. \A q : Less(q) => Less(Post(q, "rspDone")) /\ Less(HaltRDP(q))
  <2> SUFFICES ASSUME NEW q, Less(q) PROVE Less(Post(q, "rspDone")) /\ Less(HaltRDP(q))
    OBVIOUS
  <2>1. Less(Post(q, "rspDone")) /\ Less(Post(q, "rdpDone"))
    BY <1>1, PostIn, PostType
  <2>2. QED BY <2>1 DEF HaltRDP
<1> HIDE DEF Less
<1>4. ASSUME HandleNotify \/ HandleRetrace \/ HandleRSPDone \/ HandleRDPDone PROVE Less(iq')
  BY <1>2, <1>4 DEF HandleNotify, HandleRetrace, HandleRSPDone, HandleRDPDone, Receive
<1>5. ASSUME HandleAudioCancel PROVE Less(iq')
  BY <1>2, <1>3, <1>5 DEF HandleAudioCancel
<1>6. ASSUME HandleGfxCancel PROVE Less(iq')
  BY <1>2, <1>3, <1>6 DEF HandleGfxCancel
<1>7. ASSUME FinishHalt PROVE Less(iq')
  BY <1>2, <1>3, <1>7 DEF FinishHalt
<1>8. ASSUME SendDone PROVE Less(iq')
  <2>1. PICK x \in Tasks, then \in {"rsp", "rdp", "end", "haltRdp"} : pc = Sending(x, then)
    BY <1>8, Places DEF SendDone, TypeInv, PcOK
  <2>2. pc.then \in {"rsp", "rdp", "end", "haltRdp"}
    BY <2>1, Places
  <2>3. iq' = iq \/ iq' = HaltRDP(iq)
    BY <1>8, <2>2 DEF SendDone
  <2>4. QED BY <1>2, <1>3, <2>3
<1>9. ASSUME RunTask PROVE Less(iq')
  BY <1>2, <1>9 DEF RunTask
<1>10. Less(iq')
  BY <1>4, <1>5, <1>6, <1>7, <1>8, <1>9 DEF SchedStep
<1>11. QED BY <1>10 DEF Less

\* A task that is taken off the head of its list to be answered.
LEMMA CancelledLinks ==
  ASSUME TypeInv, NEW B, LinkInv(sc, Main, cmdq, B), NEW u, NEW t \in Tasks, NEW p,
         p.at = "send", p.task = t, t # sc.rdp, In(t, sc.audioList) \/ In(t, sc.gfxList),
         \A y : In(y, u.audioList) <=> In(y, sc.audioList) /\ y # t,
         \A y : In(y, u.gfxList) <=> In(y, sc.gfxList) /\ y # t,
         Once(u.audioList), Once(u.gfxList),
         u.rsp = sc.rsp, u.rdp = sc.rdp, u.state = sc.state
  PROVE  /\ LinkInv(u, p, cmdq, B)
         /\ \A y \in Tasks : Holds(u, p, cmdq, y) => Holds(sc, Main, cmdq, y)
<1>1. PlaceInv(sc, Main, cmdq) /\ BitsInv(sc, Main) /\ Main.at = "main" /\ NoTask \notin Tasks
  BY Places DEF LinkInv, Tasks, NoTask
<1>2. /\ \A y : Listed(u, y) <=> Listed(sc, y) /\ y # t
      /\ Listed(sc, t)
      /\ \A y : OnRSP(u, p, y) <=> OnRSP(sc, Main, y)
      /\ \A y : ~ Sends(Main, y)
      /\ \A y : Sends(p, y) <=> y = t
  BY <1>1 DEF Listed, OnRSP, Sends
<1>3. \A y \in Tasks : Holds(u, p, cmdq, y) => Holds(sc, Main, cmdq, y)
  BY <1>2 DEF Holds
<1>4. ~ In(t, cmdq) /\ ~ OnRSP(sc, Main, t) /\ sc.rsp # t
  BY <1>1, <1>2 DEF PlaceInv, OnRSP
<1>p. PlaceInv(u, p, cmdq)
  BY <1>1, <1>2, <1>4 DEF PlaceInv
<1>b. BitsInv(u, p)
  BY <1>1, <1>2 DEF BitsInv
<1>5. QED BY <1>3, <1>p, <1>b DEF LinkInv, NoYields

\* Sched_HandleAudioCancel and Sched_HandleGfxCancel.
LEMMA CancelLinks ==
  ASSUME TypeInv, HandleAudioCancel \/ HandleGfxCancel, NEW B, LinkInv(sc, pc, cmdq, B),
         In("gfxCancel", iq) => B
  PROVE  /\ LinkInv(sc', pc', cmdq', B)
         /\ \A y \in Tasks : Holds(sc', pc', cmdq', y) => Holds(sc, pc, cmdq, y)
<1>1. pc = Main /\ cmdq' = cmdq /\ ScOK(sc) /\ iq # <<>> /\ iq \in Seq(IrqMesgs)
  BY DEF HandleAudioCancel, HandleGfxCancel, TypeInv
<1>2. LinkInv(sc, Main, cmdq, B) /\ PlaceInv(sc, Main, cmdq) /\ BitsInv(sc, Main)
  BY <1>1 DEF LinkInv
<1>3. CASE sc' = sc /\ pc' \in {Main, Halting("aud"), Halting("gfx")}
  <2>1. pc'.at \notin {"load", "send"} /\ Main.at = "main"
    BY <1>3, Places
  <2>2. \A y : /\ OnRSP(sc, pc', y) <=> OnRSP(sc, Main, y)
               /\ Sends(pc', y) <=> Sends(Main, y)
               /\ Holds(sc, pc', cmdq, y) <=> Holds(sc, Main, cmdq, y)
    BY <2>1 DEF OnRSP, Sends, Holds
  <2>3. PlaceInv(sc, pc', cmdq) /\ BitsInv(sc, pc')
    BY <2>1, <2>2, <1>2 DEF PlaceInv, BitsInv
  <2>4. QED BY <2>2, <2>3, <1>1, <1>2, <1>3 DEF LinkInv
<1>4. CASE sc.audioList # <<>> /\ sc' = [sc EXCEPT !.audioList = Tail(@)] /\ pc' = Sending("aud", "end")
  <2>1. /\ Head(sc.audioList) = "aud" /\ In("aud", sc.audioList) /\ Once(Tail(sc.audioList))
        /\ \A y : In(y, Tail(sc.audioList)) <=> In(y, sc.audioList) /\ y # "aud"
    <3>1. sc.audioList \in Seq({"aud"}) /\ Once(sc.audioList)
      BY <1>1, <1>2 DEF ScOK, PlaceInv
    <3>2. QED BY <3>1, <1>4, TailIn
  <2>2. /\ sc'.audioList = Tail(sc.audioList) /\ sc'.gfxList = sc.gfxList /\ sc'.rsp = sc.rsp
        /\ sc'.rdp = sc.rdp /\ sc'.state = sc.state
    BY <1>1, <1>4 DEF ScOK
  <2>3. /\ \A y : In(y, sc'.gfxList) <=> In(y, sc.gfxList) /\ y # "aud"
        /\ Once(sc.gfxList) /\ sc.rdp # "aud" /\ "aud" \in Tasks
    BY <1>1, <1>2, <2>2, ListKinds DEF PlaceInv, BitsInv, NoTask, Tasks
  <2>4. pc'.at = "send" /\ pc'.task = "aud"
    BY <1>4, Places
  <2>5. QED BY <1>1, <1>2, <2>1, <2>2, <2>3, <2>4, CancelledLinks
<1>5. CASE /\ In("gfxCancel", iq) /\ sc.gfxList # <<>>
           /\ sc' = [sc EXCEPT !.gfxList = Tail(@)] /\ pc' = Sending(Head(sc.gfxList), "haltRdp")
  <2> DEFINE t == Head(sc.gfxList)
  <2>1. /\ t \in Tasks /\ t # "aud" /\ In(t, sc.gfxList) /\ Once(Tail(sc.gfxList))
        /\ \A y : In(y, Tail(sc.gfxList)) <=> In(y, sc.gfxList) /\ y # t
    <3>1. sc.gfxList \in Seq(Tasks \ {"aud"}) /\ Once(sc.gfxList)
      BY <1>1, <1>2 DEF ScOK, PlaceInv
    <3>2. QED BY <3>1, <1>5, TailIn
  <2> HIDE DEF t
  <2>2. /\ sc'.audioList = sc.audioList /\ sc'.gfxList = Tail(sc.gfxList) /\ sc'.rsp = sc.rsp
        /\ sc'.rdp = sc.rdp /\ sc'.state = sc.state
    BY <1>1, <1>5 DEF ScOK
  <2>3. /\ \A y : In(y, sc'.audioList) <=> In(y, sc.audioList) /\ y # t
        /\ Once(sc.audioList)
    BY <1>1, <1>2, <2>1, <2>2, ListKinds DEF PlaceInv
  <2>4. sc.rdp # t
    <3>1. t = "gfx" => "YIELDED" \notin sc.state["gfx"]
      BY <1>2, <1>5 DEF LinkInv, NoYields, Tasks
    <3>2. QED BY <3>1, <2>1, <1>2 DEF BitsInv, NoTask, Tasks
  <2>5. pc'.at = "send" /\ pc'.task = t
    BY <1>5, Places DEF t
  <2>6. QED BY <1>1, <1>2, <2>1, <2>2, <2>3, <2>4, <2>5, CancelledLinks
<1>6. HandleGfxCancel => In("gfxCancel", iq)
  <2>1. In(Head(iq), iq)
    BY <1>1, TailIn
  <2>2. QED BY <2>1 DEF HandleGfxCancel
<1>7. QED BY <1>1, <1>3, <1>4, <1>5, <1>6 DEF HandleAudioCancel, HandleGfxCancel

\* The end of a wait for the RSP.
LEMMA HaltLinks ==
  ASSUME TypeInv, FinishHalt, NEW B, LinkInv(sc, pc, cmdq, B)
  PROVE  /\ LinkInv(sc', pc', cmdq', B)
         /\ \A y \in Tasks : Holds(sc', pc', cmdq', y) => Holds(sc, pc, cmdq, y)
<1>1. pc.at = "halt" /\ pc' = Main /\ UNCHANGED <<sc, cmdq>> /\ Main.at = "main"
  BY Places DEF FinishHalt
<1>2. \A y : /\ OnRSP(sc, Main, y) <=> OnRSP(sc, pc, y)
             /\ Sends(Main, y) <=> Sends(pc, y)
             /\ Holds(sc, Main, cmdq, y) <=> Holds(sc, pc, cmdq, y)
  BY <1>1 DEF OnRSP, Sends, Holds
<1>3. PlaceInv(sc, Main, cmdq) /\ BitsInv(sc, Main)
  BY <1>1, <1>2 DEF LinkInv, PlaceInv, BitsInv
<1>4. QED BY <1>1, <1>2, <1>3 DEF LinkInv

\* The answer to a task is sent: the scheduler holds it no more.
LEMMA SendLinks ==
  ASSUME TypeInv, SendDone, NEW B, LinkInv(sc, pc, cmdq, B)
  PROVE  /\ LinkInv(sc', pc', cmdq', B)
         /\ \A y \in Tasks : Holds(sc', pc', cmdq', y) => Holds(sc, pc, cmdq, y)
         /\ \E t \in Tasks : /\ Sends(pc, t) /\ ~ Holds(sc', pc', cmdq', t)
                             /\ reply' = [reply EXCEPT ![t] = Append(@, "done")]
<1> DEFINE t == pc.task
<1>1. /\ pc.at = "send" /\ t \in Tasks /\ reply' = [reply EXCEPT ![t] = Append(@, "done")]
      /\ cmdq' = cmdq /\ ScOK(sc) /\ PcOK(pc) /\ Main.at = "main" /\ NoTask \notin Tasks
  BY PcFacts, Places DEF SendDone, TypeInv, Tasks, NoTask
<1> HIDE DEF t
<1>2. /\ \A y : Sends(pc, y) <=> y = t
      /\ \A y : ~ Sends(Main, y)
      /\ \A y : OnRSP(sc, Main, y) <=> OnRSP(sc, pc, y)
  BY <1>1 DEF Sends, OnRSP, t
<1>3. PlaceInv(sc, Main, cmdq) /\ BitsInv(sc, Main)
  BY <1>1, <1>2 DEF LinkInv, PlaceInv, BitsInv
<1>4. LinkInv(sc, Main, cmdq, B)
  BY <1>3 DEF LinkInv
<1>5. ~ In(t, cmdq) /\ ~ Listed(sc, t) /\ ~ OnRSP(sc, pc, t) /\ sc.rdp # t
  BY <1>1, <1>2 DEF LinkInv, PlaceInv, OnRSP
<1>6. \A y \in Tasks : Holds(sc, Main, cmdq, y) <=> Holds(sc, pc, cmdq, y) /\ y # t
  BY <1>2, <1>5 DEF Holds
<1>7. LinkInv(sc', pc', cmdq, B) /\ \A y \in Tasks : Holds(sc', pc', cmdq, y) <=> Holds(sc, Main, cmdq, y)
  <2>1. CASE pc' = Main /\ sc' = sc
    BY <2>1, <1>4
  <2>2. CASE ScheduleAndRun(sc, TaskFramebuffersValid')
    <3>1. TaskFramebuffersValid' \in BOOLEAN
      BY DEF TaskFramebuffersValid
    <3> DEFINE valid == TaskFramebuffersValid'
    <3> HIDE DEF valid
    <3>2. ScheduleAndRun(sc, valid) /\ valid \in BOOLEAN
      BY <2>2, <3>1 DEF valid
    <3>3. QED BY <3>2, <1>1, <1>4, ScheduleLinks
  <2>3. pc.then \in {"rsp", "rdp", "end", "haltRdp"}
    <3>1. PICK x \in Tasks, then \in {"rsp", "rdp", "end", "haltRdp"} : pc = Sending(x, then)
      BY <1>1, Places DEF PcOK
    <3>2. QED BY <3>1, Places
  <2>4. QED BY <2>1, <2>2, <2>3 DEF SendDone
<1>8. QED BY <1>1, <1>2, <1>6, <1>7

\* Sched_RunTask.
LEMMA RunLinks ==
  ASSUME TypeInv, RunTask, NEW B, LinkInv(sc, pc, cmdq, B)
  PROVE  /\ LinkInv(sc', pc', cmdq', B)
         /\ \A y \in Tasks : Holds(sc', pc', cmdq', y) => Holds(sc, pc, cmdq, y)
<1> DEFINE t == pc.task
<1>0. PlaceInv(sc, pc, cmdq) /\ BitsInv(sc, pc)
  BY DEF LinkInv
<1>1. /\ pc.at = "load" /\ pc' = Main /\ cmdq' = cmdq
      /\ sc' = [sc EXCEPT !.state[t] = @ \ {"YIELD", "YIELDED"}, !.rsp = t,
                          !.rdp = IF pc.dp /\ @ = NoTask THEN t ELSE @]
  BY DEF RunTask
<1>2. t \in Tasks /\ ScOK(sc) /\ pc.dp \in BOOLEAN
  BY <1>1, PcFacts DEF TypeInv
<1>3. /\ t # "null" /\ sc.rsp = NoTask
      /\ pc.dp => t = "gfx" /\ sc.rdp = NoTask /\ "DP" \in sc.state["gfx"]
  BY <1>0, <1>1 DEF BitsInv, PlaceInv
<1> HIDE DEF t
<1>4. /\ sc'.audioList = sc.audioList /\ sc'.gfxList = sc.gfxList /\ sc'.rsp = t
      /\ sc'.rdp = IF pc.dp THEN t ELSE sc.rdp
      /\ \A y \in Tasks : sc'.state[y] = IF y = t THEN sc.state[t] \ {"YIELD", "YIELDED"} ELSE sc.state[y]
  <2> DEFINE st == [sc.state EXCEPT ![t] = @ \ {"YIELD", "YIELDED"}]
  <2>1. sc' = [sc EXCEPT !.state = st, !.rsp = t, !.rdp = IF pc.dp /\ @ = NoTask THEN t ELSE @]
    BY <1>1, <1>2 DEF ScOK
  <2>2. \A y \in Tasks : st[y] = IF y = t THEN sc.state[t] \ {"YIELD", "YIELDED"} ELSE sc.state[y]
    BY <1>2 DEF ScOK
  <2> HIDE DEF st
  <2>3. /\ sc'.audioList = sc.audioList /\ sc'.gfxList = sc.gfxList /\ sc'.rsp = t
        /\ sc'.rdp = (IF pc.dp /\ sc.rdp = NoTask THEN t ELSE sc.rdp) /\ sc'.state = st
    BY <2>1, <1>2 DEF ScOK
  <2>4. QED BY <2>2, <2>3, <1>2, <1>3
<1>5. /\ Main.at = "main" /\ "gfx" \in Tasks /\ "aud" \in Tasks /\ "null" \in Tasks /\ NoTask \notin Tasks
  BY Places DEF Tasks, NoTask
<1>6. \A y \in Tasks : /\ "SP" \in sc'.state[y] <=> "SP" \in sc.state[y]
                       /\ "DP" \in sc'.state[y] <=> "DP" \in sc.state[y]
                       /\ "YIELD" \in sc'.state[y] <=> "YIELD" \in sc.state[y] /\ y # t
                       /\ "YIELDED" \in sc'.state[y] <=> "YIELDED" \in sc.state[y] /\ y # t
  <2> SUFFICES ASSUME NEW y \in Tasks
               PROVE  /\ "SP" \in sc'.state[y] <=> "SP" \in sc.state[y]
                      /\ "DP" \in sc'.state[y] <=> "DP" \in sc.state[y]
                      /\ "YIELD" \in sc'.state[y] <=> "YIELD" \in sc.state[y] /\ y # t
                      /\ "YIELDED" \in sc'.state[y] <=> "YIELDED" \in sc.state[y] /\ y # t
    OBVIOUS
  <2>1. CASE y = t
    <3>1. sc'.state[y] = sc.state[y] \ {"YIELD", "YIELDED"}
      BY <2>1, <1>4
    <3>2. QED BY <3>1, <2>1
  <2>2. CASE y # t
    <3>1. sc'.state[y] = sc.state[y]
      BY <2>2, <1>4
    <3>2. QED BY <3>1, <2>2
  <2>3. QED BY <2>1, <2>2
<1>7. /\ \A y \in Tasks : Listed(sc', y) <=> Listed(sc, y)
      /\ \A y \in Tasks : OnRSP(sc', Main, y) <=> y = t
      /\ \A y \in Tasks : OnRSP(sc, pc, y) <=> y = t
      /\ \A y \in Tasks : ~ Sends(Main, y) /\ ~ Sends(pc, y)
  BY <1>1, <1>2, <1>3, <1>4, <1>5 DEF Listed, OnRSP, Sends, t
<1>8. \A y \in Tasks : Holds(sc', Main, cmdq, y) => Holds(sc, pc, cmdq, y)
  BY <1>4, <1>7 DEF Holds
<1>9. ~ In(t, cmdq) /\ ~ Listed(sc, t)
  BY <1>0, <1>2, <1>7 DEF PlaceInv
<1>p. PlaceInv(sc', Main, cmdq)
  BY <1>0, <1>4, <1>5, <1>7, <1>9 DEF PlaceInv
<1>b. BitsInv(sc', Main)
  <2>1. \A y \in Tasks : Listed(sc', y) \/ OnRSP(sc', Main, y) => "SP" \in sc'.state[y]
    BY <1>0, <1>6, <1>7 DEF BitsInv
  <2>2. In("gfx", sc'.gfxList) => t # "gfx"
    BY <1>4, <1>9 DEF Listed
  <2>3. QED BY <1>0, <1>3, <1>4, <1>5, <1>6, <2>1, <2>2 DEF BitsInv
<1>y. B => NoYields(sc')
  BY <1>6 DEF LinkInv, NoYields
<1>10. QED BY <1>1, <1>8, <1>p, <1>b, <1>y DEF LinkInv

\* Whatever the scheduler does leaves the lists lists.  It holds no task that it did not
\* hold, and one it answers it holds no more.
LEMMA SchedLinks ==
  ASSUME TypeInv, SchedStep, NEW B, LinkInv(sc, pc, cmdq, B),
         B => ~ Holds(sc, pc, cmdq, "aud"), In("gfxCancel", iq) => B
  PROVE  /\ LinkInv(sc', pc', cmdq', B)
         /\ \A y \in Tasks : Holds(sc', pc', cmdq', y) => Holds(sc, pc, cmdq, y)
         /\ \/ reply' = reply
            \/ \E t \in Tasks : /\ Sends(pc, t) /\ ~ Holds(sc', pc', cmdq', t)
                                /\ reply' = [reply EXCEPT ![t] = Append(@, "done")]
<1>0. ScOK(sc) /\ cmdq \in Seq(Tasks) /\ "YIELD" \notin sc.state["aud"]
  BY DEF TypeInv
<1>1. CASE HandleNotify \/ HandleRetrace
  <2>1. pc = Main /\ Notify /\ reply' = reply
    BY <1>1 DEF HandleNotify, HandleRetrace, Receive
  <2>2. QED BY <2>1, <1>0, NotifyLinks
<1>2. CASE HandleRSPDone
  <2>1. pc = Main /\ UNCHANGED <<cmdq, reply>>
    BY <1>2 DEF HandleRSPDone, Receive
  <2>2. CASE sc.rsp = NoTask /\ UNCHANGED <<sc, pc>>
    BY <2>1, <2>2
  <2>3. CASE /\ sc.rsp # NoTask /\ "YIELD" \in sc.state[sc.rsp] /\ hw.yielded
             /\ ScheduleAndRun(RSPYielded, TaskFramebuffersValid)
    <3>1. /\ LinkInv(RSPYielded, Main, cmdq, B) /\ ScOK(RSPYielded)
          /\ \A y \in Tasks : Holds(RSPYielded, Main, cmdq, y) <=> Holds(sc, Main, cmdq, y)
      BY <2>1, <2>3, <1>0, YieldedLinks, DoneType
    <3>2. TaskFramebuffersValid \in BOOLEAN
      BY DEF TaskFramebuffersValid
    <3>3. QED BY <2>1, <2>3, <3>1, <3>2, ScheduleLinks
  <2>4. CASE sc.rsp # NoTask /\ TaskComplete(RSPDone, sc.rsp, "rsp")
    <3>1. ScOK(RSPDone) /\ sc.rsp \in Tasks
      BY <2>4, <1>0, DoneType
    <3>2. QED BY <2>1, <2>4, <3>1, RSPDoneLinks, CompleteLinks
  <2>5. QED BY <1>2, <2>2, <2>3, <2>4, RSPDoneSteps
<1>3. CASE HandleRDPDone
  <2>1. pc = Main /\ UNCHANGED <<cmdq, reply>>
    BY <1>3 DEF HandleRDPDone, Receive
  <2>2. CASE sc.rdp = NoTask
    <3>1. UNCHANGED <<sc, pc>>
      BY <1>3, <2>2 DEF HandleRDPDone
    <3>2. QED BY <2>1, <3>1
  <2>3. CASE sc.rdp # NoTask
    <3>1. TaskComplete(RDPDone, sc.rdp, "rdp")
      <4> DEFINE d == [sc EXCEPT !.rdp = NoTask, !.state[sc.rdp] = @ \ {"DP"}]
      <4>1. TaskComplete(d, sc.rdp, "rdp")
        BY <1>3, <2>3 DEF HandleRDPDone
      <4>2. d = RDPDone
        BY <1>0 DEF ScOK, RDPDone, Bit
      <4> HIDE DEF d
      <4>3. QED BY <4>1, <4>2
    <3>2. ScOK(RDPDone) /\ sc.rdp \in Tasks
      BY <2>3, <1>0, DoneType
    <3>3. QED BY <2>1, <2>3, <3>1, <3>2, RDPDoneLinks, CompleteLinks
  <2>4. QED BY <2>2, <2>3
<1>4. CASE HandleAudioCancel \/ HandleGfxCancel
  <2>1. reply' = reply
    BY <1>4 DEF HandleAudioCancel, HandleGfxCancel
  <2>2. QED BY <1>4, <2>1, CancelLinks
<1>5. CASE FinishHalt
  <2>1. reply' = reply
    BY <1>5 DEF FinishHalt
  <2>2. QED BY <1>5, <2>1, HaltLinks
<1>6. CASE SendDone
  BY <1>6, SendLinks
<1>7. CASE RunTask
  <2>1. reply' = reply
    BY <1>7 DEF RunTask
  <2>2. QED BY <1>7, <2>1, RunLinks
<1>8. QED BY <1>1, <1>2, <1>3, <1>4, <1>5, <1>6, <1>7 DEF SchedStep

-----------------------------------------------------------------------------
(* Who may write a task.                                                   *)

\* Whether the sender of t may write it anew: it has not sent it, or has its answer.
Free(g, a, t) ==
    \/ /\ t = "gfx"
       /\ \/ g.in = "init" \/ g.at \in {"build", "drain"}
          \/ g.at = "send" /\ g.task = "gfx"
          \/ g.at = "got" /\ g.mesg = "done"
    \/ t = "aud" /\ (a.at \in {"idle", "send"} \/ (a.at = "got" /\ a.mesg = "done"))
    \/ t \in {"jpeg", "null"} /\ ~(g.at \in {"kick", "answer"} /\ g.task = t)

DoneOnce(q) == \A i, j \in 1 .. Len(q) : q[i] = "done" /\ q[j] = "done" => i = j

\* A task that is held is not free, and neither a task that is held nor one that is
\* free has an answer on the way.
OwnInv(s, p, c, r, g, a) ==
    \A t \in Tasks :
        /\ Holds(s, p, c, t) => ~Free(g, a, t) /\ ~In("done", r[t])
        /\ Free(g, a, t) => ~In("done", r[t])
        /\ DoneOnce(r[t])

\* The graph thread cancels only if its timer, one of T, may expire, and the audio
\* thread sends only if audio is in W.
CancelInv(q, r, g, a, T, W) ==
    /\ In("gfxCancel", q) => "gfx" \in T
    /\ In("timeout", r["gfx"]) => "gfx" \in T
    /\ g.at = "got" /\ g.mesg = "timeout" => "gfx" \in T
    /\ "aud" \notin W => a.at = "idle"

\* Where the graph thread is when its timer may run, or may have expired.
PathInv(r, g) ==
    /\ g.at = "init" => g.in = "init"
    /\ g.at \in {"game", "destroy", "wait", "got", "build", "drain", "dead"} => g.in = "game"
    /\ g.at \in {"init", "game", "destroy", "wait", "got", "build", "drain"} => g.task = "gfx"
    /\ g.at = "answer" => g.task # "gfx"
    /\ g.at \in {"send", "kick"} /\ g.task = "gfx" => g.in = "game"
    /\ g.at \notin {"wait", "got"} => ~g.timer
    /\ g.at \notin {"wait", "got", "build", "drain", "dead"} => ~In("timeout", r["gfx"])
    /\ ~In("timeout", r["jpeg"]) /\ ~In("timeout", r["null"])

OwnersInv(q, r, g, a, T, W, s, p, c) ==
    CancelInv(q, r, g, a, T, W) /\ PathInv(r, g) /\ OwnInv(s, p, c, r, g, a)

Owned == OwnersInv(iq, reply, graph, audio, Timers, Work, sc, pc, cmdq)

\* The inductive invariant.
ListInv == NoYieldCancelled => LinkInv(sc, pc, cmdq, "aud" \notin Work) /\ Owned

\* Queues of answers.
LEMMA NoAnswer == DoneOnce(<<>>) /\ \A y : ~In(y, <<>>)
BY DEF DoneOnce, In

LEMMA TakeAnswer ==
  ASSUME NEW q \in Seq({"done", "timeout"}), q # <<>>, DoneOnce(q)
  PROVE  /\ DoneOnce(Tail(q)) /\ In(Head(q), q) /\ Head(q) \in {"done", "timeout"}
         /\ \A y : In(y, Tail(q)) => In(y, q)
         /\ Head(q) = "done" => ~In("done", Tail(q))
<1>1. /\ Head(q) \in {"done", "timeout"} /\ Len(Tail(q)) = Len(q) - 1
      /\ \A i \in 1 .. Len(q) - 1 : Tail(q)[i] = q[i + 1]
      /\ Head(q) = q[1] /\ Len(q) \in Nat /\ Len(q) > 0
  BY HeadTailProperties, EmptySeq
<1>2. \A i \in 1 .. Len(Tail(q)) : Tail(q)[i] = q[i + 1] /\ i + 1 \in 1 .. Len(q) /\ i + 1 # 1
  BY <1>1
<1>3. In(Head(q), q) /\ \A y : In(y, Tail(q)) => In(y, q)
  BY <1>1, <1>2 DEF In
<1>4. DoneOnce(Tail(q))
  <2> SUFFICES ASSUME NEW i \in 1 .. Len(Tail(q)), NEW j \in 1 .. Len(Tail(q)),
                      Tail(q)[i] = "done", Tail(q)[j] = "done"
               PROVE  i = j
    BY DEF DoneOnce
  <2>1. i + 1 = j + 1
    BY <1>2 DEF DoneOnce
  <2>2. QED BY <2>1, <1>1
<1>5. Head(q) = "done" => ~In("done", Tail(q))
  <2> SUFFICES ASSUME q[1] = "done", NEW i \in 1 .. Len(Tail(q)), Tail(q)[i] = "done" PROVE FALSE
    BY <1>1 DEF In
  <2>1. 1 \in 1 .. Len(q)
    BY <1>1
  <2>2. i + 1 = 1
    BY <1>2, <2>1 DEF DoneOnce
  <2>3. QED BY <2>2, <1>2
<1>6. QED BY <1>1, <1>3, <1>4, <1>5

LEMMA AddAnswer ==
  ASSUME NEW q \in Seq({"done", "timeout"}), NEW m \in {"done", "timeout"}, DoneOnce(q),
         m = "done" => ~In("done", q)
  PROVE  /\ DoneOnce(Append(q, m))
         /\ \A y : In(y, Append(q, m)) <=> In(y, q) \/ y = m
<1>1. /\ Len(Append(q, m)) = Len(q) + 1 /\ Len(q) \in Nat
      /\ \A i \in 1 .. Len(q) : Append(q, m)[i] = q[i]
      /\ Append(q, m)[Len(q) + 1] = m
  BY AppendProperties
<1>2. \A y : In(y, Append(q, m)) <=> In(y, q) \/ y = m
  BY AppendIn
<1>3. DoneOnce(Append(q, m))
  BY <1>1 DEF DoneOnce, In
<1>4. QED BY <1>2, <1>3

\* A step that changes no queue, and frees no task.
LEMMA OwnSame ==
  ASSUME NEW s, NEW p, NEW c, NEW r, NEW g, NEW a, OwnInv(s, p, c, r, g, a), NEW g2, NEW a2,
         \A y \in Tasks : Free(g2, a2, y) => Free(g, a, y)
  PROVE  OwnInv(s, p, c, r, g2, a2)
BY DEF OwnInv

\* A step of the graph thread other than the one that sends its task.
LEMMA GraphOwns ==
  ASSUME TypeInv, Owned, GraphStep, ~GraphSend
  PROVE  cmdq' = cmdq /\ OwnersInv(iq', reply', graph', audio, Timers, Work, sc, pc, cmdq)
<1> DEFINE H(y) == Holds(sc, pc, cmdq, y)
           F(y) == Free(graph, audio, y)
           Fn(y) == Free(graph', audio, y)
<1>0. /\ GraphOK(graph) /\ iq \in Seq(IrqMesgs) /\ "notify" \in IrqMesgs /\ "gfxCancel" \in IrqMesgs
      /\ reply \in [Tasks -> Seq({"done", "timeout"})]
      /\ "gfx" \in Tasks /\ "jpeg" \in Tasks /\ "null" \in Tasks /\ graph.task \in Tasks
  BY DEF TypeInv, IrqMesgs, Tasks, GraphOK
<1>1. /\ OwnInv(sc, pc, cmdq, reply, graph, audio) /\ PathInv(reply, graph)
      /\ CancelInv(iq, reply, graph, audio, Timers, Work)
  BY DEF Owned, OwnersInv
<1>2. \A y \in Tasks : /\ H(y) => ~F(y) /\ ~In("done", reply[y])
                       /\ F(y) => ~In("done", reply[y])
                       /\ DoneOnce(reply[y])
  BY <1>1 DEF OwnInv
<1>3. CASE GameStateInit
  <2>1. /\ graph.at = "init" /\ graph.in = "init" /\ graph'.at = "game" /\ graph'.in = "game"
        /\ graph'.task = graph.task /\ graph.task = "gfx" /\ graph'.timer = graph.timer
        /\ graph'.mesg = graph.mesg /\ UNCHANGED <<iq, cmdq>>
        /\ reply' = [reply EXCEPT !["gfx"] = Append(@, "done")]
    BY <1>0, <1>1, <1>3 DEF GameStateInit, GraphOK, PathInv
  <2>2. F("gfx") /\ ~Fn("gfx") /\ \A y \in Tasks : y # "gfx" => (Fn(y) => F(y))
    BY <2>1 DEF Free
  <2>3. /\ DoneOnce(reply'["gfx"])
        /\ \A y : In(y, reply'["gfx"]) <=> In(y, reply["gfx"]) \/ y = "done"
        /\ \A y \in Tasks : y # "gfx" => reply'[y] = reply[y]
    BY <1>0, <1>2, <2>1, <2>2, AddAnswer
  <2>4. OwnInv(sc, pc, cmdq, reply', graph', audio)
    BY <1>0, <1>1, <1>2, <2>2, <2>3 DEF OwnInv
  <2>5. PathInv(reply', graph') /\ CancelInv(iq, reply', graph', audio, Timers, Work)
    BY <1>0, <1>1, <2>1, <2>3 DEF PathInv, CancelInv
  <2>6. QED BY <2>1, <2>4, <2>5 DEF OwnersInv
<1>4. CASE GameStateDestroy
  <2>1. CASE graph.at = "game"
    <3>1. /\ graph'.at = "destroy" /\ graph'.in = graph.in /\ graph'.task = graph.task
          /\ graph'.timer = graph.timer /\ graph'.mesg = graph.mesg /\ UNCHANGED <<iq, cmdq, reply>>
      BY <1>0, <1>4, <2>1 DEF GameStateDestroy, GraphOK
    <3>2. \A y \in Tasks : Fn(y) => F(y)
      BY <1>1, <2>1, <3>1 DEF Free, PathInv
    <3>3. OwnInv(sc, pc, cmdq, reply, graph', audio)
      BY <1>1, <3>2, OwnSame
    <3>4. PathInv(reply, graph') /\ CancelInv(iq, reply, graph', audio, Timers, Work)
      BY <1>1, <2>1, <3>1 DEF PathInv, CancelInv
    <3>5. QED BY <3>1, <3>3, <3>4 DEF OwnersInv
  <2>2. CASE graph.at = "destroy"
    <3>1. /\ graph'.at = "init" /\ graph'.in = "init" /\ graph'.task = graph.task
          /\ graph.task = "gfx" /\ graph.in = "game"
          /\ graph'.timer = graph.timer /\ graph'.mesg = graph.mesg /\ UNCHANGED <<iq, cmdq>>
          /\ reply["gfx"] # <<>> /\ reply' = [reply EXCEPT !["gfx"] = Tail(@)]
      BY <1>0, <1>1, <1>4, <2>2 DEF GameStateDestroy, GraphOK, PathInv
    <3>2. \A y \in Tasks : y # "gfx" => (Fn(y) => F(y))
      BY <2>2, <3>1 DEF Free
    <3>3. /\ DoneOnce(reply'["gfx"]) /\ In(Head(reply["gfx"]), reply["gfx"])
          /\ Head(reply["gfx"]) \in {"done", "timeout"}
          /\ \A y : In(y, reply'["gfx"]) => In(y, reply["gfx"])
          /\ Head(reply["gfx"]) = "done" => ~In("done", reply'["gfx"])
          /\ \A y \in Tasks : y # "gfx" => reply'[y] = reply[y]
      BY <1>0, <1>2, <3>1, TakeAnswer
    <3>4. Head(reply["gfx"]) = "done"
      BY <1>1, <2>2, <3>3 DEF PathInv
    <3>5. ~H("gfx")
      BY <1>0, <1>2, <3>3, <3>4
    <3>6. OwnInv(sc, pc, cmdq, reply', graph', audio)
      BY <1>0, <1>1, <1>2, <3>2, <3>3, <3>4, <3>5 DEF OwnInv
    <3>7. PathInv(reply', graph') /\ CancelInv(iq, reply', graph', audio, Timers, Work)
      BY <1>0, <1>1, <2>2, <3>1, <3>3 DEF PathInv, CancelInv
    <3>8. QED BY <3>1, <3>6, <3>7 DEF OwnersInv
  <2>3. QED BY <1>4, <2>1, <2>2 DEF GameStateDestroy
<1>5. CASE GraphStartTask
  <2>1. PICK t \in {"jpeg", "null"} : /\ graph' = [graph EXCEPT !.at = "send", !.task = t]
                                      /\ reply' = [reply EXCEPT ![t] = <<>>]
    BY <1>5 DEF GraphStartTask
  <2>2. /\ graph.at \in {"init", "game"} /\ graph.task = "gfx"
        /\ graph'.at = "send" /\ graph'.in = graph.in /\ graph'.task = t
        /\ graph'.timer = graph.timer /\ graph'.mesg = graph.mesg /\ UNCHANGED <<iq, cmdq>>
        /\ t \in Tasks /\ t # "gfx" /\ t # "aud"
    BY <1>0, <1>1, <1>5, <2>1 DEF GraphStartTask, GraphOK, PathInv, Tasks
  <2>3. reply'[t] = <<>> /\ \A y \in Tasks : y # t => reply'[y] = reply[y]
    BY <1>0, <2>1, <2>2
  <2>4. F(t) /\ \A y \in Tasks : Fn(y) => F(y)
    BY <2>2, <1>1 DEF Free, PathInv
  <2>5. OwnInv(sc, pc, cmdq, reply', graph', audio)
    BY <1>1, <1>2, <2>2, <2>3, <2>4, NoAnswer DEF OwnInv
  <2>6. PathInv(reply', graph') /\ CancelInv(iq, reply', graph', audio, Timers, Work)
    BY <1>0, <1>1, <2>2, <2>3, NoAnswer DEF PathInv, CancelInv
  <2>7. QED BY <2>2, <2>5, <2>6 DEF OwnersInv
<1>6. CASE GraphStartFrame
  <2>1. /\ graph.at = "game" /\ graph'.at = "wait" /\ graph'.in = graph.in /\ graph'.task = "gfx"
        /\ graph'.mesg = graph.mesg /\ UNCHANGED <<iq, cmdq, reply>>
    BY <1>0, <1>6 DEF GraphStartFrame, GraphOK
  <2>2. \A y \in Tasks : Fn(y) => F(y)
    BY <1>1, <2>1 DEF Free, PathInv
  <2>3. OwnInv(sc, pc, cmdq, reply, graph', audio)
    BY <1>1, <2>2, OwnSame
  <2>4. PathInv(reply, graph') /\ CancelInv(iq, reply, graph', audio, Timers, Work)
    BY <1>1, <2>1 DEF PathInv, CancelInv
  <2>5. QED BY <2>1, <2>3, <2>4 DEF OwnersInv
<1>7. CASE GraphReceive
  <2>1. /\ graph.at = "wait" /\ graph'.at = "got" /\ graph'.in = graph.in /\ graph'.task = graph.task
        /\ graph.task = "gfx" /\ graph.in = "game" /\ graph'.mesg = Head(reply["gfx"])
        /\ UNCHANGED <<iq, cmdq>>
        /\ reply["gfx"] # <<>> /\ reply' = [reply EXCEPT !["gfx"] = Tail(@)]
    BY <1>0, <1>1, <1>7 DEF GraphReceive, GraphOK, PathInv
  <2>2. \A y \in Tasks : y # "gfx" => (Fn(y) => F(y))
    BY <2>1 DEF Free
  <2>3. /\ DoneOnce(reply'["gfx"]) /\ In(Head(reply["gfx"]), reply["gfx"])
        /\ \A y : In(y, reply'["gfx"]) => In(y, reply["gfx"])
        /\ Head(reply["gfx"]) = "done" => ~In("done", reply'["gfx"])
        /\ \A y \in Tasks : y # "gfx" => reply'[y] = reply[y]
    BY <1>0, <1>2, <2>1, TakeAnswer
  <2>4. Fn("gfx") => Head(reply["gfx"]) = "done"
    BY <2>1 DEF Free
  <2>5. OwnInv(sc, pc, cmdq, reply', graph', audio)
    BY <1>0, <1>1, <1>2, <2>2, <2>3, <2>4 DEF OwnInv
  <2>6. PathInv(reply', graph') /\ CancelInv(iq, reply', graph', audio, Timers, Work)
    BY <1>0, <1>1, <2>1, <2>3 DEF PathInv, CancelInv
  <2>7. QED BY <2>1, <2>5, <2>6 DEF OwnersInv
<1>8. CASE GraphGot
  <2>1. /\ graph.at = "got" /\ UNCHANGED <<cmdq, reply>> /\ graph.mesg \in {"done", "timeout"}
        /\ graph'.in = graph.in /\ graph'.task = graph.task /\ graph'.mesg = graph.mesg
        /\ \/ graph.mesg = "done" /\ graph'.at = "build" /\ ~graph'.timer /\ iq' = iq
           \/ graph.mesg = "timeout" /\ graph'.at = "wait" /\ iq' = Post(iq, "gfxCancel")
           \/ graph.mesg = "timeout" /\ graph'.at = "dead" /\ ~graph'.timer /\ iq' = iq
    BY <1>0, <1>8 DEF GraphGot, GraphOK, PostIrq
  <2>2. \A y \in Tasks : Fn(y) => F(y)
    BY <1>1, <2>1 DEF Free, PathInv
  <2>3. OwnInv(sc, pc, cmdq, reply, graph', audio)
    BY <1>1, <2>2, OwnSame
  <2>4. \A y : In(y, Post(iq, "gfxCancel")) => In(y, iq) \/ y = "gfxCancel"
    BY <1>0, PostIn
  <2>5. PathInv(reply, graph') /\ CancelInv(iq', reply, graph', audio, Timers, Work)
    BY <1>1, <2>1, <2>4 DEF PathInv, CancelInv
  <2>6. QED BY <2>1, <2>3, <2>5 DEF OwnersInv
<1>9. CASE GraphBuild
  <2>1. /\ graph.at = "build" /\ graph'.at = "drain" /\ graph'.in = graph.in /\ graph'.task = graph.task
        /\ graph'.mesg = graph.mesg /\ graph'.timer = graph.timer /\ UNCHANGED <<iq, cmdq, reply>>
    BY <1>0, <1>9 DEF GraphBuild, GraphOK
  <2>2. \A y \in Tasks : Fn(y) => F(y)
    BY <2>1 DEF Free
  <2>3. OwnInv(sc, pc, cmdq, reply, graph', audio)
    BY <1>1, <2>2, OwnSame
  <2>4. PathInv(reply, graph') /\ CancelInv(iq, reply, graph', audio, Timers, Work)
    BY <1>1, <2>1 DEF PathInv, CancelInv
  <2>5. QED BY <2>1, <2>3, <2>4 DEF OwnersInv
<1>10. CASE GraphDrain
  <2>1. /\ graph.at = "drain" /\ graph'.at = "send" /\ graph'.in = graph.in /\ graph'.task = graph.task
        /\ graph'.mesg = graph.mesg /\ graph'.timer = graph.timer /\ UNCHANGED <<iq, cmdq>>
        /\ reply' = [reply EXCEPT !["gfx"] = <<>>]
    BY <1>0, <1>10 DEF GraphDrain, GraphOK
  <2>2. reply'["gfx"] = <<>> /\ \A y \in Tasks : y # "gfx" => reply'[y] = reply[y]
    BY <1>0, <2>1
  <2>3. F("gfx") /\ \A y \in Tasks : Fn(y) => F(y)
    BY <2>1 DEF Free
  <2>4. OwnInv(sc, pc, cmdq, reply', graph', audio)
    BY <1>0, <1>1, <1>2, <2>2, <2>3, NoAnswer DEF OwnInv
  <2>5. PathInv(reply', graph') /\ CancelInv(iq, reply', graph', audio, Timers, Work)
    BY <1>0, <1>1, <2>1, <2>2, NoAnswer DEF PathInv, CancelInv
  <2>6. QED BY <2>1, <2>4, <2>5 DEF OwnersInv
<1>11. CASE GraphKick
  <2>1. /\ graph.at = "kick" /\ graph'.at = (IF graph.task = "gfx" THEN "game" ELSE "answer")
        /\ graph'.in = graph.in /\ graph'.task = graph.task
        /\ graph'.mesg = graph.mesg /\ graph'.timer = graph.timer
        /\ UNCHANGED <<cmdq, reply>> /\ iq' = Post(iq, "notify")
    BY <1>0, <1>11 DEF GraphKick, GraphOK, PostIrq
  <2>2. \A y \in Tasks : Fn(y) => F(y)
    BY <2>1 DEF Free
  <2>3. OwnInv(sc, pc, cmdq, reply, graph', audio)
    BY <1>1, <2>2, OwnSame
  <2>4. In("gfxCancel", iq') => In("gfxCancel", iq)
    BY <1>0, <2>1, PostIn
  <2>5. PathInv(reply, graph') /\ CancelInv(iq', reply, graph', audio, Timers, Work)
    BY <1>1, <2>1, <2>4 DEF PathInv, CancelInv
  <2>6. QED BY <2>1, <2>3, <2>5 DEF OwnersInv
<1>12. CASE GraphAnswer
  <2> DEFINE t == graph.task
  <2>1. /\ graph.at = "answer" /\ graph'.at = graph.in /\ graph'.in = graph.in /\ graph'.task = "gfx"
        /\ graph.in \in {"init", "game"} /\ t \in {"jpeg", "null"}
        /\ graph'.mesg = graph.mesg /\ graph'.timer = graph.timer /\ UNCHANGED <<iq, cmdq>>
        /\ reply[t] # <<>> /\ reply' = [reply EXCEPT ![t] = Tail(@)]
    BY <1>0, <1>1, <1>12 DEF GraphAnswer, GraphOK, PathInv, Tasks
  <2>2. \A y \in Tasks : y # t => (Fn(y) => F(y))
    BY <2>1 DEF Free
  <2> HIDE DEF t
  <2>3. t \in Tasks
    BY <1>0, <2>1
  <2>4. /\ DoneOnce(reply'[t]) /\ In(Head(reply[t]), reply[t])
        /\ Head(reply[t]) \in {"done", "timeout"}
        /\ \A y : In(y, reply'[t]) => In(y, reply[t])
        /\ Head(reply[t]) = "done" => ~In("done", reply'[t])
        /\ \A y \in Tasks : y # t => reply'[y] = reply[y]
    BY <1>0, <1>2, <2>1, <2>3, TakeAnswer
  <2>5. Head(reply[t]) = "done"
    BY <1>1, <2>1, <2>4 DEF PathInv
  <2>6. ~H(t)
    BY <1>2, <2>3, <2>4, <2>5
  <2>7. OwnInv(sc, pc, cmdq, reply', graph', audio)
    BY <1>1, <1>2, <2>2, <2>3, <2>4, <2>5, <2>6 DEF OwnInv
  <2>8. PathInv(reply', graph') /\ CancelInv(iq, reply', graph', audio, Timers, Work)
    BY <1>0, <1>1, <2>1, <2>3, <2>4 DEF PathInv, CancelInv
  <2>9. QED BY <2>1, <2>7, <2>8 DEF OwnersInv
<1>13. QED BY <1>3, <1>4, <1>5, <1>6, <1>7, <1>8, <1>9, <1>10, <1>11, <1>12 DEF GraphStep

\* A task that is sent when the scheduler does not hold it.
LEMMA SentLinks ==
  ASSUME TypeInv, NEW t \in Tasks, NEW B, LinkInv(sc, pc, cmdq, B), ~Holds(sc, pc, cmdq, t)
  PROVE  /\ LinkInv(sc, pc, Append(cmdq, t), B)
         /\ \A y \in Tasks : Holds(sc, pc, Append(cmdq, t), y) <=> Holds(sc, pc, cmdq, y) \/ y = t
<1> DEFINE c == Append(cmdq, t)
<1>1. cmdq \in Seq(Tasks) /\ PlaceInv(sc, pc, cmdq) /\ BitsInv(sc, pc)
  BY DEF TypeInv, LinkInv
<1>2. ~In(t, cmdq) /\ ~Listed(sc, t) /\ ~OnRSP(sc, pc, t) /\ sc.rdp # t /\ ~Sends(pc, t)
  BY DEF Holds
<1>3. (\A y : In(y, c) <=> In(y, cmdq) \/ y = t) /\ Once(c)
  <2>1. Once(cmdq)
    BY <1>1 DEF PlaceInv
  <2>2. QED BY <1>1, <1>2, <2>1, AppendIn
<1> HIDE DEF c
<1>4. PlaceInv(sc, pc, c)
  BY <1>1, <1>2, <1>3 DEF PlaceInv
<1>5. \A y \in Tasks : Holds(sc, pc, c, y) <=> Holds(sc, pc, cmdq, y) \/ y = t
  BY <1>3 DEF Holds
<1>6. LinkInv(sc, pc, c, B)
  BY <1>1, <1>4 DEF LinkInv
<1>7. QED BY <1>5, <1>6 DEF c

\* The graph thread sends a task that is free.
LEMMA GraphSendOwns ==
  ASSUME TypeInv, Owned, NEW B, LinkInv(sc, pc, cmdq, B), GraphSend
  PROVE  /\ LinkInv(sc, pc, cmdq', B)
         /\ OwnersInv(iq', reply', graph', audio, Timers, Work, sc, pc, cmdq')
<1> DEFINE t == graph.task
<1>1. /\ OwnInv(sc, pc, cmdq, reply, graph, audio) /\ PathInv(reply, graph)
      /\ CancelInv(iq, reply, graph, audio, Timers, Work)
  BY DEF Owned, OwnersInv
<1>2. /\ graph.at = "send" /\ graph'.at = "kick" /\ graph'.in = graph.in /\ graph'.task = t
      /\ graph'.mesg = graph.mesg /\ graph'.timer = graph.timer
      /\ UNCHANGED <<iq, reply>> /\ cmdq' = Append(cmdq, t) /\ t \in Tasks \ {"aud"}
  BY DEF GraphSend, TypeInv, GraphOK
<1>3. /\ Free(graph, audio, t) /\ ~Free(graph', audio, t)
      /\ \A y \in Tasks : Free(graph', audio, y) => Free(graph, audio, y)
  BY <1>1, <1>2 DEF Free, PathInv, Tasks
<1> HIDE DEF t
<1>4. ~Holds(sc, pc, cmdq, t) /\ ~In("done", reply[t])
  BY <1>1, <1>2, <1>3 DEF OwnInv
<1>5. /\ LinkInv(sc, pc, cmdq', B)
      /\ \A y \in Tasks : Holds(sc, pc, cmdq', y) <=> Holds(sc, pc, cmdq, y) \/ y = t
  BY <1>2, <1>4, SentLinks
<1>6. OwnInv(sc, pc, cmdq', reply, graph', audio)
  BY <1>1, <1>2, <1>3, <1>4, <1>5 DEF OwnInv
<1>7. PathInv(reply, graph') /\ CancelInv(iq, reply, graph', audio, Timers, Work)
  BY <1>1, <1>2 DEF PathInv, CancelInv, t
<1>8. QED BY <1>2, <1>5, <1>6, <1>7 DEF OwnersInv

\* A step of the audio thread.
LEMMA AudioOwns ==
  ASSUME TypeInv, Owned, NEW B, LinkInv(sc, pc, cmdq, B), AudioStep
  PROVE  /\ LinkInv(sc, pc, cmdq', B)
         /\ OwnersInv(iq', reply', graph, audio', Timers, Work, sc, pc, cmdq')
<1> DEFINE F(y) == Free(graph, audio, y)
           Fn(y) == Free(graph, audio', y)
<1>0. /\ AudioOK(audio) /\ iq \in Seq(IrqMesgs) /\ "notify" \in IrqMesgs /\ "audioCancel" \in IrqMesgs
      /\ reply \in [Tasks -> Seq({"done", "timeout"})]
      /\ "gfx" \in Tasks /\ "jpeg" \in Tasks /\ "null" \in Tasks /\ "aud" \in Tasks
  BY DEF TypeInv, IrqMesgs, Tasks
<1>1. /\ OwnInv(sc, pc, cmdq, reply, graph, audio) /\ PathInv(reply, graph)
      /\ CancelInv(iq, reply, graph, audio, Timers, Work)
  BY DEF Owned, OwnersInv
<1>2. \A y \in Tasks : y # "aud" => (Fn(y) => F(y))
  BY DEF Free
<1>3. \A m \in {"notify", "audioCancel"} : In("gfxCancel", Post(iq, m)) => In("gfxCancel", iq)
  BY <1>0, PostIn
<1>4. ASSUME UNCHANGED reply, Fn("aud") => F("aud"),
             \A y \in Tasks : Holds(sc, pc, cmdq', y) => Holds(sc, pc, cmdq, y)
      PROVE  PathInv(reply', graph) /\ OwnInv(sc, pc, cmdq', reply', graph, audio')
  BY <1>1, <1>2, <1>4 DEF OwnInv
<1>5. CASE AudioRetrace
  <2>1. /\ audio.at = "idle" /\ audio'.at \in {"idle"} \cup {"send" : w \in Work \cap {"aud"}}
        /\ reply' = [reply EXCEPT !["aud"] = <<>>] /\ UNCHANGED <<iq, cmdq>>
    BY <1>0, <1>5 DEF AudioRetrace, AudioOK
  <2>2. F("aud")
    BY <2>1 DEF Free
  <2>3. reply'["aud"] = <<>> /\ \A y \in Tasks : y # "aud" => reply'[y] = reply[y]
    BY <1>0, <2>1
  <2>4. OwnInv(sc, pc, cmdq, reply', graph, audio')
    BY <1>0, <1>1, <1>2, <2>2, <2>3, NoAnswer DEF OwnInv
  <2>5. PathInv(reply', graph) /\ CancelInv(iq, reply', graph, audio', Timers, Work)
    BY <1>0, <1>1, <2>1, <2>3 DEF PathInv, CancelInv
  <2>6. QED BY <2>1, <2>4, <2>5 DEF OwnersInv
<1>6. CASE AudioSend
  <2>1. /\ audio.at = "send" /\ audio'.at = "kick" /\ cmdq' = Append(cmdq, "aud")
        /\ UNCHANGED <<iq, reply>>
    BY <1>0, <1>6 DEF AudioSend, AudioOK
  <2>2. F("aud") /\ ~Fn("aud")
    BY <2>1 DEF Free
  <2>3. ~Holds(sc, pc, cmdq, "aud") /\ ~In("done", reply["aud"])
    BY <1>0, <1>1, <2>2 DEF OwnInv
  <2>4. /\ LinkInv(sc, pc, cmdq', B)
        /\ \A y \in Tasks : Holds(sc, pc, cmdq', y) <=> Holds(sc, pc, cmdq, y) \/ y = "aud"
    BY <1>0, <2>1, <2>3, SentLinks
  <2>5. OwnInv(sc, pc, cmdq', reply, graph, audio')
    BY <1>1, <1>2, <2>2, <2>3, <2>4 DEF OwnInv
  <2>6. CancelInv(iq, reply, graph, audio', Timers, Work)
    BY <1>1, <2>1 DEF CancelInv
  <2>7. QED BY <1>1, <2>1, <2>4, <2>5, <2>6 DEF OwnersInv
<1>7. CASE AudioKick
  <2>1. /\ audio.at = "kick" /\ audio'.at = "update" /\ iq' = Post(iq, "notify")
        /\ UNCHANGED <<cmdq, reply>>
    BY <1>0, <1>7 DEF AudioKick, AudioOK, PostIrq
  <2>2. ~Fn("aud")
    BY <2>1 DEF Free
  <2>3. CancelInv(iq', reply, graph, audio', Timers, Work)
    BY <1>1, <1>3, <2>1 DEF CancelInv
  <2>4. QED BY <1>4, <2>1, <2>2, <2>3 DEF OwnersInv
<1>8. CASE AudioUpdate
  <2>1. audio.at = "update" /\ audio'.at = "wait" /\ UNCHANGED <<iq, cmdq, reply>>
    BY <1>0, <1>8 DEF AudioUpdate, AudioOK
  <2>2. ~Fn("aud")
    BY <2>1 DEF Free
  <2>3. CancelInv(iq, reply, graph, audio', Timers, Work)
    BY <1>1, <2>1 DEF CancelInv
  <2>4. QED BY <1>4, <2>1, <2>2, <2>3 DEF OwnersInv
<1>9. CASE AudioReceive
  <2>1. /\ audio.at = "wait" /\ audio'.at = "got" /\ audio'.mesg = Head(reply["aud"])
        /\ UNCHANGED <<iq, cmdq>>
        /\ reply["aud"] # <<>> /\ reply' = [reply EXCEPT !["aud"] = Tail(@)]
    BY <1>0, <1>9 DEF AudioReceive, AudioOK
  <2>2. DoneOnce(reply["aud"])
    BY <1>0, <1>1 DEF OwnInv
  <2>3. /\ DoneOnce(reply'["aud"]) /\ In(Head(reply["aud"]), reply["aud"])
        /\ \A y : In(y, reply'["aud"]) => In(y, reply["aud"])
        /\ Head(reply["aud"]) = "done" => ~In("done", reply'["aud"])
        /\ \A y \in Tasks : y # "aud" => reply'[y] = reply[y]
    BY <1>0, <2>1, <2>2, TakeAnswer
  <2>4. Fn("aud") => Head(reply["aud"]) = "done"
    BY <2>1 DEF Free
  <2>5. OwnInv(sc, pc, cmdq, reply', graph, audio')
    BY <1>0, <1>1, <1>2, <2>3, <2>4 DEF OwnInv
  <2>6. PathInv(reply', graph) /\ CancelInv(iq, reply', graph, audio', Timers, Work)
    BY <1>0, <1>1, <2>1, <2>3 DEF PathInv, CancelInv
  <2>7. QED BY <2>1, <2>5, <2>6 DEF OwnersInv
<1>10. CASE AudioGot
  <2>1. /\ audio.at = "got" /\ UNCHANGED <<cmdq, reply>> /\ audio.mesg \in {"done", "timeout"}
        /\ \/ audio.mesg = "done" /\ iq' = iq
           \/ audio'.at = "wait" /\ iq' = Post(iq, "audioCancel")
           \/ audio'.at = "dead" /\ iq' = iq
    BY <1>0, <1>10 DEF AudioGot, AudioOK, PostIrq
  <2>2. Fn("aud") => F("aud")
    BY <2>1 DEF Free
  <2>3. CancelInv(iq', reply, graph, audio', Timers, Work)
    BY <1>1, <1>3, <2>1 DEF CancelInv
  <2>4. QED BY <1>4, <2>1, <2>2, <2>3 DEF OwnersInv
<1>11. QED BY <1>5, <1>6, <1>7, <1>8, <1>9, <1>10 DEF AudioStep

\* A timer that expires, or a retrace.
LEMMA EnvironmentOwns ==
  ASSUME TypeInv, Owned, Environment
  PROVE  OwnersInv(iq', reply', graph', audio', Timers, Work, sc, pc, cmdq)
<1>0. /\ AudioOK(audio) /\ GraphOK(graph) /\ iq \in Seq(IrqMesgs) /\ "retrace" \in IrqMesgs
      /\ reply \in [Tasks -> Seq({"done", "timeout"})]
      /\ "gfx" \in Tasks /\ "jpeg" \in Tasks /\ "null" \in Tasks /\ "aud" \in Tasks
  BY DEF TypeInv, IrqMesgs, Tasks
<1>1. /\ OwnInv(sc, pc, cmdq, reply, graph, audio) /\ PathInv(reply, graph)
      /\ CancelInv(iq, reply, graph, audio, Timers, Work)
  BY DEF Owned, OwnersInv
<1>2. ASSUME NEW t \in Tasks, Expire(t)
      PROVE  /\ \A y \in Tasks : y # t => reply'[y] = reply[y]
             /\ In("done", reply'[t]) => In("done", reply[t])
             /\ DoneOnce(reply'[t])
  <2>1. DoneOnce(reply[t])
    BY <1>1 DEF OwnInv
  <2>2. CASE reply' = reply
    BY <2>1, <2>2
  <2>3. CASE reply' = [reply EXCEPT ![t] = Append(@, "timeout")]
    BY <1>0, <2>1, <2>3, AddAnswer
  <2>4. QED BY <1>2, <2>2, <2>3 DEF Expire
<1>3. CASE GraphTimeout
  <2>1. /\ graph.timer /\ "gfx" \in Timers /\ ~graph'.timer /\ Expire("gfx") /\ UNCHANGED <<iq, audio>>
        /\ graph'.at = graph.at /\ graph'.in = graph.in /\ graph'.task = graph.task
        /\ graph'.mesg = graph.mesg
    BY <1>0, <1>3 DEF GraphTimeout, GraphOK, Expire
  <2>2. graph.at \in {"wait", "got"}
    BY <1>1, <2>1 DEF PathInv
  <2>3. \A y \in Tasks : Free(graph', audio, y) <=> Free(graph, audio, y)
    BY <2>1 DEF Free
  <2>4. OwnInv(sc, pc, cmdq, reply', graph', audio)
    BY <1>0, <1>1, <1>2, <2>1, <2>3 DEF OwnInv
  <2>5. PathInv(reply', graph') /\ CancelInv(iq, reply', graph', audio, Timers, Work)
    BY <1>0, <1>1, <1>2, <2>1, <2>2 DEF PathInv, CancelInv
  <2>6. QED BY <2>1, <2>4, <2>5 DEF OwnersInv
<1>4. CASE AudioTimeout
  <2>1. Expire("aud") /\ UNCHANGED <<iq, graph>> /\ audio'.at = audio.at /\ audio'.mesg = audio.mesg
    BY <1>0, <1>4 DEF AudioTimeout, AudioOK, Expire
  <2>2. \A y \in Tasks : Free(graph, audio', y) <=> Free(graph, audio, y)
    BY <2>1 DEF Free
  <2>3. OwnInv(sc, pc, cmdq, reply', graph, audio')
    BY <1>0, <1>1, <1>2, <2>1, <2>2 DEF OwnInv
  <2>4. PathInv(reply', graph) /\ CancelInv(iq, reply', graph, audio', Timers, Work)
    BY <1>0, <1>1, <1>2, <2>1 DEF PathInv, CancelInv
  <2>5. QED BY <2>1, <2>3, <2>4 DEF OwnersInv
<1>5. CASE Retrace
  <2>1. /\ UNCHANGED <<reply, graph>> /\ audio'.at = audio.at /\ audio'.mesg = audio.mesg
        /\ iq' = Post(iq, "retrace")
    BY <1>0, <1>5 DEF Retrace, AudioOK, PostIrq
  <2>2. \A y \in Tasks : Free(graph, audio', y) <=> Free(graph, audio, y)
    BY <2>1 DEF Free
  <2>3. OwnInv(sc, pc, cmdq, reply, graph, audio')
    BY <1>1, <2>2, OwnSame
  <2>4. In("gfxCancel", iq') => In("gfxCancel", iq)
    BY <1>0, <2>1, PostIn
  <2>5. CancelInv(iq', reply, graph, audio', Timers, Work)
    BY <1>1, <2>1, <2>4 DEF CancelInv
  <2>6. QED BY <1>1, <2>1, <2>3, <2>5 DEF OwnersInv
<1>6. QED BY <1>3, <1>4, <1>5 DEF Environment

\* A step of the RSP or the RDP.
LEMMA HardwareOwns ==
  ASSUME TypeInv, Owned, Hardware
  PROVE  OwnersInv(iq', reply, graph, audio, Timers, Work, sc, pc, cmdq)
<1>1. iq \in Seq(IrqMesgs) /\ "rspDone" \in IrqMesgs /\ "rdpDone" \in IrqMesgs
  BY DEF TypeInv, IrqMesgs
<1>2. iq' = iq \/ iq' = Post(iq, "rspDone") \/ iq' = Post(iq, "rdpDone")
  BY DEF Hardware, RSPSync, RSPFinish, RSPYield, RDPFinish
<1>3. In("gfxCancel", iq') => In("gfxCancel", iq)
  BY <1>1, <1>2, PostIn
<1>4. QED BY <1>3 DEF Owned, OwnersInv, CancelInv

\* A step of the scheduler: it answers a task that it holds, and holds no new one.
LEMMA SchedOwns ==
  ASSUME TypeInv, Owned, NoYieldCancelled, NEW B, B <=> "aud" \notin Work,
         LinkInv(sc, pc, cmdq, B), SchedStep
  PROVE  /\ LinkInv(sc', pc', cmdq', B)
         /\ OwnersInv(iq', reply', graph, audio, Timers, Work, sc', pc', cmdq')
<1>0. /\ reply \in [Tasks -> Seq({"done", "timeout"})]
      /\ "gfx" \in Tasks /\ "jpeg" \in Tasks /\ "null" \in Tasks /\ "aud" \in Tasks
  BY DEF TypeInv, Tasks
<1>1. /\ OwnInv(sc, pc, cmdq, reply, graph, audio) /\ PathInv(reply, graph)
      /\ CancelInv(iq, reply, graph, audio, Timers, Work)
  BY DEF Owned, OwnersInv
<1>2. B => ~Holds(sc, pc, cmdq, "aud")
  <2>1. B => Free(graph, audio, "aud")
    BY <1>1 DEF CancelInv, Free
  <2>2. QED BY <1>0, <1>1, <2>1 DEF OwnInv
<1>3. In("gfxCancel", iq) => B
  BY <1>1 DEF CancelInv, NoYieldCancelled
<1>4. /\ LinkInv(sc', pc', cmdq', B)
      /\ \A y \in Tasks : Holds(sc', pc', cmdq', y) => Holds(sc, pc, cmdq, y)
      /\ \/ reply' = reply
         \/ \E t \in Tasks : /\ Sends(pc, t) /\ ~Holds(sc', pc', cmdq', t)
                             /\ reply' = [reply EXCEPT ![t] = Append(@, "done")]
  BY <1>2, <1>3, SchedLinks
<1>5. In("gfxCancel", iq') => In("gfxCancel", iq)
  BY SchedCancels
<1>6. OwnInv(sc', pc', cmdq', reply', graph, audio)
      /\ \A y \in Tasks : In("timeout", reply'[y]) => In("timeout", reply[y])
  <2>1. CASE reply' = reply
    BY <1>1, <1>4, <2>1 DEF OwnInv
  <2>2. ASSUME NEW t \in Tasks, Sends(pc, t), ~Holds(sc', pc', cmdq', t),
               reply' = [reply EXCEPT ![t] = Append(@, "done")]
        PROVE  OwnInv(sc', pc', cmdq', reply', graph, audio)
               /\ \A y \in Tasks : In("timeout", reply'[y]) => In("timeout", reply[y])
    <3>1. Holds(sc, pc, cmdq, t)
      BY <2>2 DEF Holds
    <3>2. ~Free(graph, audio, t) /\ ~In("done", reply[t]) /\ DoneOnce(reply[t])
      BY <1>1, <3>1 DEF OwnInv
    <3>3. /\ DoneOnce(reply'[t]) /\ \A y : In(y, reply'[t]) <=> In(y, reply[t]) \/ y = "done"
          /\ \A y \in Tasks : y # t => reply'[y] = reply[y]
      BY <1>0, <2>2, <3>2, AddAnswer
    <3>4. \A y \in Tasks : In("timeout", reply'[y]) => In("timeout", reply[y])
      BY <3>3
    <3>5. QED BY <1>1, <1>4, <2>2, <3>2, <3>3, <3>4 DEF OwnInv
  <2>3. QED BY <1>4, <2>1, <2>2
<1>7. PathInv(reply', graph) /\ CancelInv(iq', reply', graph, audio, Timers, Work)
  BY <1>0, <1>1, <1>5, <1>6 DEF PathInv, CancelInv
<1>8. QED BY <1>4, <1>6, <1>7 DEF OwnersInv

-----------------------------------------------------------------------------
(* The invariant of the lists, and what follows.                           *)

\* The invariant holds at the start.
LEMMA ListInit == Init => ListInv
<1> SUFFICES ASSUME Init PROVE ListInv
  OBVIOUS
<1> DEFINE B == "aud" \notin Work
<1>1. /\ \A y : ~In(y, <<>>)
      /\ Once(<<>>) /\ DoneOnce(<<>>)
  BY NoAnswer DEF Once
<1>2. /\ sc.audioList = <<>> /\ sc.gfxList = <<>> /\ sc.rsp = NoTask /\ sc.rdp = NoTask
      /\ \A t \in Tasks : sc.state[t] = {}
      /\ pc.at = "main" /\ iq = <<>> /\ cmdq = <<>>
      /\ \A t \in Tasks : reply[t] = <<>>
      /\ graph.at = "init" /\ graph.in = "init" /\ graph.task = "gfx" /\ graph.mesg = "done"
      /\ ~graph.timer /\ audio.at = "idle"
  BY Places DEF Init, SchedInit
<1>3. /\ "gfx" \in Tasks /\ "aud" \in Tasks /\ "jpeg" \in Tasks /\ "null" \in Tasks
      /\ NoTask \notin Tasks
  BY DEF Tasks, NoTask
<1>4. \A t \in Tasks : ~Listed(sc, t) /\ ~OnRSP(sc, pc, t) /\ ~Sends(pc, t)
                       /\ ~Holds(sc, pc, cmdq, t)
  BY <1>1, <1>2, <1>3 DEF Listed, OnRSP, Sends, Holds
<1>5. PlaceInv(sc, pc, cmdq)
  BY <1>1, <1>2, <1>4 DEF PlaceInv
<1>6. BitsInv(sc, pc) /\ NoYields(sc)
  BY <1>1, <1>2, <1>3, <1>4 DEF BitsInv, NoYields, NoTask
<1>7. LinkInv(sc, pc, cmdq, B)
  BY <1>5, <1>6 DEF LinkInv
<1>8. OwnInv(sc, pc, cmdq, reply, graph, audio)
  BY <1>1, <1>2, <1>4 DEF OwnInv
<1>9. PathInv(reply, graph) /\ CancelInv(iq, reply, graph, audio, Timers, Work)
  BY <1>1, <1>2, <1>3 DEF PathInv, CancelInv
<1>10. QED BY <1>7, <1>8, <1>9 DEF ListInv, Owned, OwnersInv

\* Every step keeps it.
LEMMA ListStep ==
  ASSUME TypeInv, ListInv, [Next]_vars
  PROVE  ListInv'
<1> DEFINE B == "aud" \notin Work
           Goal == LinkInv(sc', pc', cmdq', B)
                   /\ OwnersInv(iq', reply', graph', audio', Timers, Work, sc', pc', cmdq')
<1>1. setting' = setting
  BY GraphType, AudioType, EnvironmentType DEF Next, vars
<1>2. Timers' = Timers /\ Work' = Work /\ (NoYieldCancelled' <=> NoYieldCancelled)
  BY <1>1 DEF Timers, Work, NoYieldCancelled
<1>3. SUFFICES ASSUME NoYieldCancelled PROVE Goal
  BY <1>2 DEF ListInv, Owned
<1>4. LinkInv(sc, pc, cmdq, B) /\ Owned
  BY <1>3 DEF ListInv
<1>b. B <=> "aud" \notin Work
  OBVIOUS
<1> HIDE DEF B
<1>5. CASE SchedStep /\ UNCHANGED <<graph, audio, setting>>
  BY <1>3, <1>4, <1>5, <1>b, SchedOwns
<1>6. CASE Hardware /\ UNCHANGED <<graph, audio, setting>>
  BY <1>4, <1>6, HardwareType, HardwareOwns
<1>7. CASE GraphStep
  <2>1. UNCHANGED <<sc, pc, audio>>
    BY <1>7, GraphType
  <2>2. CASE GraphSend
    BY <1>4, <2>1, <2>2, GraphSendOwns
  <2>3. CASE ~GraphSend
    BY <1>4, <1>7, <2>1, <2>3, GraphOwns
  <2>4. QED BY <2>2, <2>3
<1>8. CASE AudioStep
  BY <1>4, <1>8, AudioType, AudioOwns
<1>9. CASE Environment
  BY <1>4, <1>9, EnvironmentType, EnvironmentOwns
<1>10. CASE UNCHANGED vars
  BY <1>4, <1>10 DEF vars, Owned
<1>11. QED BY <1>5, <1>6, <1>7, <1>8, <1>9, <1>10 DEF Next

\* The linked lists are lists.
LEMMA ListsSafe ==
  ASSUME TypeInv, ListInv
  PROVE  ListsIntact
<1> SUFFICES ASSUME NoYieldCancelled
             PROVE  /\ \A t \in Tasks :
                          Count(cmdq, t) + Count(sc.audioList, t) + Count(sc.gfxList, t) <= 1
                    /\ graph.at \in {"build", "drain", "send"} =>
                          graph.task \notin Range(cmdq) \cup Range(sc.gfxList)
                    /\ audio.at = "send" => "aud" \notin Range(cmdq) \cup Range(sc.audioList)
  BY DEF ListsIntact
<1>0. PlaceInv(sc, pc, cmdq) /\ OwnInv(sc, pc, cmdq, reply, graph, audio) /\ PathInv(reply, graph)
  BY DEF ListInv, LinkInv, Owned, OwnersInv
<1>1. /\ cmdq \in Seq(Tasks) /\ sc.audioList \in Seq({"aud"})
      /\ sc.gfxList \in Seq(Tasks \ {"aud"}) /\ ScOK(sc)
      /\ GraphOK(graph) /\ "aud" \in Tasks /\ graph.task \in Tasks \ {"aud"}
  BY DEF TypeInv, ScOK, GraphOK, Tasks
<1>2. ASSUME NEW t \in Tasks
      PROVE  Count(cmdq, t) + Count(sc.audioList, t) + Count(sc.gfxList, t) <= 1
  <2>1. /\ Count(cmdq, t) = IF In(t, cmdq) THEN 1 ELSE 0
        /\ Count(sc.audioList, t) = IF In(t, sc.audioList) THEN 1 ELSE 0
        /\ Count(sc.gfxList, t) = IF In(t, sc.gfxList) THEN 1 ELSE 0
    BY <1>0, <1>1, CountOnce DEF PlaceInv
  <2>2. ~(In(t, sc.audioList) /\ In(t, sc.gfxList))
    BY <1>1, ListKinds
  <2>3. In(t, cmdq) => ~In(t, sc.audioList) /\ ~In(t, sc.gfxList)
    BY <1>0 DEF PlaceInv, Listed
  <2>4. QED BY <2>1, <2>2, <2>3
<1>3. \A t \in Tasks : Free(graph, audio, t) =>
                          t \notin Range(cmdq) \cup Range(sc.audioList) \cup Range(sc.gfxList)
  <2> SUFFICES ASSUME NEW t \in Tasks, Free(graph, audio, t)
               PROVE  t \notin Range(cmdq) \cup Range(sc.audioList) \cup Range(sc.gfxList)
    OBVIOUS
  <2>1. ~In(t, cmdq) /\ ~In(t, sc.audioList) /\ ~In(t, sc.gfxList)
    BY <1>0 DEF OwnInv, Holds, Listed
  <2>2. \A q, S : q \in Seq(S) /\ ~In(t, q) => t \notin Range(q)
    BY DEF In, Range
  <2>3. QED BY <1>1, <2>1, <2>2
<1>4. graph.at \in {"build", "drain", "send"} => Free(graph, audio, graph.task)
  BY <1>0, <1>1 DEF Free, PathInv, Tasks
<1>5. audio.at = "send" => Free(graph, audio, "aud")
  BY DEF Free
<1>6. QED BY <1>1, <1>2, <1>3, <1>4, <1>5

-----------------------------------------------------------------------------
(* The theorems.                                                           *)

\* The invariant holds throughout.
THEOREM Invariant == Spec => [](TypeInv /\ IInv)
<1>1. Init => TypeInv /\ IInv
  BY TypeInit, InitConsistent DEF IInv, Consistent
<1>2. TypeInv /\ IInv /\ [Next]_vars => TypeInv' /\ IInv'
  BY TypeStep, ConsistentStep
<1>3. QED BY <1>1, <1>2, PTL DEF Spec

\* Every task that is sent is in one place until its sender is answered, and answered
\* once, if no timer expires: Sched_HandleRSPDone, Sched_HandleRDPDone and
\* Sched_TaskComplete lose none and answer none twice, in whatever order they run.
THEOREM OneAnswerHolds == Spec => []OneAnswer
<1>1. TypeInv /\ IInv => OneAnswer
  BY ConsistentSafe
<1>2. QED BY <1>1, Invariant, PTL

\* Sched_TaskComplete answers a task only when neither processor works on it, if no
\* timer expires (the comment above it, sched.c:327).
THEOREM DoneInTimeHolds == Spec => []DoneInTime
<1>1. TypeInv /\ IInv => DoneInTime
  BY ConsistentSafe
<1>2. QED BY <1>1, Invariant, PTL

\* The answer to a null task means that all tasks before it are done, if no timer expires
\* (Sched_FlushTaskQueue, z_nulltask.c).
THEOREM FlushDrainsHolds == Spec => []FlushDrains
<1>1. TypeInv /\ IInv => FlushDrains
  BY ConsistentSafe
<1>2. QED BY <1>1, Invariant, PTL

\* The RDP never draws into the framebuffer that is shown, if no frame is abandoned
\* (Sched_TaskFramebuffersValid, the two framebuffers of graph.c).
THEOREM NoTearHolds == Spec => []NoTear
<1>1. TypeInv /\ IInv => NoTear
  BY ConsistentSafe
<1>2. QED BY <1>1, Invariant, PTL

\* No task is linked twice, or written while it is linked, whatever timers expire and
\* whatever is cancelled, unless a graphics task may yield to an audio task and then be
\* cancelled (Sched_QueueTask, Sched_HandleGfxCancel).
THEOREM ListsIntactHolds == Spec => []ListsIntact
<1>1. Init => TypeInv /\ ListInv
  BY TypeInit, ListInit
<1>2. TypeInv /\ ListInv /\ [Next]_vars => (TypeInv /\ ListInv)'
  BY TypeStep, ListStep
<1>3. TypeInv /\ ListInv => ListsIntact
  BY ListsSafe
<1>4. QED BY <1>1, <1>2, <1>3, PTL DEF Spec

\* The CfbInfo of a frame that waits to be shown is not written by the graph thread, if
\* no frame is abandoned: three are enough (graph.c:210).
THEOREM FrameKeptHolds == Spec => FrameKept
<1> DEFINE A == Timers = {} /\ disp.pending # NoCfb /\ disp'.pending = disp.pending
                  => disp'.cfb[disp.pending].fb = disp.cfb[disp.pending].fb
                     /\ disp'.cfb[disp.pending].rate = disp.cfb[disp.pending].rate
<1>1. TypeInv /\ IInv /\ [Next]_vars => [A]_vars
  BY FrameKeptStep
<1> HIDE DEF A
<1>2. Spec => [][A]_vars
  BY <1>1, Invariant, PTL DEF Spec
<1>3. QED BY <1>2 DEF FrameKept, A

=============================================================================
