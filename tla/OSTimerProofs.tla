--------------------------- MODULE OSTimerProofs ---------------------------
(***************************************************************************)
(* Proofs about the timers: no timer expires early, none is put off by     *)
(* what is done with the others, but for the cycles between two readings   *)
(* of the counter and those the first is overdue, and the counter's        *)
(* interrupt always comes by the time of the first, for every number of    *)
(* timers, every width of the counter and every delay within the bounds of *)
(* OSTimer.                                                                *)
(*                                                                         *)
(* The argument is about sums: the i-th timer expires when the cycles of   *)
(* the first i have passed since timerCounter.  Every operation is shown   *)
(* to leave a list whose sums are those of the old one less what has been  *)
(* taken from the first timer.  That the difference of two readings is the *)
(* time between them rests on the interrupt being taken before the counter *)
(* has gone around, which is the other half of the invariant.              *)
(***************************************************************************)
EXTENDS OSTimer, Lists, TLAPS

-----------------------------------------------------------------------------
(* Arithmetic.                                                             *)

\* The larger of two numbers.
LEMMA MaxTwo ==
  ASSUME NEW a \in Int, NEW b \in Int
  PROVE  Max({a, b}) = IF a >= b THEN a ELSE b
<1> DEFINE m == IF a >= b THEN a ELSE b
<1>1. m \in {a, b} /\ \A y \in {a, b} : m >= y
  OBVIOUS
<1>2. \A x \in {a, b} : (\A y \in {a, b} : x >= y) => x = m
  OBVIOUS
<1> HIDE DEF m
<1>3. Max({a, b}) = m
  BY <1>1, <1>2 DEF Max
<1>4. QED BY <1>3 DEF m

\* The counter wraps around at most once.
LEMMA Wraps ==
  ASSUME NEW x \in Nat, x < 2 * Width
  PROVE  /\ x % Width = IF x < Width THEN x ELSE x - Width
         /\ x % Width \in 0 .. Width - 1
<1>1. Width \in Nat /\ Width > 0
  BY TimersAssumption
<1>2. CASE x < Width
  BY <1>1, <1>2
<1>3. CASE x >= Width
  <2>1. x - Width \in Nat /\ x - Width < Width
    BY <1>1, <1>3
  <2>2. (x - Width) % Width = x - Width
    BY <1>1, <2>1
  <2>3. x % Width = x - Width
    BY <1>1, <1>3, <2>1
  <2>4. QED BY <2>1, <2>3, <1>3, <1>1
<1>4. QED BY <1>2, <1>3, <1>1

-----------------------------------------------------------------------------
(* Sums over a list.                                                       *)

\* f is the function that SumOf is defined by, up to n.
Sums(q, v, n, f) ==
  f = [k \in 0 .. n |-> IF k = 0 THEN 0 ELSE f[k - 1] + v[q[k]]]

\* It exists for every length.
LEMMA SumsExist ==
  ASSUME NEW q, NEW v, NEW n \in Nat
  PROVE  \E f : Sums(q, v, n, f)
<1> DEFINE P == {m \in Nat : \E f : Sums(q, v, m, f)}
<1>1. 0 \in P
  <2>1. Sums(q, v, 0, [k \in 0 .. 0 |-> 0])
    BY DEF Sums
  <2>2. QED BY <2>1
<1>2. ASSUME NEW m \in Nat, m \in P PROVE m + 1 \in P
  <2>1. PICK f : Sums(q, v, m, f)
    BY <1>2
  <2> DEFINE g == [k \in 0 .. m + 1 |-> IF k <= m THEN f[k] ELSE f[m] + v[q[m + 1]]]
  <2>2. \A k \in 0 .. m + 1 : g[k] = IF k = 0 THEN 0 ELSE g[k - 1] + v[q[k]]
    <3> TAKE k \in 0 .. m + 1
    <3>1. CASE k = m + 1
      BY <3>1
    <3>2. CASE k = 0
      BY <3>2, <2>1 DEF Sums
    <3>3. CASE k \in 1 .. m
      <4>1. k \in 0 .. m /\ k - 1 \in 0 .. m /\ k # 0 /\ k <= m /\ k - 1 <= m
        BY <3>3
      <4>2. f[k] = f[k - 1] + v[q[k]]
        BY <4>1, <2>1 DEF Sums
      <4>3. g[k] = f[k] /\ g[k - 1] = f[k - 1]
        BY <4>1
      <4>4. QED BY <4>1, <4>2, <4>3
    <3>4. QED BY <3>1, <3>2, <3>3
  <2>3. Sums(q, v, m + 1, g)
    BY <2>2 DEF Sums
  <2>4. QED BY <2>3
<1> HIDE DEF P
<1>3. Nat \subseteq P
  BY <1>1, <1>2, NatInduct
<1>4. QED BY <1>3 DEF P

\* A timer expires the cycles it keeps after the one before it.
LEMMA SumStep ==
  ASSUME NEW q \in Seq(Timers), NEW v
  PROVE  /\ SumOf(q, v, 0) = 0
         /\ \A k \in 1 .. Len(q) : SumOf(q, v, k) = SumOf(q, v, k - 1) + v[q[k]]
<1> DEFINE f == CHOOSE f : Sums(q, v, Len(q), f)
<1>1. Len(q) \in Nat
  OBVIOUS
<1>2. Sums(q, v, Len(q), f)
  BY <1>1, SumsExist
<1>3. \A i : SumOf(q, v, i) = f[i]
  BY DEF SumOf, Sums
<1> HIDE DEF f
<1>4. f[0] = 0 /\ \A k \in 1 .. Len(q) : f[k] = f[k - 1] + v[q[k]]
  BY <1>1, <1>2 DEF Sums
<1>5. QED BY <1>3, <1>4

\* The timers expire in the order of the list.
LEMMA SumNat ==
  ASSUME NEW q \in Seq(Timers), NEW v \in [Timers -> Nat]
  PROVE  \A k \in 0 .. Len(q) : /\ SumOf(q, v, k) \in Nat
                                /\ \A i \in 0 .. k : SumOf(q, v, i) <= SumOf(q, v, k)
<1> DEFINE s(i) == SumOf(q, v, i)
           P == {k \in Nat : k <= Len(q) =>
                   s(k) \in Nat /\ \A i \in 0 .. k : s(i) \in Nat /\ s(i) <= s(k)}
<1>1. Len(q) \in Nat /\ \A i \in 1 .. Len(q) : q[i] \in Timers /\ v[q[i]] \in Nat
  OBVIOUS
<1>2. s(0) = 0 /\ \A k \in 1 .. Len(q) : s(k) = s(k - 1) + v[q[k]]
  BY SumStep
<1> HIDE DEF s
<1>3. 0 \in P
  BY <1>2
<1>4. ASSUME NEW k \in Nat, k \in P PROVE k + 1 \in P
  <2> SUFFICES ASSUME k + 1 <= Len(q)
               PROVE  s(k + 1) \in Nat /\ \A i \in 0 .. k + 1 : s(i) \in Nat /\ s(i) <= s(k + 1)
    OBVIOUS
  <2>1. s(k) \in Nat /\ \A i \in 0 .. k : s(i) \in Nat /\ s(i) <= s(k)
    BY <1>4, <1>1
  <2>2. k + 1 \in 1 .. Len(q) /\ (k + 1) - 1 = k
    BY <1>1
  <2>3. s(k + 1) = s(k) + v[q[k + 1]] /\ v[q[k + 1]] \in Nat
    BY <2>2, <1>1, <1>2
  <2>4. s(k + 1) \in Nat /\ s(k) <= s(k + 1)
    BY <2>1, <2>3
  <2>5. ASSUME NEW i \in 0 .. k + 1 PROVE s(i) \in Nat /\ s(i) <= s(k + 1)
    <3>1. CASE i = k + 1
      BY <3>1, <2>4
    <3>2. CASE i \in 0 .. k
      BY <3>2, <2>1, <2>4
    <3>3. QED BY <3>1, <3>2
  <2>6. QED BY <2>4, <2>5
<1> HIDE DEF P
<1>5. Nat \subseteq P
  BY <1>3, <1>4, NatInduct
<1>6. ASSUME NEW k \in 0 .. Len(q)
      PROVE  s(k) \in Nat /\ \A i \in 0 .. k : s(i) <= s(k)
  BY <1>5, <1>6, <1>1 DEF P
<1>7. QED BY <1>6 DEF s

\* The first timer keeps the cycles from the counter.
LEMMA SumFirst ==
  ASSUME NEW q \in Seq(Timers), NEW v \in [Timers -> Nat], q # <<>>
  PROVE  1 \in 1 .. Len(q) /\ q[1] \in Timers /\ v[q[1]] \in Nat /\ SumOf(q, v, 1) = v[q[1]]
<1>1. Len(q) \in Nat /\ Len(q) >= 1
  BY EmptySeq
<1>2. q[1] \in Timers /\ v[q[1]] \in Nat
  BY <1>1
<1>3. PICK k \in 1 .. Len(q) : k = 1
  BY <1>1
<1>4. SumOf(q, v, 0) = 0 /\ SumOf(q, v, k) = SumOf(q, v, k - 1) + v[q[k]]
  BY SumStep
<1>5. k - 1 = 0
  BY <1>3
<1>6. SumOf(q, v, 1) = 0 + v[q[1]]
  BY <1>3, <1>4, <1>5
<1>7. QED BY <1>1, <1>2, <1>6

\* From a to b the timers of r keep the cycles w that those of q, d places further, keep in
\* v; up to a they are c cycles apart.
Apart(q, v, r, w, a, b, c, d) ==
  /\ q \in Seq(Timers) /\ v \in [Timers -> Nat] /\ r \in Seq(Timers) /\ w \in [Timers -> Nat]
  /\ a \in Nat /\ b \in Nat /\ a <= b /\ b <= Len(r)
  /\ d \in Int /\ 0 <= a + d /\ b + d <= Len(q) /\ c \in Int
  /\ SumOf(r, w, a) + c = SumOf(q, v, a + d)
  /\ \A i \in a + 1 .. b : w[r[i]] = v[q[i + d]]

\* Then they stay so.
LEMMA SumShift ==
  ASSUME NEW q, NEW v, NEW r, NEW w, NEW a, NEW b, NEW c, NEW d, Apart(q, v, r, w, a, b, c, d)
  PROVE  \A i \in a .. b : SumOf(r, w, i) + c = SumOf(q, v, i + d)
<1>a. /\ q \in Seq(Timers) /\ v \in [Timers -> Nat] /\ r \in Seq(Timers) /\ w \in [Timers -> Nat]
      /\ a \in Nat /\ b \in Nat /\ a <= b /\ b <= Len(r)
      /\ d \in Int /\ 0 <= a + d /\ b + d <= Len(q) /\ c \in Int
      /\ SumOf(r, w, a) + c = SumOf(q, v, a + d)
      /\ \A i \in a + 1 .. b : w[r[i]] = v[q[i + d]]
  BY DEF Apart
<1> DEFINE s(i) == SumOf(q, v, i)
           u(i) == SumOf(r, w, i)
           P == {n \in Nat : a + n <= b => u(a + n) + c = s(a + n + d)}
<1>0. Len(q) \in Nat /\ Len(r) \in Nat
  BY <1>a
<1>1. /\ \A i \in 0 .. Len(q) : s(i) \in Nat
      /\ \A i \in 0 .. Len(r) : u(i) \in Nat
  <2>1. \A i \in 0 .. Len(q) : SumOf(q, v, i) \in Nat
    BY <1>a, SumNat
  <2>2. \A i \in 0 .. Len(r) : SumOf(r, w, i) \in Nat
    BY <1>a, SumNat
  <2>3. QED BY <1>a, <2>1, <2>2
<1>2. /\ \A k \in 1 .. Len(q) : s(k) = s(k - 1) + v[q[k]]
      /\ \A k \in 1 .. Len(r) : u(k) = u(k - 1) + w[r[k]]
  BY <1>a, SumStep
<1>3. \A i \in 1 .. Len(r) : w[r[i]] \in Nat
  BY <1>a
<1>4. u(a) + c = s(a + d)
  BY <1>a
<1> HIDE DEF s, u
<1>5. 0 \in P
  BY <1>a, <1>4
<1>6. ASSUME NEW n \in Nat, n \in P PROVE n + 1 \in P
  <2> SUFFICES ASSUME a + (n + 1) <= b PROVE u(a + (n + 1)) + c = s(a + (n + 1) + d)
    BY <1>a
  <2>1. PICK k \in Int : k = a + (n + 1)
    BY <1>a
  <2>2. PICK l \in Int : l = k + d
    BY <1>a
  <2>3. k \in a + 1 .. b /\ k \in 1 .. Len(r) /\ k - 1 \in 0 .. Len(r)
    BY <1>a, <2>1, <1>0
  <2>4. l \in 1 .. Len(q) /\ l - 1 \in 0 .. Len(q)
    BY <1>a, <2>1, <2>2, <1>0
  <2>5. u(k - 1) + c = s(l - 1)
    <3>1. u(a + n) + c = s(a + n + d)
      BY <1>a, <1>6
    <3>2. a + n = k - 1 /\ a + n + d = l - 1
      BY <1>a, <2>1, <2>2
    <3>3. QED BY <1>a, <3>1, <3>2
  <2>6. w[r[k]] = v[q[l]]
    BY <1>a, <2>2, <2>3
  <2>7. u(k) = u(k - 1) + w[r[k]] /\ s(l) = s(l - 1) + v[q[l]]
    BY <1>a, <2>3, <2>4, <1>2
  <2>8. u(k - 1) \in Nat /\ w[r[k]] \in Nat /\ s(l - 1) \in Nat
    BY <1>a, <2>3, <2>4, <1>1, <1>3
  <2>9. u(k) + c = s(l)
    <3>1. \A x, y \in Nat : (x + y) + c = (x + c) + y
      BY <1>a
    <3>2. u(k) + c = (u(k - 1) + c) + w[r[k]]
      BY <1>a, <2>7, <2>8, <3>1
    <3>3. QED BY <1>a, <3>2, <2>5, <2>6, <2>7
  <2>10. QED BY <1>a, <2>9, <2>1, <2>2
<1> HIDE DEF P
<1>7. Nat \subseteq P
  BY <1>a, <1>5, <1>6, NatInduct
<1>8. ASSUME NEW i \in a .. b PROVE u(i) + c = s(i + d)
  <2>1. i - a \in P /\ a + (i - a) = i /\ i <= b
    BY <1>a, <1>7
  <2>2. QED BY <1>a, <2>1 DEF P
<1>9. QED BY <1>a, <1>8 DEF s, u

-----------------------------------------------------------------------------
(* What the operations do to the list.                                     *)

TypeInv ==
  /\ list \in Seq(Timers) /\ Once(list)
  /\ value \in [Timers -> Nat]
  /\ timerCounter \in 0 .. Width - 1 /\ count \in 0 .. Width - 1 /\ compare \in 0 .. Width - 1
  /\ pending \in BOOLEAN /\ vimgr \in {"wait", "loop"}
  /\ owner \in [Timers -> {"idle", "waits", "stops", "dead"}]
  /\ left \in [Timers -> Nat]
  /\ \A i \in 1 .. Len(list) : owner[list[i]] \in {"waits", "stops"}

\* In the list r with the cycles w there are timers of list, with c cycles less to go than v
\* gives them.
Come(r, w, v, c) ==
  \A j \in 1 .. Len(r) :
    \E i \in 1 .. Len(list) : r[j] = list[i] /\ SumOf(r, w, j) = Sum(v, i) - c

\* The timers that a new one passes are the first of the list.
LEMMA PassedIs ==
  ASSUME list \in Seq(Timers), NEW v \in [Timers -> Nat], NEW tim \in Nat
  PROVE  /\ Passed(v, tim) \in 0 .. Len(list)
         /\ \A i \in 1 .. Passed(v, tim) : Sum(v, i) < tim
         /\ \A i \in Passed(v, tim) + 1 .. Len(list) : tim <= Sum(v, i)
<1> DEFINE s(i) == Sum(v, i)
           S == {i \in DOMAIN list : tim > s(i)}
           F == {i \in 1 .. Len(list) : tim <= s(i)}
<1>1. Len(list) \in Nat /\ DOMAIN list = 1 .. Len(list)
  OBVIOUS
<1>2. \A k \in 0 .. Len(list) : s(k) \in Nat /\ \A i \in 0 .. k : s(i) <= s(k)
  BY SumNat DEF Sum
<1>3. Passed(v, tim) = Cardinality(S)
  BY DEF Passed
<1> HIDE DEF s
<1>4. PICK p \in 0 .. Len(list) : /\ \A i \in 1 .. p : s(i) < tim
                                 /\ \A i \in p + 1 .. Len(list) : tim <= s(i)
  <2>1. CASE F = {}
    <3>1. \A i \in 1 .. Len(list) : s(i) < tim
      BY <2>1, <1>1, <1>2
    <3>2. Len(list) \in 0 .. Len(list) /\ \A i \in Len(list) + 1 .. Len(list) : tim <= s(i)
      BY <1>1
    <3>3. QED BY <3>1, <3>2
  <2>2. CASE F # {}
    <3> HIDE DEF F
    <3>0. F \subseteq Nat
      BY DEF F
    <3>1. PICK x \in F : \A y \in F : x <= y
      BY <2>2, <3>0, LeastNat
    <3> USE DEF F
    <3>2. x - 1 \in 0 .. Len(list)
      BY <1>1
    <3>3. ASSUME NEW i \in 1 .. x - 1 PROVE s(i) < tim
      <4>1. i \in 1 .. Len(list) /\ i \notin F
        BY <3>1, <1>1
      <4>2. QED BY <4>1, <1>2, <1>1
    <3>4. ASSUME NEW i \in (x - 1) + 1 .. Len(list) PROVE tim <= s(i)
      <4>1. i \in 0 .. Len(list) /\ x \in 0 .. i /\ x \in 0 .. Len(list) /\ tim <= s(x)
        BY <1>1
      <4>2. s(x) <= s(i) /\ s(x) \in Nat /\ s(i) \in Nat
        BY <4>1, <1>2
      <4>3. QED BY <4>1, <4>2
    <3>5. QED BY <3>2, <3>3, <3>4
  <2>3. QED BY <2>1, <2>2
<1>5. S = 1 .. p
  <2>1. ASSUME NEW i \in S PROVE i \in 1 .. p
    <3>1. i \in 1 .. Len(list) /\ tim > s(i) /\ s(i) \in Nat
      BY <1>1, <1>2
    <3>2. QED BY <3>1, <1>4, <1>1
  <2>2. ASSUME NEW i \in 1 .. p PROVE i \in S
    <3>1. i \in 1 .. Len(list) /\ s(i) < tim /\ s(i) \in Nat
      BY <1>1, <1>2, <1>4
    <3>2. QED BY <3>1, <1>1
  <2>3. QED BY <2>1, <2>2
<1>6. Cardinality(1 .. p) = p
  <2>1. 1 \in Int /\ p \in Int /\ p \in Nat
    BY <1>1
  <2>2. Cardinality(1 .. p) = IF 1 > p THEN 0 ELSE p - 1 + 1
    BY ONLY <2>1, FS_Interval
  <2>3. QED BY <2>1, <2>2
<1>7. Passed(v, tim) = p
  BY <1>3, <1>5, <1>6
<1>8. QED BY <1>7, <1>4 DEF s

\* The first timer has less time: so have all.
LEMMA FirstLess ==
  ASSUME TypeInv, list # <<>>, NEW c \in 0 .. value[list[1]], NEW w,
         w = [value EXCEPT ![list[1]] = @ - c]
  PROVE  w \in [Timers -> Nat] /\ Come(list, w, value, c)
         /\ \A i \in 1 .. Len(list) : Sum(w, i) = Sum(value, i) - c
<1>1. /\ list \in Seq(Timers) /\ Len(list) \in Nat /\ Len(list) >= 1 /\ value \in [Timers -> Nat]
      /\ list[1] \in Timers /\ value[list[1]] \in Nat /\ c \in Nat /\ c \in Int
  BY EmptySeq DEF TypeInv
<1>2. w \in [Timers -> Nat] /\ w[list[1]] = value[list[1]] - c
  BY <1>1
<1>3. \A i \in 1 + 1 .. Len(list) : w[list[i]] = value[list[i + 0]]
  <2> SUFFICES ASSUME NEW i \in 1 + 1 .. Len(list) PROVE w[list[i]] = value[list[i]]
    OBVIOUS
  <2>1. list[i] # list[1] /\ list[i] \in Timers
    BY <1>1 DEF TypeInv, Once
  <2>2. QED BY <2>1, <1>1
<1>4. SumOf(list, w, 1) + c = SumOf(list, value, 1)
  <2>1. SumOf(list, w, 1) = w[list[1]] /\ SumOf(list, value, 1) = value[list[1]]
    BY <1>1, <1>2, SumFirst
  <2>2. QED BY <2>1, <1>1, <1>2
<1>5. \A i \in 1 .. Len(list) : SumOf(list, w, i) + c = SumOf(list, value, i)
  <2>1. Apart(list, value, list, w, 1, Len(list), c, 0)
    BY <1>1, <1>2, <1>3, <1>4 DEF Apart
  <2>5. \A i \in 1 .. Len(list) : SumOf(list, w, i) + c = SumOf(list, value, i + 0)
    BY <2>1, SumShift
  <2>6. ASSUME NEW i \in 1 .. Len(list) PROVE SumOf(list, w, i) + c = SumOf(list, value, i)
    <3>1. i + 0 = i
      OBVIOUS
    <3>2. QED BY <3>1, <2>5
  <2>7. QED BY <2>6
<1>6. ASSUME NEW i \in 1 .. Len(list) PROVE SumOf(list, w, i) = SumOf(list, value, i) - c
  <2>1. i \in 0 .. Len(list)
    BY <1>1
  <2>2. SumOf(list, w, i) \in Nat /\ SumOf(list, value, i) \in Nat
    BY <2>1, <1>1, <1>2, SumNat
  <2>3. SumOf(list, w, i) + c = SumOf(list, value, i)
    BY <1>5
  <2>4. QED BY <2>2, <2>3, <1>1
<1>7. QED BY <1>2, <1>6 DEF Sum, Come

\* The first timer expires: the others count from there.
LEMMA TailSums ==
  ASSUME TypeInv, list # <<>>, NEW w, w = [value EXCEPT ![list[1]] = 0]
  PROVE  /\ w \in [Timers -> Nat] /\ Tail(list) \in Seq(Timers)
         /\ Come(Tail(list), w, value, value[list[1]])
<1>1. /\ list \in Seq(Timers) /\ Len(list) \in Nat /\ Len(list) >= 1 /\ value \in [Timers -> Nat]
      /\ list[1] \in Timers /\ value[list[1]] \in Nat
  BY EmptySeq DEF TypeInv
<1>2. w \in [Timers -> Nat]
  BY <1>1
<1>3. /\ Tail(list) \in Seq(Timers) /\ Len(Tail(list)) = Len(list) - 1
      /\ \A i \in 1 .. Len(list) - 1 : Tail(list)[i] = list[i + 1]
  BY <1>1, HeadTailProperties
<1>4. \A i \in 0 + 1 .. Len(Tail(list)) : w[Tail(list)[i]] = value[list[i + 1]]
  <2> SUFFICES ASSUME NEW i \in 1 .. Len(list) - 1 PROVE w[list[i + 1]] = value[list[i + 1]]
    BY <1>3
  <2>1. list[i + 1] # list[1] /\ list[i + 1] \in Timers
    BY <1>1 DEF TypeInv, Once
  <2>2. QED BY <2>1, <1>1
<1>5. SumOf(Tail(list), w, 0) + value[list[1]] = SumOf(list, value, 1)
  <2>1. SumOf(Tail(list), w, 0) = 0
    BY <1>3, SumStep
  <2>2. SumOf(list, value, 1) = value[list[1]]
    BY <1>1, SumFirst
  <2>3. QED BY <2>1, <2>2, <1>1
<1>6. \A i \in 0 .. Len(Tail(list)) :
         SumOf(Tail(list), w, i) + value[list[1]] = SumOf(list, value, i + 1)
  <2>1. Apart(list, value, Tail(list), w, 0, Len(Tail(list)), value[list[1]], 1)
    BY <1>1, <1>2, <1>3, <1>4, <1>5 DEF Apart
  <2>2. QED BY <2>1, SumShift
<1>7. ASSUME NEW j \in 1 .. Len(Tail(list))
      PROVE  \E i \in 1 .. Len(list) :
                /\ Tail(list)[j] = list[i]
                /\ SumOf(Tail(list), w, j) = SumOf(list, value, i) - value[list[1]]
  <2>1. j \in 0 .. Len(Tail(list)) /\ j + 1 \in 1 .. Len(list) /\ j + 1 \in 0 .. Len(list)
        /\ Tail(list)[j] = list[j + 1]
    BY <1>1, <1>3
  <2>2. SumOf(Tail(list), w, j) \in Nat
    BY <2>1, <1>2, <1>3, SumNat
  <2>3. SumOf(list, value, j + 1) \in Nat
    BY <2>1, <1>1, SumNat
  <2>4. SumOf(Tail(list), w, j) + value[list[1]] = SumOf(list, value, j + 1)
    BY <2>1, <1>6
  <2>5. SumOf(Tail(list), w, j) = SumOf(list, value, j + 1) - value[list[1]]
    BY <2>2, <2>3, <2>4, <1>1
  <2>6. QED BY <2>1, <2>5
<1>8. QED BY <1>2, <1>3, <1>7 DEF Come, Sum

\* What is in a list when one of it is taken out.
LEMMA RemoveAtIs ==
  ASSUME NEW q \in Seq(Timers), NEW k \in 1 .. Len(q)
  PROVE  LET r == RemoveAt(q, k)
         IN  /\ r \in Seq(Timers) /\ Len(r) = Len(q) - 1
             /\ \A i \in 1 .. k - 1 : r[i] = q[i]
             /\ \A i \in k .. Len(q) - 1 : r[i] = q[i + 1]
<1> DEFINE x == SubSeq(q, 1, k - 1)
           y == SubSeq(q, k + 1, Len(q))
<1>1. Len(q) \in Nat /\ \A i \in 1 .. Len(q) : q[i] \in Timers
  OBVIOUS
<1>2. /\ x \in Seq(Timers) /\ Len(x) = k - 1 /\ \A i \in 1 .. k - 1 : x[i] = q[i]
  <2>1. 1 \in Int /\ k - 1 \in Int /\ \A i \in 1 .. k - 1 : q[i] \in Timers
    BY <1>1
  <2>2. /\ x \in Seq(Timers) /\ Len(x) = IF 1 <= k - 1 THEN (k - 1) - 1 + 1 ELSE 0
        /\ \A i \in 1 .. (k - 1) - 1 + 1 : x[i] = q[1 + i - 1]
    BY <2>1, SubSeqProperties
  <2>3. ASSUME NEW i \in 1 .. k - 1 PROVE x[i] = q[i]
    <3>1. i \in 1 .. (k - 1) - 1 + 1 /\ 1 + i - 1 = i
      BY <1>1
    <3>2. QED BY <3>1, <2>2
  <2>4. QED BY <2>2, <2>3, <1>1
<1>3. /\ y \in Seq(Timers) /\ Len(y) = Len(q) - k /\ \A i \in 1 .. Len(q) - k : y[i] = q[k + i]
  <2>1. k + 1 \in Int /\ Len(q) \in Int /\ \A i \in k + 1 .. Len(q) : q[i] \in Timers
    BY <1>1
  <2>2. /\ y \in Seq(Timers) /\ Len(y) = IF k + 1 <= Len(q) THEN Len(q) - (k + 1) + 1 ELSE 0
        /\ \A i \in 1 .. Len(q) - (k + 1) + 1 : y[i] = q[(k + 1) + i - 1]
    BY <2>1, SubSeqProperties
  <2>3. ASSUME NEW i \in 1 .. Len(q) - k PROVE y[i] = q[k + i]
    <3>1. i \in 1 .. Len(q) - (k + 1) + 1 /\ (k + 1) + i - 1 = k + i
      BY <1>1
    <3>2. QED BY <3>1, <2>2
  <2>4. QED BY <2>2, <2>3, <1>1
<1>4. RemoveAt(q, k) = x \o y
  BY DEF RemoveAt
<1> HIDE DEF x, y
<1>5. /\ x \o y \in Seq(Timers) /\ Len(x \o y) = Len(x) + Len(y)
      /\ \A i \in 1 .. Len(x) + Len(y) : (x \o y)[i] = IF i <= Len(x) THEN x[i] ELSE y[i - Len(x)]
  BY <1>2, <1>3, ConcatProperties
<1>6. ASSUME NEW i \in 1 .. k - 1 PROVE (x \o y)[i] = q[i]
  <2>1. i \in 1 .. Len(x) + Len(y) /\ i <= Len(x)
    BY <1>1, <1>2, <1>3
  <2>2. QED BY <2>1, <1>2, <1>5
<1>7. ASSUME NEW i \in k .. Len(q) - 1 PROVE (x \o y)[i] = q[i + 1]
  <2>1. /\ i \in 1 .. Len(x) + Len(y) /\ ~ (i <= Len(x)) /\ i - Len(x) \in 1 .. Len(q) - k
        /\ k + (i - Len(x)) = i + 1
    BY <1>1, <1>2, <1>3
  <2>2. QED BY <2>1, <1>3, <1>5
<1>8. Len(x \o y) = Len(q) - 1
  BY <1>1, <1>2, <1>3, <1>5
<1>9. QED BY <1>4, <1>5, <1>6, <1>7, <1>8

\* What is in a list when one is put into it.
LEMMA InsertAtIs ==
  ASSUME NEW q \in Seq(Timers), NEW k \in 1 .. Len(q) + 1, NEW t \in Timers
  PROVE  LET r == InsertAt(q, k, t)
         IN  /\ r \in Seq(Timers) /\ Len(r) = Len(q) + 1
             /\ \A i \in 1 .. k - 1 : r[i] = q[i]
             /\ r[k] = t
             /\ \A i \in k + 1 .. Len(q) + 1 : r[i] = q[i - 1]
<1>0. PICK p \in 0 .. Len(q) : k = p + 1
  <2>1. k - 1 \in 0 .. Len(q) /\ k = (k - 1) + 1
    OBVIOUS
  <2>2. QED BY <2>1
<1> DEFINE x == SubSeq(q, 1, p)
           y == SubSeq(q, p + 1, Len(q))
           z == x \o <<t>>
<1>1. Len(q) \in Nat /\ \A i \in 1 .. Len(q) : q[i] \in Timers
  OBVIOUS
<1>2. /\ x \in Seq(Timers) /\ Len(x) = p /\ \A i \in 1 .. p : x[i] = q[i]
  <2>1. 1 \in Int /\ p \in Int /\ \A i \in 1 .. p : q[i] \in Timers
    BY <1>1
  <2>2. /\ x \in Seq(Timers) /\ Len(x) = IF 1 <= p THEN p - 1 + 1 ELSE 0
        /\ \A i \in 1 .. p - 1 + 1 : x[i] = q[1 + i - 1]
    BY <2>1, SubSeqProperties
  <2>3. ASSUME NEW i \in 1 .. p PROVE x[i] = q[i]
    <3>1. i \in 1 .. p - 1 + 1 /\ 1 + i - 1 = i
      BY <1>1
    <3>2. QED BY <3>1, <2>2
  <2>4. QED BY <2>2, <2>3, <1>1
<1>3. /\ y \in Seq(Timers) /\ Len(y) = Len(q) - p /\ \A i \in 1 .. Len(q) - p : y[i] = q[p + i]
  <2>1. p + 1 \in Int /\ Len(q) \in Int /\ \A i \in p + 1 .. Len(q) : q[i] \in Timers
    BY <1>1
  <2>2. /\ y \in Seq(Timers) /\ Len(y) = IF p + 1 <= Len(q) THEN Len(q) - (p + 1) + 1 ELSE 0
        /\ \A i \in 1 .. Len(q) - (p + 1) + 1 : y[i] = q[(p + 1) + i - 1]
    BY <2>1, SubSeqProperties
  <2>3. ASSUME NEW i \in 1 .. Len(q) - p PROVE y[i] = q[p + i]
    <3>1. i \in 1 .. Len(q) - (p + 1) + 1 /\ (p + 1) + i - 1 = p + i
      BY <1>1
    <3>2. QED BY <3>1, <2>2
  <2>4. QED BY <2>2, <2>3, <1>1
<1>4. InsertAt(q, k, t) = z \o y
  <2>1. k - 1 = p
    BY <1>0, <1>1
  <2>2. QED BY <2>1, <1>0 DEF InsertAt
<1>5. <<t>> \in Seq(Timers) /\ Len(<<t>>) = 1 /\ <<t>>[1] = t
  OBVIOUS
<1> HIDE DEF x, y
<1>6. /\ z \in Seq(Timers) /\ Len(z) = p + 1 /\ (\A i \in 1 .. p : z[i] = q[i]) /\ z[p + 1] = t
  <2>1. /\ z \in Seq(Timers) /\ Len(z) = Len(x) + Len(<<t>>)
        /\ \A i \in 1 .. Len(x) + Len(<<t>>) : z[i] = IF i <= Len(x) THEN x[i] ELSE <<t>>[i - Len(x)]
    BY <1>2, <1>5, ConcatProperties
  <2>2. ASSUME NEW i \in 1 .. p PROVE z[i] = q[i]
    <3>1. i \in 1 .. Len(x) + Len(<<t>>) /\ i <= Len(x)
      BY <1>1, <1>2, <1>5
    <3>2. QED BY <3>1, <2>1, <1>2
  <2>3. z[p + 1] = t
    <3>1. p + 1 \in 1 .. Len(x) + Len(<<t>>) /\ ~ (p + 1 <= Len(x)) /\ (p + 1) - Len(x) = 1
      BY <1>1, <1>2, <1>5
    <3>2. QED BY <3>1, <2>1, <1>5
  <2>4. Len(z) = p + 1
    BY <2>1, <1>2, <1>5, <1>1
  <2>5. QED BY <2>1, <2>2, <2>3, <2>4
<1> HIDE DEF z
<1>7. /\ z \o y \in Seq(Timers) /\ Len(z \o y) = Len(z) + Len(y)
      /\ \A i \in 1 .. Len(z) + Len(y) : (z \o y)[i] = IF i <= Len(z) THEN z[i] ELSE y[i - Len(z)]
  BY <1>3, <1>6, ConcatProperties
<1>8. ASSUME NEW i \in 1 .. p + 1 PROVE (z \o y)[i] = z[i]
  <2>1. i \in 1 .. Len(z) + Len(y) /\ i <= Len(z)
    BY <1>1, <1>3, <1>6
  <2>2. QED BY <2>1, <1>7
<1>9. ASSUME NEW i \in p + 2 .. Len(q) + 1 PROVE (z \o y)[i] = q[i - 1]
  <2>1. /\ i \in 1 .. Len(z) + Len(y) /\ ~ (i <= Len(z)) /\ i - Len(z) \in 1 .. Len(q) - p
        /\ p + (i - Len(z)) = i - 1
    BY <1>1, <1>3, <1>6
  <2>2. QED BY <2>1, <1>3, <1>7
<1>10. Len(z \o y) = Len(q) + 1
  BY <1>1, <1>3, <1>6, <1>7
<1>11. ASSUME NEW i \in 1 .. p PROVE (z \o y)[i] = q[i]
  <2>1. i \in 1 .. p + 1
    BY <1>1
  <2>2. QED BY <2>1, <1>6, <1>8
<1>12. (z \o y)[p + 1] = t
  <2>1. p + 1 \in 1 .. p + 1
    BY <1>1
  <2>2. QED BY <2>1, <1>6, <1>8
<1>13. ASSUME NEW i \in 1 .. k - 1 PROVE i \in 1 .. p
  BY <1>0
<1>14. ASSUME NEW i \in k + 1 .. Len(q) + 1 PROVE i \in p + 2 .. Len(q) + 1
  BY <1>0
<1>15. (z \o y)[k] = t
  BY <1>0, <1>12
<1>16. QED BY <1>4, <1>7, <1>9, <1>10, <1>11, <1>13, <1>14, <1>15

\* osStopTimer takes a timer out: the others expire when they would have.
LEMMA UnlinkSums ==
  ASSUME TypeInv, NEW t \in Timers, Listed(t), Unlink(t)
  PROVE  /\ list' \in Seq(Timers) /\ Once(list') /\ Len(list') = Len(list) - 1
         /\ value' \in [Timers -> Nat]
         /\ \A j \in 1 .. Len(list') : list'[j] # t
         /\ Come(list', value', value, 0)
<1> DEFINE k == CHOOSE i \in DOMAIN list : list[i] = t
           r == list'
           w == value'
<1>1. /\ list \in Seq(Timers) /\ Len(list) \in Nat /\ DOMAIN list = 1 .. Len(list)
      /\ value \in [Timers -> Nat] /\ Once(list)
      /\ \A i \in 1 .. Len(list) : list[i] \in Timers /\ value[list[i]] \in Nat
  BY DEF TypeInv
<1>2. k \in 1 .. Len(list) /\ list[k] = t
  <2>1. \E i \in DOMAIN list : list[i] = t
    BY DEF Listed, ToSet
  <2>2. QED BY <2>1, <1>1
<1>3. /\ r = RemoveAt(list, k)
      /\ w = IF k < Len(list) THEN [value EXCEPT ![list[k + 1]] = @ + value[t], ![t] = 0]
             ELSE [value EXCEPT ![t] = 0]
  BY DEF Unlink
<1> HIDE DEF k, r, w
<1>4. /\ r \in Seq(Timers) /\ Len(r) = Len(list) - 1
      /\ \A i \in 1 .. k - 1 : r[i] = list[i]
      /\ \A i \in k .. Len(list) - 1 : r[i] = list[i + 1]
  BY <1>1, <1>2, <1>3, RemoveAtIs
<1>5. ASSUME NEW j \in 1 .. Len(r)
      PROVE  /\ j < k => j \in 1 .. k - 1 /\ j \in 1 .. Len(list) /\ r[j] = list[j]
             /\ j >= k => j \in k .. Len(list) - 1 /\ j + 1 \in 1 .. Len(list) /\ r[j] = list[j + 1]
             /\ r[j] # t
  <2>1. j < k => j \in 1 .. k - 1 /\ j \in 1 .. Len(list) /\ j # k
    BY <1>1, <1>2, <1>4
  <2>2. j >= k => j \in k .. Len(list) - 1 /\ j + 1 \in 1 .. Len(list) /\ j + 1 # k
    BY <1>1, <1>2, <1>4
  <2>3. \A i \in 1 .. Len(list) : i # k => list[i] # t
    BY <1>1, <1>2 DEF Once
  <2>4. QED BY <2>1, <2>2, <2>3, <1>2, <1>4
<1>6. Once(r)
  <2> SUFFICES ASSUME NEW i \in 1 .. Len(r), NEW j \in 1 .. Len(r), r[i] = r[j] PROVE i = j
    BY DEF Once
  <2>1. \A x, y \in 1 .. Len(list) : list[x] = list[y] => x = y
    BY <1>1 DEF Once
  <2>2. CASE i < k /\ j < k
    BY <2>1, <2>2, <1>5
  <2>3. CASE i >= k /\ j >= k
    <3>1. i + 1 = j + 1
      BY <2>1, <2>3, <1>5
    <3>2. QED BY <3>1
  <2>4. CASE i < k /\ j >= k
    <3>1. i = j + 1
      BY <2>1, <2>4, <1>5
    <3>2. QED BY <3>1, <2>4, <1>2
  <2>5. CASE i >= k /\ j < k
    <3>1. i + 1 = j
      BY <2>1, <2>5, <1>5
    <3>2. QED BY <3>1, <2>5, <1>2
  <2>6. QED BY <2>2, <2>3, <2>4, <2>5, <1>2
<1>7. /\ w \in [Timers -> Nat]
      /\ \A y \in Timers : y # t /\ (k < Len(list) => y # list[k + 1]) => w[y] = value[y]
      /\ k < Len(list) => w[list[k + 1]] = value[list[k + 1]] + value[t]
  <2>1. CASE k < Len(list)
    <3>1. k + 1 \in 1 .. Len(list) /\ k + 1 # k
      BY <2>1, <1>2, <1>1
    <3>2. list[k + 1] \in Timers /\ list[k + 1] # t
      BY <3>1, <1>1, <1>2 DEF Once
    <3>3. PICK u \in Timers : u = list[k + 1]
      BY <3>2
    <3>4. w = [value EXCEPT ![u] = @ + value[t], ![t] = 0]
      BY <2>1, <3>3, <1>3
    <3>5. value[u] + value[t] \in Nat /\ 0 \in Nat /\ u # t
      BY <3>2, <3>3, <1>1
    <3>6. w \in [Timers -> Nat] /\ w[u] = value[u] + value[t]
      BY <3>4, <3>5, <1>1
    <3>7. \A y \in Timers : y # t /\ y # u => w[y] = value[y]
      BY <3>4, <1>1
    <3>8. QED BY <3>3, <3>6, <3>7, <2>1
  <2>2. CASE ~ (k < Len(list))
    BY <2>2, <1>1, <1>3
  <2>3. QED BY <2>1, <2>2
<1>8. ASSUME NEW j \in 1 .. k - 1 PROVE w[r[j]] = value[list[j]]
  <2>1. j \in 1 .. Len(list) /\ j # k /\ j # k + 1 /\ (k < Len(list) => k + 1 \in 1 .. Len(list))
    BY <1>1, <1>2
  <2>2. list[j] # t /\ (k < Len(list) => list[j] # list[k + 1]) /\ list[j] \in Timers
    BY <2>1, <1>1, <1>2 DEF Once
  <2>3. QED BY <2>2, <1>4, <1>7
<1>9. ASSUME NEW j \in k + 1 .. Len(list) - 1 PROVE w[r[j]] = value[list[j + 1]]
  <2>1. j + 1 \in 1 .. Len(list) /\ j + 1 # k /\ j + 1 # k + 1 /\ k + 1 \in 1 .. Len(list)
        /\ j \in k .. Len(list) - 1
    BY <1>1, <1>2
  <2>2. list[j + 1] # t /\ list[j + 1] # list[k + 1] /\ list[j + 1] \in Timers
    BY <2>1, <1>1, <1>2 DEF Once
  <2>3. QED BY <2>1, <2>2, <1>4, <1>7
<1>10. \A i \in 0 .. k - 1 : SumOf(r, w, i) = SumOf(list, value, i)
  <2>1. SumOf(r, w, 0) = 0 /\ SumOf(list, value, 0) = 0
    BY <1>1, <1>4, SumStep
  <2>2. Apart(list, value, r, w, 0, k - 1, 0, 0)
    BY <2>1, <1>1, <1>2, <1>4, <1>7, <1>8 DEF Apart
  <2>3. \A i \in 0 .. k - 1 : SumOf(r, w, i) + 0 = SumOf(list, value, i + 0)
    BY <2>2, SumShift
  <2>4. ASSUME NEW i \in 0 .. k - 1 PROVE SumOf(r, w, i) = SumOf(list, value, i)
    <3>1. i \in 0 .. Len(r) /\ i + 0 = i
      BY <1>1, <1>2, <1>4
    <3>2. SumOf(r, w, i) \in Nat
      BY <3>1, <1>4, <1>7, SumNat
    <3>3. SumOf(r, w, i) + 0 = SumOf(list, value, i)
      BY <3>1, <2>3
    <3>4. QED BY <3>2, <3>3
  <2>5. QED BY <2>4
<1>11. \A i \in k .. Len(list) - 1 : SumOf(r, w, i) = SumOf(list, value, i + 1)
  <2>0. CASE k = Len(list)
    BY <2>0, <1>1
  <2>z. k = Len(list) \/ k < Len(list)
    <3>1. Len(list) \in Nat /\ k \in 1 .. Len(list)
      BY <1>1, <1>2
    <3>2. QED BY ONLY <3>1
  <2>a. SUFFICES ASSUME k < Len(list)
                 PROVE \A i \in k .. Len(list) - 1 : SumOf(r, w, i) = SumOf(list, value, i + 1)
    BY <2>0, <2>z
  <2>b. PICK m \in Nat : m = k - 1
    BY <1>2, <1>1
  <2>c. PICK n \in Nat : n = k + 1
    BY <1>2, <1>1
  <2>1. k \in 1 .. Len(r) /\ k \in 1 .. Len(list) /\ n \in 1 .. Len(list) /\ m \in 0 .. Len(list)
        /\ n - 1 = k /\ k \in k .. Len(list) - 1
    BY <2>a, <2>b, <2>c, <1>1, <1>2, <1>4
  <2>2. SumOf(r, w, k) = SumOf(r, w, m) + w[r[k]]
    BY <2>1, <2>b, <1>4, SumStep
  <2>3. SumOf(list, value, k) = SumOf(list, value, m) + value[list[k]]
    BY <2>1, <2>b, <1>1, SumStep
  <2>4. SumOf(list, value, n) = SumOf(list, value, k) + value[list[n]]
    BY <2>1, <1>1, SumStep
  <2>5. SumOf(r, w, m) = SumOf(list, value, m)
    BY <2>b, <1>10, <1>2
  <2>6. w[r[k]] = value[list[n]] + value[list[k]]
    BY <2>1, <2>a, <2>c, <1>2, <1>4, <1>7
  <2>7. SumOf(list, value, m) \in Nat /\ value[list[n]] \in Nat /\ value[list[k]] \in Nat
    BY <2>1, <1>1, SumNat
  <2>8. SumOf(r, w, k) = SumOf(list, value, n)
    BY <2>2, <2>3, <2>4, <2>5, <2>6, <2>7
  <2>9. SumOf(list, value, n) \in Nat
    <3>1. n \in 0 .. Len(list)
      BY <2>1
    <3>2. QED BY <3>1, <1>1, SumNat
  <2>10. SumOf(r, w, k) + 0 = SumOf(list, value, k + 1)
    BY <2>8, <2>9, <2>c
  <2>11. Apart(list, value, r, w, k, Len(list) - 1, 0, 1)
    <3>1. k \in Nat /\ Len(list) - 1 \in Nat /\ k <= Len(list) - 1 /\ Len(list) - 1 <= Len(r)
          /\ 0 <= k + 1 /\ (Len(list) - 1) + 1 <= Len(list)
      BY <2>1, <1>1, <1>4
    <3>2. \A i \in k + 1 .. Len(list) - 1 : w[r[i]] = value[list[i + 1]]
      BY <1>9
    <3>3. QED BY <3>1, <3>2, <2>10, <1>1, <1>4, <1>7 DEF Apart
  <2>12. \A i \in k .. Len(list) - 1 : SumOf(r, w, i) + 0 = SumOf(list, value, i + 1)
    BY <2>11, SumShift
  <2>13. ASSUME NEW i \in k .. Len(list) - 1 PROVE SumOf(r, w, i) = SumOf(list, value, i + 1)
    <3>1. i \in 0 .. Len(r)
      BY <1>1, <1>2, <1>4
    <3>2. SumOf(r, w, i) \in Nat
      BY <3>1, <1>4, <1>7, SumNat
    <3>3. QED BY <3>2, <2>12
  <2>14. QED BY <2>13
<1>12. ASSUME NEW j \in 1 .. Len(r)
       PROVE  \E i \in 1 .. Len(list) : r[j] = list[i] /\ SumOf(r, w, j) = Sum(value, i) - 0
  <2>1. PICK i \in 1 .. Len(list) : r[j] = list[i] /\ SumOf(r, w, j) = SumOf(list, value, i)
    <3>1. CASE j < k
      <4>1. j \in 0 .. k - 1 /\ j \in 1 .. Len(list) /\ r[j] = list[j]
        BY <3>1, <1>5, <1>2, <1>1
      <4>2. SumOf(r, w, j) = SumOf(list, value, j)
        BY <4>1, <1>10
      <4>3. QED BY <4>1, <4>2
    <3>2. CASE j >= k
      <4>1. j \in k .. Len(list) - 1 /\ j + 1 \in 1 .. Len(list) /\ r[j] = list[j + 1]
        BY <3>2, <1>5
      <4>2. SumOf(r, w, j) = SumOf(list, value, j + 1)
        BY <4>1, <1>11
      <4>3. QED BY <4>1, <4>2
    <3>3. QED BY <3>1, <3>2, <1>1, <1>2, <1>4
  <2>2. SumOf(list, value, i) \in Nat
    <3>1. i \in 0 .. Len(list)
      BY <1>1
    <3>2. QED BY <3>1, <1>1, SumNat
  <2>3. QED BY <2>1, <2>2 DEF Sum
<1>13. /\ r \in Seq(Timers) /\ Once(r) /\ Len(r) = Len(list) - 1
       /\ w \in [Timers -> Nat]
       /\ \A j \in 1 .. Len(r) : r[j] # t
       /\ Come(r, w, value, 0)
  BY <1>4, <1>5, <1>6, <1>7, <1>12 DEF Come
<1>14. QED BY <1>13 DEF r, w

\* __osInsertTimer puts a timer into the list: it expires after tim cycles, and the others
\* when they would have.
LEMMA InsertSums ==
  ASSUME TypeInv, NEW t \in Timers, ~ In(t, list), NEW v \in [Timers -> Nat],
         NEW tim \in Nat \ {0}, InsertTimer(t, tim, v)
  PROVE  /\ list' \in Seq(Timers) /\ Once(list') /\ list' # <<>>
         /\ value' \in [Timers -> Nat]
         /\ \A j \in 1 .. Len(list') :
              \/ list'[j] = t /\ SumOf(list', value', j) = tim
              \/ \E i \in 1 .. Len(list) : list'[j] = list[i] /\ SumOf(list', value', j) = Sum(v, i)
<1> DEFINE p == Passed(v, tim)
           rest == Rest(v, tim)
           r == list'
           w == value'
<1>1. /\ list \in Seq(Timers) /\ Len(list) \in Nat /\ DOMAIN list = 1 .. Len(list)
      /\ Once(list) /\ tim \in Nat /\ tim > 0
      /\ \A i \in 1 .. Len(list) : list[i] \in Timers /\ v[list[i]] \in Nat /\ list[i] # t
  BY DEF TypeInv, In
<1>2. /\ p \in 0 .. Len(list)
      /\ \A i \in 1 .. p : SumOf(list, v, i) < tim
      /\ \A i \in p + 1 .. Len(list) : tim <= SumOf(list, v, i)
  BY <1>1, PassedIs DEF Sum
<1>3. rest = tim - SumOf(list, v, p)
  BY DEF Rest, Sum
<1>4. /\ r = InsertAt(list, p + 1, t)
      /\ w = IF p + 1 \in DOMAIN list
             THEN [[v EXCEPT ![t] = rest] EXCEPT ![list[p + 1]] = @ - rest]
             ELSE [v EXCEPT ![t] = rest]
  BY DEF InsertTimer
<1> HIDE DEF p, rest, r, w
<1>5. /\ r \in Seq(Timers) /\ Len(r) = Len(list) + 1
      /\ \A i \in 1 .. p : r[i] = list[i]
      /\ r[p + 1] = t
      /\ \A i \in p + 2 .. Len(list) + 1 : r[i] = list[i - 1]
  <2>1. PICK k \in 1 .. Len(list) + 1 : k = p + 1
    BY <1>1, <1>2
  <2>2. r = InsertAt(list, k, t)
    BY <2>1, <1>4
  <2>3. /\ r \in Seq(Timers) /\ Len(r) = Len(list) + 1
        /\ \A i \in 1 .. k - 1 : r[i] = list[i]
        /\ r[k] = t
        /\ \A i \in k + 1 .. Len(list) + 1 : r[i] = list[i - 1]
    <3>1. list \in Seq(Timers) /\ k \in 1 .. Len(list) + 1 /\ t \in Timers
      BY <1>1
    <3>2. LET u == InsertAt(list, k, t)
          IN  /\ u \in Seq(Timers) /\ Len(u) = Len(list) + 1
              /\ \A i \in 1 .. k - 1 : u[i] = list[i]
              /\ u[k] = t
              /\ \A i \in k + 1 .. Len(list) + 1 : u[i] = list[i - 1]
      BY ONLY <3>1, InsertAtIs
    <3>3. QED BY <2>2, <3>2
  <2>4. ASSUME NEW i \in 1 .. p PROVE i \in 1 .. k - 1
    BY <2>1, <1>2, <1>1
  <2>5. ASSUME NEW i \in p + 2 .. Len(list) + 1 PROVE i \in k + 1 .. Len(list) + 1
    BY <2>1, <1>2, <1>1
  <2>6. QED BY <2>1, <2>3, <2>4, <2>5
<1>6. /\ \A i \in 0 .. Len(list) : SumOf(list, v, i) \in Nat
      /\ SumOf(list, v, 0) = 0
      /\ \A i \in 1 .. Len(list) : SumOf(list, v, i) = SumOf(list, v, i - 1) + v[list[i]]
  BY <1>1, SumNat, SumStep
<1>7. /\ rest \in Nat /\ rest <= tim /\ SumOf(list, v, p) + rest = tim
      /\ p < Len(list) => v[list[p + 1]] - rest \in Nat
  <2>1. SumOf(list, v, p) \in Nat /\ SumOf(list, v, p) < tim
    <3>1. CASE p = 0
      BY <3>1, <1>1, <1>6
    <3>2. CASE p \in 1 .. Len(list)
      <4>1. p \in 1 .. p /\ p \in 0 .. Len(list)
        BY <3>2, <1>1
      <4>2. QED BY <4>1, <1>2, <1>6
    <3>3. QED BY <3>1, <3>2, <1>1, <1>2
  <2>2. rest \in Nat /\ rest <= tim /\ SumOf(list, v, p) + rest = tim
    BY <2>1, <1>1, <1>3
  <2>3. ASSUME p < Len(list) PROVE v[list[p + 1]] - rest \in Nat
    <3>1. PICK n \in Nat : n = p + 1
      BY <1>1, <1>2
    <3>2. n \in p + 1 .. Len(list) /\ n \in 1 .. Len(list) /\ n - 1 = p
      BY <3>1, <2>3, <1>1, <1>2
    <3>3. tim <= SumOf(list, v, n) /\ SumOf(list, v, n) = SumOf(list, v, p) + v[list[n]]
          /\ v[list[n]] \in Nat
      BY <3>2, <1>1, <1>2, <1>6
    <3>4. tim <= SumOf(list, v, p) + v[list[n]]
      BY <3>3
    <3>5. v[list[n]] - rest \in Nat
      BY <3>3, <3>4, <2>1, <2>2, <1>1
    <3>6. QED BY <3>1, <3>5
  <2>4. QED BY <2>2, <2>3
<1>8. /\ w \in [Timers -> Nat] /\ w[t] = rest
      /\ p < Len(list) => w[list[p + 1]] = v[list[p + 1]] - rest
      /\ \A y \in Timers : y # t /\ (p < Len(list) => y # list[p + 1]) => w[y] = v[y]
  <2>1. CASE p < Len(list)
    <3>1. p + 1 \in 1 .. Len(list)
      BY <2>1, <1>1, <1>2
    <3>2. PICK u \in Timers : u = list[p + 1] /\ u # t
      BY <3>1, <1>1
    <3>3. w = [[v EXCEPT ![t] = rest] EXCEPT ![u] = @ - rest]
      BY <3>1, <3>2, <1>1, <1>4
    <3>4. v[u] - rest \in Nat
      BY <2>1, <3>2, <1>7
    <3> DEFINE one == [v EXCEPT ![t] = rest]
    <3>5. one \in [Timers -> Nat] /\ one[t] = rest /\ \A y \in Timers : y # t => one[y] = v[y]
      BY <1>7
    <3>6. w = [one EXCEPT ![u] = @ - rest]
      BY <3>3
    <3> HIDE DEF one
    <3>7. one[u] = v[u]
      BY <3>2, <3>5
    <3>8. w \in [Timers -> Nat] /\ w[u] = v[u] - rest /\ \A y \in Timers : y # u => w[y] = one[y]
      BY <3>4, <3>5, <3>6, <3>7
    <3>9. QED BY <3>2, <3>5, <3>8, <2>1
  <2>2. CASE ~ (p < Len(list))
    <3>1. p + 1 \notin DOMAIN list
      BY <2>2, <1>1, <1>2
    <3>2. w = [v EXCEPT ![t] = rest]
      BY <3>1, <1>4
    <3>3. QED BY <3>2, <2>2, <1>7
  <2>3. QED BY <2>1, <2>2
<1>9. \A i \in 0 .. p : SumOf(r, w, i) = SumOf(list, v, i)
  <2>1. SumOf(r, w, 0) = 0
    BY <1>5, SumStep
  <2>2. ASSUME NEW i \in 0 + 1 .. p PROVE w[r[i]] = v[list[i + 0]]
    <3>1. /\ i \in 1 .. p /\ i \in 1 .. Len(list) /\ i # p + 1
          /\ (p < Len(list) => p + 1 \in 1 .. Len(list))
      BY <1>1, <1>2
    <3>2. list[i] # t /\ (p < Len(list) => list[i] # list[p + 1]) /\ list[i] \in Timers
      BY <3>1, <1>1 DEF Once
    <3>3. w[r[i]] = v[list[i]] /\ i + 0 = i
      BY <3>1, <3>2, <1>5, <1>8
    <3>4. QED BY <3>3
  <2>3. p \in Nat /\ 0 \in Nat /\ 0 <= p /\ p <= Len(r) /\ 0 \in Int /\ 0 <= 0 + 0 /\ p + 0 <= Len(list)
    BY <1>1, <1>2, <1>5
  <2>4. Apart(list, v, r, w, 0, p, 0, 0)
    BY <2>1, <2>2, <2>3, <1>1, <1>5, <1>6, <1>8 DEF Apart
  <2>5. \A i \in 0 .. p : SumOf(r, w, i) + 0 = SumOf(list, v, i + 0)
    BY <2>4, SumShift
  <2>6. ASSUME NEW i \in 0 .. p PROVE SumOf(r, w, i) = SumOf(list, v, i)
    <3>1. i \in 0 .. Len(r) /\ i + 0 = i
      BY <1>1, <1>2, <1>5
    <3>2. SumOf(r, w, i) \in Nat
      BY <3>1, <1>5, <1>8, SumNat
    <3>3. SumOf(r, w, i) + 0 = SumOf(list, v, i)
      BY <3>1, <2>5
    <3>4. QED BY <3>2, <3>3
  <2>7. QED BY <2>6
<1>10. PICK n \in Nat : n = p + 1
  BY <1>1, <1>2
<1>11. SumOf(r, w, n) = tim
  <2>1. n \in 1 .. Len(r) /\ n - 1 = p /\ p \in 0 .. p
    BY <1>1, <1>2, <1>5, <1>10
  <2>2. SumOf(r, w, n) = SumOf(r, w, p) + w[r[n]]
    BY <2>1, <1>5, SumStep
  <2>3. SumOf(r, w, p) = SumOf(list, v, p) /\ w[r[n]] = rest
    BY <2>1, <1>5, <1>8, <1>9, <1>10
  <2>4. QED BY <2>2, <2>3, <1>7
<1>12. \A i \in n + 1 .. Len(list) + 1 : SumOf(r, w, i) = SumOf(list, v, i - 1)
  <2>0. CASE p = Len(list)
    <3>1. n + 1 > Len(list) + 1
      BY <2>0, <1>1, <1>10
    <3>2. QED BY <3>1, <1>1
  <2>z. p = Len(list) \/ p < Len(list)
    <3>1. Len(list) \in Nat /\ p \in 0 .. Len(list)
      BY <1>1, <1>2
    <3>2. QED BY ONLY <3>1
  <2>a. SUFFICES ASSUME p < Len(list)
                 PROVE \A i \in n + 1 .. Len(list) + 1 : SumOf(r, w, i) = SumOf(list, v, i - 1)
    BY <2>0, <2>z
  <2>b. PICK m \in Nat : m = n + 1
    BY <1>10
  <2>1. /\ m \in 1 .. Len(r) /\ m - 1 = n /\ n \in 1 .. Len(list) /\ n - 1 = p
        /\ m \in p + 2 .. Len(list) + 1
        /\ n \in 0 .. Len(list)
    BY <2>a, <2>b, <1>1, <1>2, <1>5, <1>10
  <2>2. SumOf(r, w, m) = SumOf(r, w, n) + w[r[m]]
    BY <2>1, <1>5, SumStep
  <2>3. SumOf(list, v, n) = SumOf(list, v, p) + v[list[n]] /\ v[list[n]] \in Nat
    BY <2>1, <1>1, <1>6
  <2>4. w[r[m]] = v[list[n]] - rest
    BY <2>1, <2>a, <1>5, <1>8, <1>10
  <2>5. SumOf(list, v, p) \in Nat /\ SumOf(list, v, n) \in Nat
    BY <2>1, <1>2, <1>6
  <2>6. SumOf(r, w, m) = tim + (v[list[n]] - rest)
    BY <2>2, <2>4, <1>11
  <2>7. SumOf(r, w, m) = SumOf(list, v, n)
    BY <2>3, <2>5, <2>6, <1>1, <1>7
  <2>8. SumOf(r, w, m) + 0 = SumOf(list, v, m + (-1)) /\ m + (-1) = n
    BY <2>7, <2>5, <2>1
  <2>9. ASSUME NEW i \in m + 1 .. Len(list) + 1 PROVE w[r[i]] = v[list[i + (-1)]]
    <3>1. i \in p + 2 .. Len(list) + 1 /\ i - 1 \in 1 .. Len(list) /\ i - 1 # n /\ i + (-1) = i - 1
      BY <2>b, <1>1, <1>2, <1>10
    <3>2. list[i - 1] # t /\ list[i - 1] # list[p + 1] /\ list[i - 1] \in Timers
      BY <3>1, <2>1, <1>1, <1>10 DEF Once
    <3>3. w[r[i]] = v[list[i - 1]]
      BY <3>1, <3>2, <1>5, <1>8
    <3>4. QED BY <3>1, <3>3
  <2>10. Len(list) + 1 \in Nat /\ m <= Len(list) + 1 /\ Len(list) + 1 <= Len(r) /\ -1 \in Int
         /\ 0 <= m + (-1) /\ (Len(list) + 1) + (-1) <= Len(list)
    BY <2>1, <1>1, <1>5
  <2>11. Apart(list, v, r, w, m, Len(list) + 1, 0, -1)
    BY <2>8, <2>9, <2>10, <1>1, <1>5, <1>8 DEF Apart
  <2>12. \A i \in m .. Len(list) + 1 : SumOf(r, w, i) + 0 = SumOf(list, v, i + (-1))
    BY <2>11, SumShift
  <2>13. ASSUME NEW i \in n + 1 .. Len(list) + 1 PROVE SumOf(r, w, i) = SumOf(list, v, i - 1)
    <3>1. i \in 0 .. Len(r) /\ i \in m .. Len(list) + 1 /\ i + (-1) = i - 1
      BY <1>1, <1>5, <2>b
    <3>2. SumOf(r, w, i) \in Nat
      BY <3>1, <1>5, <1>8, SumNat
    <3>3. SumOf(r, w, i) + 0 = SumOf(list, v, i - 1)
      BY <3>1, <2>12
    <3>4. QED BY <3>2, <3>3
  <2>14. QED BY <2>13
<1>13. ASSUME NEW j \in 1 .. Len(r)
       PROVE  \/ j = n
              \/ /\ j \in 1 .. p /\ j \in 1 .. Len(list) /\ r[j] = list[j]
                 /\ SumOf(r, w, j) = SumOf(list, v, j)
              \/ /\ j \in n + 1 .. Len(list) + 1 /\ j - 1 \in 1 .. Len(list) /\ r[j] = list[j - 1]
                 /\ SumOf(r, w, j) = SumOf(list, v, j - 1)
  <2>1. j = n \/ j \in 1 .. p \/ j \in n + 1 .. Len(list) + 1
    BY <1>1, <1>2, <1>5, <1>10
  <2>2. ASSUME j \in 1 .. p
        PROVE  j \in 1 .. Len(list) /\ r[j] = list[j] /\ SumOf(r, w, j) = SumOf(list, v, j)
    <3>1. j \in 0 .. p /\ j \in 1 .. Len(list)
      BY <2>2, <1>1, <1>2
    <3>2. QED BY <2>2, <3>1, <1>5, <1>9
  <2>3. ASSUME j \in n + 1 .. Len(list) + 1
        PROVE  j - 1 \in 1 .. Len(list) /\ r[j] = list[j - 1] /\ SumOf(r, w, j) = SumOf(list, v, j - 1)
    <3>1. j \in p + 2 .. Len(list) + 1 /\ j - 1 \in 1 .. Len(list)
      BY <2>3, <1>1, <1>2, <1>10
    <3>2. QED BY <2>3, <3>1, <1>5, <1>12
  <2>4. QED BY <2>1, <2>2, <2>3
<1>14. Once(r)
  <2>0. SUFFICES ASSUME NEW i \in 1 .. Len(r), NEW j \in 1 .. Len(r), r[i] = r[j], i < j PROVE FALSE
    <3>1. \A i, j \in 1 .. Len(r) : r[i] = r[j] => ~ (i < j)
      BY <2>0
    <3>2. ASSUME NEW i \in 1 .. Len(r), NEW j \in 1 .. Len(r), r[i] = r[j] PROVE i = j
      <4>1. i \in Int /\ j \in Int /\ ~ (i < j) /\ ~ (j < i)
        BY <3>1, <3>2, <1>1, <1>5
      <4>2. QED BY ONLY <4>1
    <3>3. QED BY <3>2 DEF Once
  <2>1. \A x, y \in 1 .. Len(list) : list[x] = list[y] => x = y
    BY <1>1 DEF Once
  <2>2. \A x \in 1 .. Len(list) : list[x] # t
    BY <1>1
  <2>3. r[n] = t
    BY <1>5, <1>10
  <2>4. CASE i = n
    <3>1. j \in n + 1 .. Len(list) + 1 /\ r[j] = list[j - 1] /\ j - 1 \in 1 .. Len(list)
      BY <2>0, <2>4, <1>1, <1>2, <1>10, <1>13
    <3>2. QED BY <3>1, <2>0, <2>2, <2>3, <2>4
  <2>5. CASE j = n
    <3>1. r[i] = list[i] /\ i \in 1 .. Len(list)
      BY <2>0, <2>5, <1>1, <1>2, <1>10, <1>13
    <3>2. QED BY <3>1, <2>0, <2>2, <2>3, <2>5
  <2>6. CASE i # n /\ j # n
    <3>1. \/ r[i] = list[i] /\ i \in 1 .. Len(list) /\ i < n
          \/ r[i] = list[i - 1] /\ i - 1 \in 1 .. Len(list) /\ i > n
      BY <2>0, <2>6, <1>1, <1>2, <1>10, <1>13
    <3>2. \/ r[j] = list[j] /\ j \in 1 .. Len(list) /\ j < n
          \/ r[j] = list[j - 1] /\ j - 1 \in 1 .. Len(list) /\ j > n
      BY <2>0, <2>6, <1>1, <1>2, <1>10, <1>13
    <3>3. i \in Int /\ j \in Int
      BY <1>5, <1>1
    <3>4. i = j \/ (i = j - 1 /\ i < n /\ j > n) \/ i - 1 = j \/ i - 1 = j - 1
      BY <2>0, <3>1, <3>2, <2>1
    <3>5. QED BY <2>0, <3>3, <3>4, <1>10
  <2>7. QED BY <2>4, <2>5, <2>6
<1>15. ASSUME NEW j \in 1 .. Len(r)
       PROVE  \/ r[j] = t /\ SumOf(r, w, j) = tim
              \/ \E i \in 1 .. Len(list) : r[j] = list[i] /\ SumOf(r, w, j) = Sum(v, i)
  <2>1. CASE j = n
    BY <2>1, <1>5, <1>10, <1>11
  <2>2. CASE j # n
    BY <2>2, <1>13 DEF Sum
  <2>3. QED BY <2>1, <2>2
<1>16. r # <<>>
  BY <1>1, <1>5
<1>17. QED BY <1>5, <1>8, <1>14, <1>15, <1>16 DEF r, w

-----------------------------------------------------------------------------
(* The inductive invariant.                                                *)

\* All timers expire within a round of the counter, and the first not at once.
SpanInv ==
  /\ \A i \in 1 .. Len(list) : Sum(value, i) < Width - Least
  /\ vimgr = "wait" /\ list # <<>> => value[list[1]] >= 1

\* The cycles from timerCounter within which the interrupt comes.
Ahead == Max({value[list[1]], Least})

\* The interrupt comes while the first timer's cycles, counted from timerCounter, last.
ArmedInv ==
  vimgr = "wait" /\ list # <<>> /\ ~pending =>
    \E n \in 1 .. Width : n + Elapsed(count) <= Ahead /\ Later(count, n) = compare

\* The VI manager takes it before the counter wraps around.
TimelyInv == list # <<>> => Elapsed(count) <= Ahead

IInv == SpanInv /\ ArmedInv /\ TimelyInv /\ NeverEarly

-----------------------------------------------------------------------------
(* The counter.                                                            *)

\* The cycles from y to x.
Diff(x, y) == (x - y + Width) % Width

\* What is assumed of the constants.
LEMMA Constants ==
  /\ Width \in Nat /\ Least \in Nat /\ Least >= 1 /\ 2 * Least <= Width /\ Gap \in Nat /\ Gap < Least
  /\ Width > 0 /\ Least < Width /\ Gap < Width /\ 3 * Gap < Width
  /\ Countdowns \subseteq 1 .. Width - Least - 1
BY TimersAssumption

\* The counter n cycles later.
LEMMA LaterIs ==
  ASSUME NEW c \in 0 .. Width - 1, NEW n \in 0 .. Width
  PROVE  /\ Later(c, n) = IF c + n < Width THEN c + n ELSE c + n - Width
         /\ Later(c, n) \in 0 .. Width - 1
<1>1. PICK x \in Nat : x = c + n /\ x < 2 * Width
  BY Constants
<1>2. /\ x % Width = IF x < Width THEN x ELSE x - Width
      /\ x % Width \in 0 .. Width - 1
  BY <1>1, Wraps
<1>3. Later(c, n) = x % Width
  BY <1>1 DEF Later
<1>4. QED BY <1>1, <1>2, <1>3, Constants

\* It wraps around at most once.
LEMMA DiffIs ==
  ASSUME NEW x \in 0 .. Width - 1, NEW y \in 0 .. Width - 1
  PROVE  /\ Diff(x, y) = IF x >= y THEN x - y ELSE x - y + Width
         /\ Diff(x, y) \in 0 .. Width - 1
<1>1. x - y + Width \in Nat /\ x - y + Width < 2 * Width
  BY Constants
<1>2. QED BY <1>1, Wraps, Constants DEF Diff

\* The cycles from y, n cycles later.
LEMMA DiffLater ==
  ASSUME NEW x \in 0 .. Width - 1, NEW y \in 0 .. Width - 1, NEW n \in 0 .. Width - 1
  PROVE  Diff(Later(x, n), y) = IF Diff(x, y) + n < Width THEN Diff(x, y) + n
                                ELSE Diff(x, y) + n - Width
<1>1. n \in 0 .. Width
  BY Constants
<1>2. PICK z \in 0 .. Width - 1 : z = Later(x, n) /\ z = IF x + n < Width THEN x + n ELSE x + n - Width
  BY <1>1, LaterIs
<1>3. /\ Diff(x, y) = IF x >= y THEN x - y ELSE x - y + Width
      /\ Diff(z, y) = IF z >= y THEN z - y ELSE z - y + Width
  BY DiffIs
<1>4. QED BY <1>2, <1>3, Constants

\* Setting the counter ahead in two steps.
LEMMA LaterLater ==
  ASSUME NEW c \in 0 .. Width - 1, NEW m \in 0 .. Width - 1, NEW n \in 0 .. Width - 1, m + n < Width
  PROVE  Later(Later(c, m), n) = Later(c, m + n) /\ Diff(Later(c, m), c) = m
<1>1. m \in 0 .. Width /\ n \in 0 .. Width /\ m + n \in 0 .. Width
  BY Constants
<1>2. PICK z \in 0 .. Width - 1 : z = Later(c, m) /\ z = IF c + m < Width THEN c + m ELSE c + m - Width
  BY <1>1, LaterIs
<1>3. Later(z, n) = IF z + n < Width THEN z + n ELSE z + n - Width
  BY <1>1, LaterIs
<1>4. Later(c, m + n) = IF c + (m + n) < Width THEN c + (m + n) ELSE c + (m + n) - Width
  BY <1>1, LaterIs
<1>5. Later(z, n) = Later(c, m + n)
  BY <1>2, <1>3, <1>4, Constants
<1>6. Diff(z, c) = IF z >= c THEN z - c ELSE z - c + Width
  BY DiffIs
<1>7. Diff(z, c) = m
  BY <1>2, <1>6, Constants
<1>8. QED BY <1>2, <1>5, <1>7

\* The cycles since the list was brought up to date.
LEMMA ElapsedIs ==
  ASSUME TypeInv
  PROVE  /\ Elapsed(count) \in 0 .. Width - 1
         /\ \A n \in 0 .. Gap :
              /\ Later(count, n) \in 0 .. Width - 1
              /\ Elapsed(Later(count, n)) \in 0 .. Width - 1
              /\ Elapsed(Later(count, n)) = IF Elapsed(count) + n < Width THEN Elapsed(count) + n
                                            ELSE Elapsed(count) + n - Width
<1>1. count \in 0 .. Width - 1 /\ timerCounter \in 0 .. Width - 1
  BY DEF TypeInv
<1>2. \A x : Elapsed(x) = Diff(x, timerCounter)
  BY DEF Elapsed, Diff
<1>3. Elapsed(count) \in 0 .. Width - 1
  BY <1>1, <1>2, DiffIs
<1>4. ASSUME NEW n \in 0 .. Gap
      PROVE  /\ Later(count, n) \in 0 .. Width - 1
             /\ Elapsed(Later(count, n)) \in 0 .. Width - 1
             /\ Elapsed(Later(count, n)) = IF Elapsed(count) + n < Width THEN Elapsed(count) + n
                                           ELSE Elapsed(count) + n - Width
  <2>1. n \in 0 .. Width - 1 /\ n \in 0 .. Width
    BY Constants
  <2>2. Later(count, n) \in 0 .. Width - 1
    BY <2>1, <1>1, LaterIs
  <2>3. Diff(Later(count, n), timerCounter) \in 0 .. Width - 1
    BY <2>2, <1>1, DiffIs
  <2>4. Diff(Later(count, n), timerCounter)
          = IF Diff(count, timerCounter) + n < Width THEN Diff(count, timerCounter) + n
            ELSE Diff(count, timerCounter) + n - Width
    BY <2>1, <1>1, DiffLater
  <2>5. QED BY <2>2, <2>3, <2>4, <1>2
<1>5. QED BY <1>3, <1>4

\* The first timer and the sums.
LEMMA FirstIs ==
  ASSUME TypeInv, list # <<>>
  PROVE  /\ 1 \in 1 .. Len(list) /\ list[1] \in Timers /\ value[list[1]] \in Nat
         /\ Sum(value, 1) = value[list[1]]
         /\ \A i \in 1 .. Len(list) : Sum(value, i) \in Nat /\ Sum(value, 1) <= Sum(value, i)
         /\ Ahead = IF value[list[1]] >= Least THEN value[list[1]] ELSE Least
         /\ Ahead \in Nat
<1>1. list \in Seq(Timers) /\ value \in [Timers -> Nat] /\ Len(list) \in Nat
  BY DEF TypeInv
<1>2. 1 \in 1 .. Len(list) /\ list[1] \in Timers /\ value[list[1]] \in Nat
      /\ SumOf(list, value, 1) = value[list[1]]
  BY <1>1, SumFirst
<1>3. ASSUME NEW i \in 1 .. Len(list)
      PROVE  SumOf(list, value, i) \in Nat /\ SumOf(list, value, 1) <= SumOf(list, value, i)
  <2>1. i \in 0 .. Len(list) /\ 1 \in 0 .. i
    BY <1>1
  <2>2. QED BY <2>1, <1>1, SumNat
<1>4. Ahead = IF value[list[1]] >= Least THEN value[list[1]] ELSE Least
  BY <1>2, Constants, MaxTwo DEF Ahead
<1>5. QED BY <1>2, <1>3, <1>4, Constants DEF Sum

-----------------------------------------------------------------------------
(* Steps.                                                                  *)

\* What OthersStay says of a step.
Stay == \A i \in DOMAIN list, j \in DOMAIN list' :
          list[i] = list'[j] => Shown(j)' + Cycles <= Shown(i) + Delay

\* A number of cycles.
LEMMA OverdueIs ==
  ASSUME TypeInv
  PROVE  Overdue \in Nat
<1>1. Elapsed(count) \in 0 .. Width - 1
  BY ElapsedIs
<1>2. CASE list = <<>>
  BY <1>2 DEF Overdue
<1>3. CASE list # <<>>
  BY <1>1, <1>3, FirstIs, Constants DEF Overdue
<1>4. QED BY <1>2, <1>3

\* The cycles of a step in which the counter goes on by k.
LEMMA CyclesAre ==
  ASSUME TypeInv, NEW k \in 0 .. Width - 1, count' = Later(count, k)
  PROVE  Cycles = k
<1>1. count \in 0 .. Width - 1 /\ k + 0 < Width
  BY Constants DEF TypeInv
<1>2. Diff(count, count) = 0
  BY <1>1, DiffIs
<1>3. Diff(Later(count, k), count) = k
  BY <1>1, <1>2, DiffLater, Constants
<1>4. QED BY <1>3 DEF Cycles, Diff

\* The delay of a step in which the counter is read after n cycles: it is only if none have
\* passed since the last reading that it seems not to have been read.
LEMMA DelayIs ==
  ASSUME TypeInv, NEW n \in 0 .. Width - 1, timerCounter' = Later(count, n),
         Elapsed(count) + n < Width
  PROVE  Delay \in Nat /\ (Delay = Gap + Overdue \/ (Elapsed(count) = 0 /\ n = 0 /\ Delay = 0))
<1>1. Overdue \in Nat /\ Elapsed(count) \in Nat
  BY OverdueIs, ElapsedIs, Constants
<1>2. CASE timerCounter' = timerCounter
  <2>1. count \in 0 .. Width - 1 /\ timerCounter \in 0 .. Width - 1
    BY DEF TypeInv
  <2>2. Diff(timerCounter, timerCounter) = 0
    BY <2>1, DiffIs
  <2>3. Diff(count, timerCounter) = Elapsed(count)
    BY DEF Diff, Elapsed
  <2>4. Diff(Later(count, n), timerCounter) = Elapsed(count) + n
    BY <2>1, <2>3, DiffLater
  <2>5. Elapsed(count) + n = 0
    BY <1>2, <2>2, <2>4
  <2>6. QED BY <1>1, <1>2, <2>5 DEF Delay
<1>3. CASE timerCounter' # timerCounter
  BY <1>1, <1>3, Constants DEF Delay
<1>4. QED BY <1>2, <1>3

\* A timer that stays in the list keeps c cycles less, and k cycles or more pass.
LEMMA Moved ==
  ASSUME TypeInv, NeverEarly, NEW c \in Int, NEW k \in Nat,
         NEW j, NEW i \in 1 .. Len(list), list'[j] = list[i],
         SumOf(list', value', j) = Sum(value, i) - c,
         Elapsed(count)' \in Nat,
         c + Elapsed(count)' <= Elapsed(count) + k,
         Cycles \in Nat, Delay \in Nat,
         Elapsed(count) + Cycles <= c + Elapsed(count)' + Delay,
         left'[list[i]] \in Nat,
         left'[list[i]] <= Max({left[list[i]] - k, 0})
  PROVE  /\ left'[list'[j]] <= Max({Shown(j)', 0})
         /\ Shown(j)' + Cycles <= Shown(i) + Delay
<1>1. Elapsed(count) \in Nat
  BY ElapsedIs, Constants
<1>2. PICK s \in Int : s = Sum(value, i)
  <2>1. list # <<>>
    BY DEF TypeInv
  <2>2. QED BY <2>1, FirstIs
<1>3. Shown(i) = s - Elapsed(count)
  BY <1>2 DEF Shown
<1>4. Shown(j)' = s - c - Elapsed(count)'
  BY <1>2 DEF Shown, Sum
<1>5. left[list[i]] <= Max({Shown(i), 0}) /\ left[list[i]] \in Nat
  <2>1. list \in Seq(Timers) /\ left \in [Timers -> Nat]
    BY DEF TypeInv
  <2>2. i \in DOMAIN list /\ list[i] \in Timers
    BY <2>1
  <2>3. left[list[i]] \in Nat
    BY <2>1, <2>2
  <2>4. left[list[i]] <= Max({Shown(i), 0})
    BY <2>2 DEF NeverEarly
  <2>5. QED BY <2>3, <2>4
<1>6. PICK e \in Nat, f \in Nat, y \in Nat, d \in Nat :
         e = Elapsed(count) /\ f = Elapsed(count)' /\ y = Cycles /\ d = Delay
  BY <1>1
<1>7. PICK x \in Int, z \in Int : x = Shown(i) /\ z = Shown(j)' /\ x = s - e /\ z = s - c - f
  <2>1. s - e \in Int /\ s - c - f \in Int
    BY <1>2, <1>6
  <2>2. Shown(i) = s - e
    BY <1>3, <1>6
  <2>3. Shown(j)' = s - c - f
    BY <1>4, <1>6
  <2>4. QED BY <2>1, <2>2, <2>3
<1>8. x - k <= z /\ z + y <= x + d
  <2>1. c + f <= e + k /\ e + y <= c + f + d
    BY <1>6
  <2>2. x = s - e /\ z = s - c - f
    BY <1>7
  <2>3. QED BY <2>1, <2>2
<1>9. Max({x, 0}) = IF x >= 0 THEN x ELSE 0
  BY MaxTwo
<1>10. Max({z, 0}) = IF z >= 0 THEN z ELSE 0
  BY MaxTwo
<1>11. PICK l \in Nat, m \in Nat : l = left[list[i]] /\ m = left'[list[i]]
  BY <1>5
<1>12. left'[list[i]] <= Max({Shown(j)', 0})
  <2>1. PICK h \in Int : h = l - k
    OBVIOUS
  <2>2. Max({h, 0}) = IF h >= 0 THEN h ELSE 0
    BY MaxTwo
  <2>3. m <= Max({h, 0}) /\ l <= Max({x, 0})
    BY <1>5, <1>7, <1>11, <2>1
  <2>4. m <= Max({z, 0})
    BY <1>8, <1>9, <1>10, <2>1, <2>2, <2>3
  <2>5. QED BY <1>7, <1>11, <2>4
<1>13. QED BY <1>6, <1>7, <1>8, <1>12

\* So all timers that stay in the list keep their time.
LEMMA AllMoved ==
  ASSUME TypeInv, NeverEarly, NEW c \in Int, NEW k \in Nat,
         Come(list', value', value, c), list' \in Seq(Timers),
         Elapsed(count)' \in Nat,
         c + Elapsed(count)' <= Elapsed(count) + k,
         Cycles \in Nat, Delay \in Nat,
         Elapsed(count) + Cycles <= c + Elapsed(count)' + Delay,
         \A t \in Timers : left'[t] \in Nat /\ left'[t] <= Max({left[t] - k, 0})
  PROVE  NeverEarly' /\ Stay
<1>1. Len(list) \in Nat /\ Len(list') \in Nat /\ DOMAIN list = 1 .. Len(list)
      /\ DOMAIN list' = 1 .. Len(list') /\ \A i \in 1 .. Len(list) : list[i] \in Timers
  BY DEF TypeInv
<1>2. ASSUME NEW j \in 1 .. Len(list')
      PROVE  \E i \in 1 .. Len(list) :
                /\ list'[j] = list[i]
                /\ left'[list'[j]] <= Max({Shown(j)', 0})
                /\ Shown(j)' + Cycles <= Shown(i) + Delay
  <2>1. PICK i \in 1 .. Len(list) : list'[j] = list[i] /\ SumOf(list', value', j) = Sum(value, i) - c
    BY DEF Come
  <2>2. left'[list[i]] \in Nat /\ left'[list[i]] <= Max({left[list[i]] - k, 0})
    BY <1>1
  <2>3. QED BY <2>1, <2>2, Moved
<1>3. NeverEarly'
  BY <1>1, <1>2 DEF NeverEarly
<1>4. Stay
  <2> SUFFICES ASSUME NEW i \in 1 .. Len(list), NEW j \in 1 .. Len(list'), list[i] = list'[j]
               PROVE  Shown(j)' + Cycles <= Shown(i) + Delay
    BY <1>1 DEF Stay
  <2>1. PICK x \in 1 .. Len(list) : /\ list'[j] = list[x]
                                       /\ Shown(j)' + Cycles <= Shown(x) + Delay
    BY <1>2
  <2>2. x = i
    BY <2>1 DEF TypeInv, Once
  <2>3. QED BY <2>1, <2>2
<1>5. QED BY <1>3, <1>4

\* And expire within a round of the counter.
LEMMA Spanned ==
  ASSUME TypeInv, SpanInv, NEW c \in Nat, Come(list', value', value, c)
  PROVE  \A j \in 1 .. Len(list') : SumOf(list', value', j) < Width - Least
<1> SUFFICES ASSUME NEW j \in 1 .. Len(list') PROVE SumOf(list', value', j) < Width - Least
  OBVIOUS
<1>1. PICK i \in 1 .. Len(list) : SumOf(list', value', j) = Sum(value, i) - c
  BY DEF Come
<1>2. list # <<>>
  BY DEF TypeInv
<1>3. Sum(value, i) \in Nat /\ Sum(value, i) < Width - Least
  BY <1>2, FirstIs DEF SpanInv
<1>4. QED BY <1>1, <1>3, Constants

\* __osSetTimerIntr for the first timer of the list.
LEMMA SetIntr ==
  ASSUME NEW now \in 0 .. Width - 1, NEW m \in 0 .. Gap, NEW tim \in Nat, tim < Width,
         list' # <<>>, tim = value'[list'[1]],
         SetTimerIntr(tim, now, m)
  PROVE  /\ timerCounter' \in 0 .. Width - 1 /\ count' \in 0 .. Width - 1
         /\ compare' \in 0 .. Width - 1 /\ pending' = FALSE
         /\ Elapsed(count)' = m /\ ArmedInv' /\ TimelyInv'
<1> DEFINE a == Max({tim, Least})
<1>1. a = (IF tim >= Least THEN tim ELSE Least) /\ a \in Nat /\ a < Width /\ a > m /\ m \in Nat
  BY Constants, MaxTwo
<1>2. timerCounter' = now /\ count' = Later(now, m) /\ compare' = Later(now, a) /\ pending' = FALSE
  BY DEF SetTimerIntr, SetCompare
<1>3. Ahead' = a
  BY DEF Ahead
<1> HIDE DEF a
<1>4. PICK n \in 1 .. Width : n = a - m /\ n < Width
  BY <1>1, Constants
<1>5. m \in 0 .. Width - 1 /\ n \in 0 .. Width - 1 /\ m + n < Width /\ m + n = a
      /\ m \in 0 .. Width /\ a \in 0 .. Width
  BY <1>1, <1>4, Constants
<1>6. Later(Later(now, m), n) = Later(now, a) /\ Diff(Later(now, m), now) = m
  BY <1>5, LaterLater
<1>7. Elapsed(count)' = m
  BY <1>2, <1>6 DEF Elapsed, Diff
<1>8. count' \in 0 .. Width - 1 /\ compare' \in 0 .. Width - 1
  BY <1>2, <1>5, LaterIs
<1>9. n + Elapsed(count)' <= Ahead' /\ Later(count, n)' = compare'
  <2>1. n + m <= a
    BY <1>1, <1>4
  <2>2. Later(count, n)' = Later(Later(now, m), n)
    BY <1>2 DEF Later
  <2>3. QED BY <2>1, <2>2, <1>2, <1>3, <1>6, <1>7
<1>10. ArmedInv'
  BY <1>9 DEF ArmedInv
<1>11. TimelyInv'
  BY <1>1, <1>3, <1>7 DEF TimelyInv
<1>12. QED BY <1>2, <1>7, <1>8, <1>10, <1>11

-----------------------------------------------------------------------------
(* What the steps have in common.                                          *)

\* Without timers there is nothing to keep.
LEMMA EmptyList ==
  ASSUME list' = <<>>
  PROVE  IInv' /\ Stay
<1>1. Len(list') = 0 /\ DOMAIN list' = {}
  BY EmptySeq
<1>2. SpanInv'
  BY <1>1 DEF SpanInv
<1>3. ArmedInv' /\ TimelyInv' /\ NeverEarly' /\ Stay
  BY <1>1 DEF ArmedInv, TimelyInv, NeverEarly, Stay
<1>4. QED BY <1>2, <1>3 DEF IInv

\* The same list.
LEMMA SameList ==
  ASSUME TypeInv, list' = list, value' = value
  PROVE  list' \in Seq(Timers) /\ Come(list', value', value, 0)
<1>1. list \in Seq(Timers) /\ value \in [Timers -> Nat] /\ Len(list) \in Nat
  BY DEF TypeInv
<1>2. ASSUME NEW j \in 1 .. Len(list)
      PROVE  list[j] = list[j] /\ SumOf(list, value, j) = Sum(value, j) - 0
  <2>1. j \in 0 .. Len(list)
    BY <1>1
  <2>2. SumOf(list, value, j) \in Nat
    BY <2>1, <1>1, SumNat
  <2>3. QED BY <2>2 DEF Sum
<1>3. Come(list, value, value, 0)
  BY <1>2 DEF Come
<1>4. QED BY <1>1, <1>3

\* Time passes for all timers.
LEMMA LessTimeIs ==
  ASSUME TypeInv, NEW n \in Nat
  PROVE  /\ LessTime(n) \in [Timers -> Nat]
         /\ \A t \in Timers : LessTime(n)[t] = Max({left[t] - n, 0})
         /\ \A t \in Timers : LessTime(n)[t] <= Max({left[t] - n, 0})
         /\ \A t \in Timers : Max({left[t] - n, 0}) \in Nat
<1>1. ASSUME NEW t \in Timers PROVE Max({left[t] - n, 0}) \in Nat
  <2>1. left[t] \in Nat
    BY DEF TypeInv
  <2>2. PICK d \in Int : d = left[t] - n
    BY <2>1
  <2>3. Max({d, 0}) = IF d >= 0 THEN d ELSE 0
    BY MaxTwo
  <2>4. QED BY <2>2, <2>3
<1>2. LessTime(n) \in [Timers -> Nat] /\ \A t \in Timers : LessTime(n)[t] = Max({left[t] - n, 0})
  BY <1>1 DEF LessTime
<1>3. QED BY <1>1, <1>2

\* No time passes, and no timer moves.
LEMMA Unmoved ==
  ASSUME TypeInv, NeverEarly, list' = list, value' = value, timerCounter' = timerCounter,
         count' = count, \A t \in Timers : left'[t] \in Nat /\ left'[t] <= left[t]
  PROVE  NeverEarly' /\ Stay
<1>0. PICK z \in Nat : z = 0
  OBVIOUS
<1>1. Come(list', value', value, z) /\ list' \in Seq(Timers)
  BY <1>0, SameList
<1>2. Elapsed(count)' = Elapsed(count) /\ Elapsed(count) \in 0 .. Width - 1
  BY ElapsedIs DEF Elapsed
<1>3. Cycles = z /\ Delay = z
  <2>1. count \in 0 .. Width - 1
    BY DEF TypeInv
  <2>2. Diff(count, count) = 0
    BY <2>1, DiffIs
  <2>3. QED BY <1>0, <2>2 DEF Cycles, Delay, Diff
<1>4. \A t \in Timers : left'[t] \in Nat /\ left'[t] <= Max({left[t] - z, 0})
  <2> TAKE t \in Timers
  <2>1. left[t] \in Nat /\ left[t] - z = left[t]
    BY <1>0 DEF TypeInv
  <2>2. Max({left[t], 0}) = left[t]
    BY <2>1, MaxTwo
  <2>3. QED BY <2>1, <2>2
<1>5. /\ z + Elapsed(count)' <= Elapsed(count) + z
      /\ Elapsed(count) + Cycles <= z + Elapsed(count)' + Delay
      /\ Elapsed(count)' \in Nat /\ z \in Int /\ Cycles \in Nat /\ Delay \in Nat
  BY <1>0, <1>2, <1>3, Constants
<1>6. QED BY <1>1, <1>4, <1>5, AllMoved

\* The counter does not wrap around before the VI manager has read it.
LEMMA NoWrap ==
  ASSUME TypeInv, SpanInv, TimelyInv, list # <<>>
  PROVE  /\ Ahead \in Nat /\ Ahead < Width
         /\ Elapsed(count) \in Nat /\ Elapsed(count) <= Ahead
         /\ \A n \in 0 .. Gap : Elapsed(Later(count, n)) = Elapsed(count) + n
<1>1. /\ value[list[1]] \in Nat /\ value[list[1]] < Width - Least
      /\ Ahead = IF value[list[1]] >= Least THEN value[list[1]] ELSE Least
  BY FirstIs DEF SpanInv
<1>2. Elapsed(count) \in 0 .. Width - 1 /\ Elapsed(count) <= Ahead
  BY ElapsedIs DEF TimelyInv
<1>3. Ahead \in Nat /\ Ahead < Width
  BY <1>1, Constants
<1>4. ASSUME NEW n \in 0 .. Gap PROVE Elapsed(Later(count, n)) = Elapsed(count) + n
  <2>1. Elapsed(Later(count, n)) = IF Elapsed(count) + n < Width THEN Elapsed(count) + n
                                   ELSE Elapsed(count) + n - Width
    BY ElapsedIs
  <2>2. Elapsed(count) + n < Width
    BY <1>1, <1>2, Constants
  <2>3. QED BY <2>1, <2>2
<1>5. QED BY <1>2, <1>3, <1>4, Constants

\* The owners of timers do not change.
LEMMA OwnersStay ==
  ASSUME TypeInv, NEW v, NEW w, NEW c, Come(list', v, w, c), owner' = owner
  PROVE  \A j \in 1 .. Len(list') : owner'[list'[j]] \in {"waits", "stops"}
BY DEF TypeInv, Come

-----------------------------------------------------------------------------
(* The steps.                                                              *)

\* Time passes.
LEMMA TickStep ==
  ASSUME TypeInv, IInv, Tick
  PROVE  TypeInv' /\ IInv' /\ Stay
<1>0. SpanInv /\ ArmedInv /\ TimelyInv /\ NeverEarly
  BY DEF IInv
<1>1. /\ ~pending /\ vimgr = "wait" /\ count' = Later(count, 1) /\ left' = LessTime(1)
      /\ pending' = Meets(1) /\ list' = list /\ value' = value /\ timerCounter' = timerCounter
      /\ compare' = compare /\ vimgr' = vimgr /\ owner' = owner
  BY DEF Tick
<1>2. PICK k \in 0 .. Width - 1 : k = 1 /\ k \in 1 .. 1
  BY Constants
<1>3. count \in 0 .. Width - 1 /\ timerCounter \in 0 .. Width - 1
  BY DEF TypeInv
<1>4. count' \in 0 .. Width - 1
  <2>1. k \in 0 .. Width
    BY <1>2, Constants
  <2>2. Later(count, k) \in 0 .. Width - 1
    BY <2>1, <1>3, LaterIs
  <2>3. QED BY <2>2, <1>1, <1>2
<1>5. /\ left' \in [Timers -> Nat]
      /\ \A t \in Timers : left'[t] \in Nat /\ left'[t] <= Max({left[t] - k, 0})
  <2>1. k \in Nat
    BY <1>2
  <2>2. QED BY <1>1, <1>2, <2>1, LessTimeIs
<1>6. TypeInv'
  <2>1. pending' \in BOOLEAN
    BY <1>1 DEF Meets
  <2>2. QED BY <1>1, <1>4, <1>5, <2>1 DEF TypeInv
<1>7. CASE list = <<>>
  BY <1>1, <1>6, <1>7, EmptyList
<1>8. CASE list # <<>>
  <2>1. /\ Ahead \in Nat /\ Ahead < Width /\ Elapsed(count) \in Nat /\ Elapsed(count) <= Ahead
    BY <1>0, <1>8, NoWrap
  <2>2. PICK n \in 1 .. Width : n + Elapsed(count) <= Ahead /\ Later(count, n) = compare
    BY <1>0, <1>1, <1>8 DEF ArmedInv
  <2>3. Elapsed(count)' = Elapsed(count) + k
    <3>1. Diff(Later(count, k), timerCounter)
            = IF Diff(count, timerCounter) + k < Width THEN Diff(count, timerCounter) + k
              ELSE Diff(count, timerCounter) + k - Width
      BY <1>2, <1>3, DiffLater
    <3>2. Diff(count, timerCounter) = Elapsed(count)
      BY DEF Diff, Elapsed
    <3>3. Diff(Later(count, k), timerCounter) = Elapsed(count)'
      BY <1>1, <1>2 DEF Diff, Elapsed
    <3>4. Elapsed(count) + k < Width
      BY <1>2, <2>1, <2>2, Constants
    <3>5. QED BY <3>1, <3>2, <3>3, <3>4
  <2>4. Ahead' = Ahead
    BY <1>1 DEF Ahead
  <2>5. TimelyInv'
    <3>1. Elapsed(count)' <= Ahead'
      BY <1>2, <2>1, <2>2, <2>3, <2>4
    <3>2. QED BY <3>1 DEF TimelyInv
  <2>6. ArmedInv'
    <3> SUFFICES ASSUME ~pending'
                 PROVE  \E l \in 1 .. Width : /\ l + Elapsed(count)' <= Ahead'
                                              /\ Later(count, l)' = compare'
      BY DEF ArmedInv
    <3>1. n # k
      BY <1>1, <1>2, <2>2 DEF Meets
    <3>2. PICK l \in 1 .. Width : l = n - k
      BY <1>2, <3>1, Constants
    <3>3. l \in 0 .. Width - 1 /\ k + l < Width /\ k + l = n
      BY <1>2, <3>2, <2>1, <2>2, Constants
    <3>4. Later(Later(count, k), l) = Later(count, n)
      BY <3>3, <1>3, LaterLater
    <3>5. Later(count, l)' = Later(Later(count, k), l)
      BY <1>1, <1>2 DEF Later
    <3>6. l + Elapsed(count)' <= Ahead'
      BY <1>2, <2>1, <2>2, <2>3, <2>4, <3>2
    <3>7. QED BY <1>1, <2>2, <3>4, <3>5, <3>6
  <2>7. SpanInv'
    BY <1>0, <1>1 DEF SpanInv, Sum
  <2>8. NeverEarly' /\ Stay
    <3>0. PICK z \in Int : z = 0
      OBVIOUS
    <3>1. Come(list', value', value, z) /\ list' \in Seq(Timers)
      BY <1>1, <3>0, SameList
    <3>2. Cycles = k /\ Delay = 0
      <4>1. count' = Later(count, k)
        BY <1>1, <1>2
      <4>2. QED BY <1>1, <4>1, CyclesAre DEF Delay
    <3>3. /\ Elapsed(count)' \in Nat /\ z + Elapsed(count)' <= Elapsed(count) + k
          /\ Elapsed(count) + Cycles <= z + Elapsed(count)' + Delay /\ k \in Nat
          /\ Cycles \in Nat /\ Delay \in Nat
      BY <3>0, <1>2, <2>1, <2>3, <3>2
    <3>4. QED BY <1>0, <1>5, <3>1, <3>3, AllMoved
  <2>9. QED BY <1>6, <2>5, <2>6, <2>7, <2>8 DEF IInv
<1>9. QED BY <1>7, <1>8

\* The VI manager takes the interrupt.
LEMMA InterruptStep ==
  ASSUME TypeInv, IInv, Interrupt
  PROVE  TypeInv' /\ IInv' /\ Stay
<1>0. SpanInv /\ ArmedInv /\ TimelyInv /\ NeverEarly
  BY DEF IInv
<1>1. /\ pending /\ vimgr = "wait" /\ pending' = FALSE
      /\ vimgr' = (IF list = <<>> THEN "wait" ELSE "loop") /\ list' = list
      /\ value' = value /\ timerCounter' = timerCounter /\ count' = count /\ compare' = compare
      /\ owner' = owner /\ left' = left
  BY DEF Interrupt
<1>2. TypeInv'
  BY <1>1 DEF TypeInv
<1>3. CASE list = <<>>
  BY <1>1, <1>2, <1>3, EmptyList
<1>4. CASE list # <<>>
  <2>1. NeverEarly' /\ Stay
    <3>1. \A t \in Timers : left'[t] \in Nat /\ left'[t] <= left[t]
      BY <1>1 DEF TypeInv
    <3>2. QED BY <1>0, <1>1, <3>1, Unmoved
  <2>2. TimelyInv'
    BY <1>0, <1>1 DEF TimelyInv, Elapsed, Ahead
  <2>3. ArmedInv'
    BY <1>1, <1>4 DEF ArmedInv
  <2>4. SpanInv'
    BY <1>0, <1>1, <1>4 DEF SpanInv, Sum
  <2>5. QED BY <1>2, <2>1, <2>2, <2>3, <2>4 DEF IInv
<1>5. QED BY <1>3, <1>4

\* An owner looks for its timer.
LEMMA StopStep ==
  ASSUME TypeInv, IInv, NEW t \in Timers, StopTimer(t)
  PROVE  TypeInv' /\ IInv' /\ Stay
<1>0. SpanInv /\ ArmedInv /\ TimelyInv /\ NeverEarly
  BY DEF IInv
<1>1. /\ owner[t] = "waits"
      /\ owner' = [owner EXCEPT ![t] = IF Listed(t) THEN "stops" ELSE "idle"]
      /\ list' = list /\ value' = value /\ timerCounter' = timerCounter /\ count' = count
      /\ compare' = compare /\ pending' = pending /\ vimgr' = vimgr /\ left' = left
  BY DEF StopTimer
<1>2. owner' \in [Timers -> {"idle", "waits", "stops", "dead"}]
  BY <1>1 DEF TypeInv
<1>3. ASSUME NEW i \in 1 .. Len(list) PROVE owner'[list[i]] \in {"waits", "stops"}
  <2>1. list[i] \in Timers /\ Listed(list[i]) /\ owner[list[i]] \in {"waits", "stops"}
    BY DEF TypeInv, Listed, ToSet
  <2>2. QED BY <1>1, <2>1 DEF TypeInv
<1>4. TypeInv'
  BY <1>1, <1>2, <1>3 DEF TypeInv
<1>5. NeverEarly' /\ Stay
  <2>1. \A x \in Timers : left'[x] \in Nat /\ left'[x] <= left[x]
    BY <1>1 DEF TypeInv
  <2>2. QED BY <1>0, <1>1, <2>1, Unmoved
<1>6. SpanInv' /\ TimelyInv' /\ ArmedInv'
  BY <1>0, <1>1 DEF SpanInv, Sum, TimelyInv, ArmedInv, Elapsed, Ahead, Later
<1>7. QED BY <1>4, <1>5, <1>6 DEF IInv

\* Stopping a timer puts the first one off, if anything.
LEMMA UnlinkFirst ==
  ASSUME TypeInv, NEW v, v \in [Timers -> Nat], NEW c, c = 0, list' \in Seq(Timers), list' # <<>>,
         value' = v, Come(list', v, value, c)
  PROVE  list # <<>> /\ v[list'[1]] \in Nat /\ value[list[1]] <= v[list'[1]] /\ Ahead <= Ahead'
<1>1. 1 \in 1 .. Len(list') /\ v[list'[1]] \in Nat /\ SumOf(list', v, 1) = v[list'[1]]
  BY SumFirst
<1>2. PICK i \in 1 .. Len(list) : SumOf(list', v, 1) = Sum(value, i) - c
  BY <1>1 DEF Come
<1>3. list # <<>>
  BY <1>2 DEF TypeInv
<1>4. /\ Sum(value, i) \in Nat /\ value[list[1]] <= Sum(value, i) /\ value[list[1]] \in Nat
      /\ Ahead = IF value[list[1]] >= Least THEN value[list[1]] ELSE Least
  BY <1>3, FirstIs
<1>5. value[list[1]] <= v[list'[1]]
  BY <1>1, <1>2, <1>4
<1>6. Ahead' = IF v[list'[1]] >= Least THEN v[list'[1]] ELSE Least
  BY <1>1, Constants, MaxTwo DEF Ahead
<1>7. QED BY <1>1, <1>3, <1>4, <1>5, <1>6, Constants

\* An owner stops its timer.
LEMMA EndStopStep ==
  ASSUME TypeInv, IInv, NEW t \in Timers, EndStop(t)
  PROVE  TypeInv' /\ IInv' /\ Stay
<1>0. SpanInv /\ ArmedInv /\ TimelyInv /\ NeverEarly
  BY DEF IInv
<1>1. /\ vimgr = "wait" /\ left' = [left EXCEPT ![t] = 0]
      /\ timerCounter' = timerCounter /\ count' = count /\ vimgr' = vimgr
  BY DEF EndStop
<1>2. /\ left' \in [Timers -> Nat]
      /\ \A x \in Timers : left'[x] \in Nat /\ left'[x] <= left[x]
  BY <1>1 DEF TypeInv
<1>3. CASE Listed(t)
  <2>1. /\ Unlink(t) /\ owner' = [owner EXCEPT ![t] = "idle"]
        /\ IF Len(list) = 1 THEN SetCompare(0) ELSE UNCHANGED <<compare, pending>>
    BY <1>3 DEF EndStop
  <2>2. /\ list' \in Seq(Timers) /\ Once(list') /\ Len(list') = Len(list) - 1
        /\ value' \in [Timers -> Nat]
        /\ \A j \in 1 .. Len(list') : list'[j] # t
        /\ Come(list', value', value, 0)
    BY <1>3, <2>1, UnlinkSums
  <2>3. PICK z \in Nat : z = 0
    OBVIOUS
  <2>4. Come(list', value', value, z)
    BY <2>2, <2>3
  <2>5. ASSUME NEW j \in 1 .. Len(list') PROVE owner'[list'[j]] \in {"waits", "stops"}
    <3>1. PICK i \in 1 .. Len(list) : list'[j] = list[i]
      BY <2>4 DEF Come
    <3>2. list[i] \in Timers /\ owner[list[i]] \in {"waits", "stops"} /\ list[i] # t
      <4>1. list'[j] # t
        BY <2>2
      <4>2. list[i] \in Timers /\ owner[list[i]] \in {"waits", "stops"}
        BY DEF TypeInv
      <4>3. QED BY <4>1, <4>2, <3>1
    <3>3. QED BY <3>1, <3>2, <2>1 DEF TypeInv
  <2>6. compare' \in 0 .. Width - 1 /\ pending' \in BOOLEAN
    <3>1. 0 \in 0 .. Width - 1
      BY Constants
    <3>2. compare \in 0 .. Width - 1 /\ pending \in BOOLEAN
      BY DEF TypeInv
    <3>3. CASE Len(list) = 1
      BY <2>1, <3>1, <3>3 DEF SetCompare
    <3>4. CASE Len(list) # 1
      BY <2>1, <3>2, <3>4
    <3>5. QED BY <3>3, <3>4
  <2>7. owner' \in [Timers -> {"idle", "waits", "stops", "dead"}]
    BY <2>1 DEF TypeInv
  <2>8. TypeInv'
    BY <1>1, <1>2, <2>2, <2>5, <2>6, <2>7 DEF TypeInv
  <2>9. CASE list' = <<>>
    BY <2>8, <2>9, EmptyList
  <2>10. CASE list' # <<>>
    <3>1. /\ list # <<>> /\ value'[list'[1]] \in Nat
          /\ value[list[1]] <= value'[list'[1]] /\ Ahead <= Ahead'
      <4> DEFINE v == value'
      <4>1. v \in [Timers -> Nat] /\ value' = v /\ Come(list', v, value, z) /\ list' \in Seq(Timers)
        BY <2>2, <2>4
      <4> HIDE DEF v
      <4>2. list # <<>> /\ v[list'[1]] \in Nat /\ value[list[1]] <= v[list'[1]] /\ Ahead <= Ahead'
        BY <4>1, <2>3, <2>10, UnlinkFirst
      <4>3. QED BY <4>1, <4>2
    <3>2. Len(list) # 1
      <4>1. Len(list') # 0
        BY <2>2, <2>10, EmptySeq
      <4>2. QED BY <4>1, <2>2
    <3>3. compare' = compare /\ pending' = pending
      BY <3>2, <2>1
    <3>4. Elapsed(count)' = Elapsed(count) /\ Elapsed(count) \in Nat /\ Ahead \in Nat
          /\ Elapsed(count) <= Ahead /\ value[list[1]] \in Nat
      <4>1. Elapsed(count) \in Nat /\ Ahead \in Nat /\ Elapsed(count) <= Ahead
        BY <1>0, <3>1, NoWrap
      <4>2. Elapsed(count)' = Elapsed(count)
        BY <1>1 DEF Elapsed
      <4>3. QED BY <4>1, <4>2, <3>1, FirstIs
    <3>5. Ahead' \in Int
      <4>1. PICK a \in Int, b \in Int : a = value'[list'[1]] /\ b = Least
        BY <3>1, Constants
      <4>2. Max({a, b}) \in Int
        BY MaxTwo
      <4>3. QED BY <4>1, <4>2 DEF Ahead
    <3>6. TimelyInv'
      BY <3>1, <3>4, <3>5 DEF TimelyInv
    <3>7. ArmedInv'
      <4> SUFFICES ASSUME ~pending'
                   PROVE  \E n \in 1 .. Width : /\ n + Elapsed(count)' <= Ahead'
                                                /\ Later(count, n)' = compare'
        BY DEF ArmedInv
      <4>1. PICK n \in 1 .. Width : n + Elapsed(count) <= Ahead /\ Later(count, n) = compare
        BY <1>0, <1>1, <3>1, <3>3 DEF ArmedInv
      <4>2. n + Elapsed(count)' <= Ahead'
        BY <4>1, <3>1, <3>4, <3>5, Constants
      <4>3. Later(count, n)' = compare'
        BY <1>1, <3>3, <4>1 DEF Later
      <4>4. QED BY <4>2, <4>3
    <3>8. SpanInv'
      <4>1. \A j \in 1 .. Len(list') : SumOf(list', value', j) < Width - Least
        BY <1>0, <2>3, <2>4, Spanned
      <4>2. value'[list'[1]] >= 1
        BY <1>0, <1>1, <3>1, <3>4 DEF SpanInv
      <4>3. QED BY <4>1, <4>2 DEF SpanInv, Sum
    <3>9. NeverEarly' /\ Stay
      <4>1. Cycles = z /\ Delay = z
        <5>1. count \in 0 .. Width - 1
          BY DEF TypeInv
        <5>2. Diff(count, count) = 0
          BY <5>1, DiffIs
        <5>3. QED BY <1>1, <2>3, <5>2 DEF Cycles, Delay, Diff
      <4>2. /\ z + Elapsed(count)' <= Elapsed(count) + z
            /\ Elapsed(count) + Cycles <= z + Elapsed(count)' + Delay
            /\ Elapsed(count)' \in Nat /\ z \in Int /\ Cycles \in Nat /\ Delay \in Nat
        BY <2>3, <3>4, <4>1
      <4>3. \A x \in Timers : left'[x] \in Nat /\ left'[x] <= Max({left[x] - z, 0})
        <5> TAKE x \in Timers
        <5>1. left[x] \in Nat /\ left[x] - z = left[x]
          BY <2>3 DEF TypeInv
        <5>2. Max({left[x], 0}) = left[x]
          BY <5>1, MaxTwo
        <5>3. QED BY <5>1, <5>2, <1>2
      <4>4. QED BY <1>0, <2>2, <2>4, <4>2, <4>3, AllMoved
    <3>10. QED BY <2>8, <3>6, <3>7, <3>8, <3>9 DEF IInv
  <2>11. QED BY <2>9, <2>10
<1>4. CASE ~Listed(t)
  <2>1. /\ owner' = [owner EXCEPT ![t] = "dead"]
        /\ list' = list /\ value' = value /\ compare' = compare /\ pending' = pending
    BY <1>4 DEF EndStop
  <2>2. owner' \in [Timers -> {"idle", "waits", "stops", "dead"}]
    BY <2>1 DEF TypeInv
  <2>3. ASSUME NEW i \in 1 .. Len(list) PROVE owner'[list[i]] \in {"waits", "stops"}
    <3>1. list[i] \in Timers /\ Listed(list[i]) /\ owner[list[i]] \in {"waits", "stops"}
      BY DEF TypeInv, Listed, ToSet
    <3>2. list[i] # t
      BY <1>4, <3>1
    <3>3. QED BY <2>1, <3>1, <3>2 DEF TypeInv
  <2>4. TypeInv'
    BY <1>1, <1>2, <2>1, <2>2, <2>3 DEF TypeInv
  <2>5. NeverEarly' /\ Stay
    BY <1>0, <1>1, <1>2, <2>1, Unmoved
  <2>6. SpanInv' /\ TimelyInv' /\ ArmedInv'
    BY <1>0, <1>1, <2>1 DEF SpanInv, Sum, TimelyInv, ArmedInv, Elapsed, Ahead, Later
  <2>7. QED BY <2>4, <2>5, <2>6 DEF IInv
<1>5. QED BY <1>3, <1>4

\* The VI manager finds no timer.
LEMMA NoneLeftStep ==
  ASSUME TypeInv, NoneLeft
  PROVE  TypeInv' /\ IInv' /\ Stay
<1>1. /\ list = <<>> /\ list' = list /\ compare' = 0 /\ pending' = FALSE /\ timerCounter' = 0
      /\ vimgr' = "wait" /\ value' = value /\ count' = count /\ owner' = owner /\ left' = left
  BY DEF NoneLeft, SetCompare
<1>2. TypeInv'
  <2>1. 0 \in 0 .. Width - 1
    BY Constants
  <2>2. QED BY <1>1, <2>1 DEF TypeInv
<1>3. QED BY <1>1, <1>2, EmptyList

\* It finds the first timer not yet due.
LEMMA NotYetStep ==
  ASSUME TypeInv, IInv, NEW n \in 0 .. Gap, NEW p \in 0 .. Gap, NEW m \in 0 .. Gap,
         NotYet(n, p, m)
  PROVE  TypeInv' /\ IInv' /\ Stay
<1>0. SpanInv /\ ArmedInv /\ TimelyInv /\ NeverEarly
  BY DEF IInv
<1> DEFINE now == Later(count, n + p)
           c == Elapsed(Later(count, n))
<1>1. /\ list # <<>> /\ c < value[list[1]] /\ value' = [value EXCEPT ![list[1]] = @ - c]
      /\ SetTimerIntr(value'[list[1]], now, m) /\ left' = LessTime(n + p + m) /\ vimgr' = "wait"
      /\ list' = list /\ owner' = owner
  BY DEF NotYet
<1>2. PICK k \in 0 .. Width - 1 : k = n + p + m
  BY Constants
<1>2a. PICK l \in 0 .. Width - 1 : l = n + p
  BY Constants
<1>3. /\ now \in 0 .. Width - 1 /\ c \in 0 .. Width - 1 /\ c = Elapsed(count) + n
      /\ Elapsed(count) \in Nat
  <2>1. count \in 0 .. Width - 1 /\ l \in 0 .. Width
    BY Constants DEF TypeInv
  <2>2. Later(count, l) \in 0 .. Width - 1
    BY <2>1, LaterIs
  <2>3. QED BY <1>0, <1>1, <1>2a, <2>2, NoWrap, ElapsedIs
<1> HIDE DEF now, c
<1>4. /\ 1 \in 1 .. Len(list) /\ list[1] \in Timers
      /\ value[list[1]] \in Nat /\ value[list[1]] < Width - Least
  BY <1>0, <1>1, FirstIs DEF SpanInv
<1>5. c \in 0 .. value[list[1]] /\ c \in Nat /\ c \in Int
  BY <1>1, <1>3, <1>4, Constants
<1>6. value' \in [Timers -> Nat] /\ Come(list, value', value, c)
  BY <1>1, <1>5, FirstLess
<1>7. list' \in Seq(Timers) /\ Come(list', value', value, c)
  BY <1>1, <1>6 DEF TypeInv
<1>8. value'[list[1]] = value[list[1]] - c /\ value'[list[1]] \in Nat /\ value'[list[1]] >= 1
      /\ value'[list[1]] < Width
  <2>1. value'[list[1]] = value[list[1]] - c
    BY <1>1, <1>4 DEF TypeInv
  <2>2. PICK v \in Nat : v = value[list[1]] /\ v < Width - Least /\ c < v
    BY <1>1, <1>4
  <2>3. v - c \in Nat /\ v - c >= 1 /\ v - c < Width
    BY <1>5, <2>2, Constants
  <2>4. QED BY <2>1, <2>2, <2>3
<1>9. /\ timerCounter' \in 0 .. Width - 1 /\ count' \in 0 .. Width - 1
      /\ compare' \in 0 .. Width - 1 /\ pending' = FALSE
      /\ Elapsed(count)' = m /\ ArmedInv' /\ TimelyInv'
  <2>1. PICK tim \in Nat : tim = value'[list[1]] /\ tim < Width
    BY <1>8
  <2>2. SetTimerIntr(tim, now, m) /\ list' # <<>> /\ tim = value'[list'[1]]
    BY <1>1, <2>1
  <2>3. QED BY <2>1, <2>2, <1>3, SetIntr
<1>10. /\ left' \in [Timers -> Nat]
       /\ \A t \in Timers : left'[t] \in Nat /\ left'[t] <= Max({left[t] - k, 0})
  <2>1. k \in Nat
    OBVIOUS
  <2>2. QED BY <1>1, <1>2, <2>1, LessTimeIs
<1>11. \A j \in 1 .. Len(list') : owner'[list'[j]] \in {"waits", "stops"}
  BY <1>1 DEF TypeInv
<1>12. TypeInv'
  BY <1>1, <1>6, <1>9, <1>10, <1>11 DEF TypeInv
<1>13. SpanInv'
  <2>1. \A j \in 1 .. Len(list') : SumOf(list', value', j) < Width - Least
    BY <1>0, <1>5, <1>7, Spanned
  <2>2. QED BY <2>1, <1>1, <1>8 DEF SpanInv, Sum
<1>14. NeverEarly' /\ Stay
  <2>1. Cycles = k
    <3>1. count \in 0 .. Width - 1 /\ m \in 0 .. Width - 1 /\ l + m < Width
      BY <1>2a, Constants DEF TypeInv
    <3>2. Later(Later(count, l), m) = Later(count, l + m) /\ l + m = k
      BY <3>1, <1>2, <1>2a, LaterLater, Constants
    <3>3. count' = Later(Later(count, l), m)
      BY <1>1, <1>2a DEF SetTimerIntr, now
    <3>4. QED BY <3>2, <3>3, CyclesAre
  <2>2. /\ Delay \in Nat
        /\ Delay = Gap + Overdue \/ (Elapsed(count) = 0 /\ l = 0 /\ Delay = 0)
    <3>1. timerCounter' = Later(count, l)
      BY <1>1, <1>2a DEF SetTimerIntr, now
    <3>2. Elapsed(count) + l < Width
      BY <1>1, <1>2a, <1>3, <1>4, Constants
    <3>3. QED BY <3>1, <3>2, DelayIs
  <2>3. Overdue \in Nat
    BY OverdueIs
  <2>4. /\ c + Elapsed(count)' <= Elapsed(count) + k /\ Elapsed(count)' \in Nat
        /\ Elapsed(count) + Cycles <= c + Elapsed(count)' + Delay /\ k \in Nat /\ Cycles \in Nat
    BY <1>2, <1>2a, <1>3, <1>9, <2>1, <2>2, <2>3, Constants
  <2>5. QED BY <1>0, <1>5, <1>7, <1>10, <2>2, <2>4, AllMoved
<1>15. QED BY <1>9, <1>12, <1>13, <1>14 DEF IInv

\* The first timer is due.
LEMMA ExpireStep ==
  ASSUME TypeInv, IInv, NEW n \in 0 .. Gap, Expire(n)
  PROVE  TypeInv' /\ IInv' /\ Stay
<1>0. SpanInv /\ ArmedInv /\ TimelyInv /\ NeverEarly
  BY DEF IInv
<1> DEFINE now == Later(count, n)
           c == value[list[1]]
<1>1. /\ vimgr = "loop" /\ list # <<>> /\ Elapsed(now) >= c /\ list' = Tail(list)
      /\ value' = [value EXCEPT ![list[1]] = 0] /\ left' = [LessTime(n) EXCEPT ![list[1]] = 0]
      /\ count' = now /\ timerCounter' = now /\ pending' = (pending \/ Meets(n))
      /\ compare' = compare /\ vimgr' = vimgr /\ owner' = owner
  BY DEF Expire
<1>2. /\ now \in 0 .. Width - 1 /\ Elapsed(now) = Elapsed(count) + n /\ Elapsed(count) \in Nat
      /\ n \in Nat /\ Elapsed(now) < Width
  BY <1>0, <1>1, NoWrap, ElapsedIs, Constants
<1>3. c \in Nat /\ list[1] \in Timers
  BY <1>1, FirstIs
<1>4. list' \in Seq(Timers) /\ value' \in [Timers -> Nat] /\ Come(list', value', value, c)
  BY <1>1, TailSums
<1>5. Elapsed(count)' = 0
  <2>1. Diff(now, now) = 0
    BY <1>2, DiffIs
  <2>2. QED BY <1>1, <2>1 DEF Diff, Elapsed
<1>6. Once(list')
  <2>1. list \in Seq(Timers) /\ Once(list)
    BY DEF TypeInv
  <2>2. QED BY <1>1, <2>1, TailIn
<1>7. Overdue = IF Elapsed(count) >= c THEN Elapsed(count) - c + 1 ELSE 0
  BY <1>1 DEF Overdue
<1> HIDE DEF now, c
<1>8. /\ left' \in [Timers -> Nat]
      /\ \A t \in Timers : left'[t] \in Nat /\ left'[t] <= Max({left[t] - n, 0})
  <2>1. /\ LessTime(n) \in [Timers -> Nat]
        /\ \A t \in Timers : LessTime(n)[t] <= Max({left[t] - n, 0})
        /\ \A t \in Timers : Max({left[t] - n, 0}) \in Nat
    BY <1>2, LessTimeIs
  <2>2. left' \in [Timers -> Nat]
    BY <1>1, <2>1
  <2>3. ASSUME NEW t \in Timers PROVE left'[t] \in Nat /\ left'[t] <= Max({left[t] - n, 0})
    <3>1. PICK x : x = Max({left[t] - n, 0})
      OBVIOUS
    <3>2. x \in Nat /\ LessTime(n)[t] <= x
      BY <2>1, <3>1
    <3>3. left'[t] = LessTime(n)[t] \/ left'[t] = 0
      BY <1>1, <2>1
    <3>4. left'[t] <= x
      BY <3>2, <3>3
    <3>5. QED BY <2>2, <3>1, <3>4
  <2>4. QED BY <2>2, <2>3
<1>9. \A j \in 1 .. Len(list') : owner'[list'[j]] \in {"waits", "stops"}
  <2>1. Come(list', value', value, c) /\ owner' = owner
    BY <1>1, <1>4
  <2>2. QED BY <2>1, OwnersStay
<1>10. TypeInv'
  <2>1. pending' \in BOOLEAN
    BY <1>1 DEF TypeInv, Meets
  <2>2. /\ count' \in 0 .. Width - 1 /\ timerCounter' \in 0 .. Width - 1 /\ compare' \in 0 .. Width - 1
        /\ vimgr' \in {"wait", "loop"} /\ owner' \in [Timers -> {"idle", "waits", "stops", "dead"}]
    BY <1>1, <1>2 DEF TypeInv
  <2>3. QED BY <1>4, <1>6, <1>8, <1>9, <2>1, <2>2 DEF TypeInv
<1>11. SpanInv'
  <2>1. \A j \in 1 .. Len(list') : SumOf(list', value', j) < Width - Least
    BY <1>0, <1>3, <1>4, Spanned
  <2>2. QED BY <2>1, <1>1 DEF SpanInv, Sum
<1>12. ArmedInv'
  BY <1>1 DEF ArmedInv
<1>13. TimelyInv'
  <2>1. CASE list' = <<>>
    BY <2>1 DEF TimelyInv
  <2>2. CASE list' # <<>>
    <3>1. value'[list'[1]] \in Nat
      <4>1. PICK w \in [Timers -> Nat] : w = value'
        BY <1>4
      <4>2. QED BY <1>4, <2>2, <4>1, SumFirst
    <3>2. Ahead' = IF value'[list'[1]] >= Least THEN value'[list'[1]] ELSE Least
      BY <3>1, Constants, MaxTwo DEF Ahead
    <3>3. 0 <= Ahead'
      BY <3>1, <3>2, Constants
    <3>4. QED BY <1>5, <3>3 DEF TimelyInv
  <2>3. QED BY <2>1, <2>2
<1>14. NeverEarly' /\ Stay
  <2>1. Cycles = n /\ n \in 0 .. Width - 1
    BY <1>1, Constants, CyclesAre DEF now
  <2>2. /\ Delay \in Nat
        /\ Delay = Gap + Overdue \/ (Elapsed(count) = 0 /\ n = 0 /\ Delay = 0)
    <3>1. timerCounter' = Later(count, n) /\ Elapsed(count) + n < Width
      BY <1>1, <1>2 DEF now
    <3>2. QED BY <2>1, <3>1, DelayIs
  <2>3. /\ c + Elapsed(count)' <= Elapsed(count) + n /\ Elapsed(count)' \in Nat /\ c \in Int
        /\ Elapsed(count) + Cycles <= c + Elapsed(count)' + Delay /\ Cycles \in Nat
    BY <1>1, <1>2, <1>3, <1>5, <1>7, <2>1, <2>2, Constants
  <2>4. QED BY <1>0, <1>2, <1>4, <1>8, <2>2, <2>3, AllMoved
<1>15. QED BY <1>10, <1>11, <1>12, <1>13, <1>14 DEF IInv

\* The cycles by which osSetTimer brings the list up to date.
LEMMA BroughtIs ==
  ASSUME TypeInv, SpanInv, vimgr = "wait"
  PROVE  /\ Brought(count) \in [Timers -> Nat]
         /\ list # <<>> => value[list[1]] >= 1 /\ Brought(count)[list[1]] >= 1
         /\ \E c \in Nat : /\ \A i \in 1 .. Len(list) : Sum(Brought(count), i) = Sum(value, i) - c
                           /\ c <= Elapsed(count) /\ Elapsed(count) <= c + Overdue
<1>1. Elapsed(count) \in Nat
  BY ElapsedIs, Constants
<1>2. CASE list = <<>>
  <2>1. Brought(count) = value /\ value \in [Timers -> Nat] /\ Len(list) = 0 /\ Overdue = 0
    BY <1>2, EmptySeq DEF Brought, TypeInv, Overdue
  <2>2. QED BY <1>1, <1>2, <2>1
<1>3. CASE list # <<>>
  <2> DEFINE e == Elapsed(count)
             c == IF e < value[list[1]] THEN e ELSE value[list[1]] - 1
             w == Brought(count)
  <2>1. list[1] \in Timers /\ value[list[1]] \in Nat /\ value[list[1]] >= 1 /\ value \in [Timers -> Nat]
    BY <1>3, FirstIs DEF SpanInv, TypeInv
  <2>2. c \in 0 .. value[list[1]] /\ c \in Nat /\ c <= e
    BY <1>1, <2>1
  <2>3. value[list[1]] - c = IF e < value[list[1]] THEN value[list[1]] - e ELSE 1
    BY <1>1, <2>1
  <2>4. w = [value EXCEPT ![list[1]] = @ - c]
    BY <1>3, <2>3 DEF Brought
  <2>5. e <= c + Overdue
    <3>1. Overdue = IF e >= value[list[1]] THEN e - value[list[1]] + 1 ELSE 0
      BY <1>3 DEF Overdue
    <3>2. QED BY <1>1, <2>1, <3>1
  <2>6. w[list[1]] >= 1
    BY <1>1, <2>1, <2>3, <2>4
  <2> HIDE DEF e, c, w
  <2>7. w \in [Timers -> Nat] /\ \A i \in 1 .. Len(list) : Sum(w, i) = Sum(value, i) - c
    BY <1>3, <2>2, <2>4, FirstLess
  <2>8. QED BY <2>1, <2>2, <2>5, <2>6, <2>7 DEF e, w
<1>4. QED BY <1>2, <1>3

\* A timer is set.
LEMMA SetTimerStep ==
  ASSUME TypeInv, IInv, NEW t \in Timers, NEW countdown \in Countdowns,
         NEW n \in 0 .. Gap, NEW m \in 0 .. Gap, SetTimer(t, countdown, n, m)
  PROVE  TypeInv' /\ IInv' /\ Stay
<1>0. SpanInv /\ ArmedInv /\ TimelyInv /\ NeverEarly
  BY DEF IInv
<1> DEFINE now == Later(count, n)
           w == Brought(count)
<1>1. /\ vimgr = "wait" /\ owner[t] = "idle" /\ InsertTimer(t, countdown, w)
      /\ SetTimerIntr(value'[list'[1]], now, m)
      /\ left' = [LessTime(n + m) EXCEPT ![t] = Max({countdown - n - m, 0})]
      /\ owner' = [owner EXCEPT ![t] = "waits"] /\ vimgr' = vimgr
  BY DEF SetTimer
<1>2. /\ w \in [Timers -> Nat]
      /\ list # <<>> => value[list[1]] >= 1 /\ w[list[1]] >= 1
  BY <1>0, <1>1, BroughtIs
<1>3. PICK c \in Nat : /\ \A i \in 1 .. Len(list) : Sum(w, i) = Sum(value, i) - c
                       /\ c <= Elapsed(count) /\ Elapsed(count) <= c + Overdue
  BY <1>0, <1>1, BroughtIs
<1>4. now \in 0 .. Width - 1 /\ Elapsed(count) \in Nat /\ Overdue \in Nat
  BY ElapsedIs, OverdueIs, Constants
<1> HIDE DEF now, w
<1>5. countdown \in Nat /\ countdown >= 1 /\ countdown < Width - Least /\ countdown \in Nat \ {0}
  BY Constants
<1>6. \A i \in 1 .. Len(list) : list[i] \in Timers /\ list[i] # t
  <2> TAKE i \in 1 .. Len(list)
  <2>1. list[i] \in Timers /\ owner[list[i]] \in {"waits", "stops"}
    BY DEF TypeInv
  <2>2. QED BY <1>1, <2>1
<1>7. ~ In(t, list)
  BY <1>6 DEF In
<1>8. /\ list' \in Seq(Timers) /\ Once(list') /\ list' # <<>>
      /\ value' \in [Timers -> Nat]
      /\ \A j \in 1 .. Len(list') :
           \/ list'[j] = t /\ SumOf(list', value', j) = countdown
           \/ \E i \in 1 .. Len(list) : list'[j] = list[i] /\ SumOf(list', value', j) = Sum(w, i)
  BY <1>1, <1>2, <1>5, <1>7, InsertSums
<1>9. \A i \in 1 .. Len(list) : /\ Sum(value, i) \in Nat /\ Sum(value, i) < Width - Least
                                /\ Sum(w, i) < Width - Least /\ Sum(w, i) \in Int /\ Sum(w, i) >= 1
  <2> TAKE i \in 1 .. Len(list)
  <2>0. list # <<>>
    BY DEF TypeInv
  <2>1. Sum(value, i) \in Nat /\ Sum(value, i) < Width - Least
    BY <1>0, <2>0, FirstIs DEF SpanInv
  <2>2. list \in Seq(Timers) /\ Len(list) \in Nat
    BY DEF TypeInv
  <2>3. i \in 0 .. Len(list) /\ 1 \in 0 .. i
    BY <2>2
  <2>4. SumOf(list, w, i) \in Nat /\ SumOf(list, w, 1) <= SumOf(list, w, i)
    BY <1>2, <2>2, <2>3, SumNat
  <2>5. SumOf(list, w, 1) = w[list[1]] /\ w[list[1]] \in Nat
    BY <1>2, <2>0, <2>2, SumFirst
  <2>6. Sum(w, i) \in Nat /\ Sum(w, i) >= 1
    BY <1>2, <2>0, <2>4, <2>5 DEF Sum
  <2>7. QED BY <1>3, <2>1, <2>6, Constants
<1>10. \A j \in 1 .. Len(list') : /\ SumOf(list', value', j) < Width - Least
                                  /\ SumOf(list', value', j) >= 1
  BY <1>5, <1>8, <1>9
<1>11. PICK tim \in Nat : tim = value'[list'[1]] /\ tim < Width /\ tim >= 1
  <2>1. PICK v \in [Timers -> Nat] : v = value'
    BY <1>8
  <2>2. 1 \in 1 .. Len(list') /\ v[list'[1]] \in Nat /\ SumOf(list', v, 1) = v[list'[1]]
    BY <1>8, SumFirst
  <2>3. v[list'[1]] < Width - Least /\ v[list'[1]] >= 1
    BY <1>10, <2>1, <2>2
  <2>4. QED BY <2>1, <2>2, <2>3, Constants
<1>12. /\ timerCounter' \in 0 .. Width - 1 /\ count' \in 0 .. Width - 1
       /\ compare' \in 0 .. Width - 1 /\ pending' = FALSE
       /\ Elapsed(count)' = m /\ ArmedInv' /\ TimelyInv'
  <2>1. SetTimerIntr(tim, now, m)
    BY <1>1, <1>11
  <2>2. QED BY <1>4, <1>8, <1>11, <2>1, SetIntr
<1>13. SpanInv'
  BY <1>10, <1>11 DEF SpanInv, Sum
<1>14. PICK k \in Nat : k = n + m
  BY Constants
<1>15. /\ LessTime(k) \in [Timers -> Nat]
       /\ \A x \in Timers : LessTime(k)[x] <= Max({left[x] - k, 0})
  BY LessTimeIs
<1>16. Max({countdown - n - m, 0}) \in Nat /\ Max({countdown - n - m, 0}) <= Max({countdown - m, 0})
       /\ countdown - m \in Int
  <2>1. PICK x \in Int, y \in Int : x = countdown - n - m /\ y = countdown - m /\ x <= y
    BY <1>5, Constants
  <2>2. Max({x, 0}) = (IF x >= 0 THEN x ELSE 0) /\ Max({y, 0}) = (IF y >= 0 THEN y ELSE 0)
    BY MaxTwo
  <2>3. QED BY <2>1, <2>2
<1>17. left' \in [Timers -> Nat] /\ left'[t] = Max({countdown - n - m, 0})
       /\ \A x \in Timers : x # t => left'[x] = LessTime(k)[x]
  BY <1>1, <1>14, <1>15, <1>16
<1>18. TypeInv'
  <2>1. owner' \in [Timers -> {"idle", "waits", "stops", "dead"}] /\ vimgr' \in {"wait", "loop"}
    BY <1>1 DEF TypeInv
  <2>2. ASSUME NEW j \in 1 .. Len(list') PROVE owner'[list'[j]] \in {"waits", "stops"}
    <3>1. CASE list'[j] = t
      BY <1>1, <3>1 DEF TypeInv
    <3>2. CASE \E i \in 1 .. Len(list) : list'[j] = list[i]
      <4>1. PICK i \in 1 .. Len(list) : list'[j] = list[i]
        BY <3>2
      <4>2. list[i] \in Timers /\ list[i] # t /\ owner[list[i]] \in {"waits", "stops"}
        BY <1>6 DEF TypeInv
      <4>3. QED BY <1>1, <4>1, <4>2 DEF TypeInv
    <3>3. QED BY <1>8, <3>1, <3>2
  <2>3. pending' \in BOOLEAN
    BY <1>12
  <2>4. QED BY <1>8, <1>12, <1>17, <2>1, <2>2, <2>3 DEF TypeInv
<1>19. ASSUME NEW j \in 1 .. Len(list'), NEW i \in 1 .. Len(list), list'[j] = list[i]
       PROVE  left'[list'[j]] <= Max({Shown(j)', 0}) /\ Shown(j)' + Cycles <= Shown(i) + Delay
  <2>1. list[i] \in Timers /\ list[i] # t
    BY <1>6
  <2>2. PICK x \in 1 .. Len(list) : list'[j] = list[x] /\ SumOf(list', value', j) = Sum(w, x)
    BY <1>8, <1>19, <2>1
  <2>3. x = i
    BY <1>19, <2>2 DEF TypeInv, Once
  <2>4. SumOf(list', value', j) = Sum(value, i) - c
    BY <1>3, <2>2, <2>3
  <2>5. Cycles = k /\ k \in 0 .. Width - 1
    <3>1. n \in 0 .. Width - 1 /\ m \in 0 .. Width - 1 /\ n + m < Width /\ k \in 0 .. Width - 1
          /\ count \in 0 .. Width - 1
      BY <1>14, Constants DEF TypeInv
    <3>2. Later(Later(count, n), m) = Later(count, k)
      BY <3>1, <1>14, LaterLater
    <3>3. count' = Later(Later(count, n), m)
      BY <1>1 DEF SetTimerIntr, now
    <3>4. QED BY <3>1, <3>2, <3>3, CyclesAre
  <2>6. /\ Delay \in Nat
        /\ Delay = Gap + Overdue \/ (Elapsed(count) = 0 /\ n = 0 /\ Delay = 0)
    <3>1. timerCounter' = Later(count, n) /\ n \in 0 .. Width - 1
      BY <1>1, Constants DEF SetTimerIntr, now
    <3>2. Elapsed(count) + n < Width
      <4>1. list # <<>>
        BY DEF TypeInv
      <4>2. Elapsed(Later(count, n)) = Elapsed(count) + n
        BY <1>0, <4>1, NoWrap
      <4>3. Elapsed(Later(count, n)) \in 0 .. Width - 1
        BY ElapsedIs
      <4>4. QED BY <4>2, <4>3, Constants
    <3>3. QED BY <3>1, <3>2, DelayIs
  <2>7. /\ c + Elapsed(count)' <= Elapsed(count) + k /\ Elapsed(count)' \in Nat /\ c \in Int
        /\ Elapsed(count) + Cycles <= c + Elapsed(count)' + Delay /\ Cycles \in Nat
    <3>1. PICK e \in Nat, o \in Nat, d \in Nat :
            e = Elapsed(count) /\ o = Overdue /\ d = Delay /\ c <= e /\ e <= c + o
      BY <1>3, <1>4, <2>6
    <3>2. d = Gap + o \/ (e = 0 /\ n = 0 /\ d = 0)
      BY <2>6, <3>1
    <3>3. c + m <= e + k /\ e + k <= c + m + d
      BY <1>14, <3>1, <3>2, Constants
    <3>4. Elapsed(count)' = m /\ Cycles = k /\ m \in Nat
      BY <1>12, <2>5, Constants
    <3>5. QED BY <3>1, <3>3, <3>4
  <2>8. left'[list[i]] \in Nat /\ left'[list[i]] <= Max({left[list[i]] - k, 0})
    BY <1>15, <1>17, <2>1
  <2>9. QED BY <1>0, <1>19, <2>4, <2>6, <2>7, <2>8, Moved
<1>20. NeverEarly'
  <2> SUFFICES ASSUME NEW j \in 1 .. Len(list') PROVE left'[list'[j]] <= Max({Shown(j)', 0})
    BY <1>8 DEF NeverEarly
  <2>1. CASE list'[j] = t /\ SumOf(list', value', j) = countdown
    <3>1. Shown(j)' = countdown - m
      BY <1>12, <2>1 DEF Shown, Sum
    <3>2. QED BY <1>16, <1>17, <2>1, <3>1
  <2>2. CASE \E i \in 1 .. Len(list) : list'[j] = list[i]
    BY <1>19, <2>2
  <2>3. QED BY <1>8, <2>1, <2>2
<1>21. Stay
  <2>1. DOMAIN list = 1 .. Len(list) /\ DOMAIN list' = 1 .. Len(list')
    BY <1>8 DEF TypeInv
  <2>2. QED BY <1>19, <2>1 DEF Stay
<1>22. QED BY <1>12, <1>13, <1>18, <1>20, <1>21 DEF IInv

-----------------------------------------------------------------------------
(* The theorems.                                                           *)

\* The invariant holds at first.
LEMMA InitInv ==
  ASSUME Init
  PROVE  TypeInv /\ IInv
<1>1. /\ list = <<>> /\ value = [t \in Timers |-> 0] /\ timerCounter = 0
      /\ count = 1 /\ compare = 0 /\ pending = FALSE /\ vimgr = "wait"
      /\ owner = [t \in Timers |-> "idle"] /\ left = [t \in Timers |-> 0]
  BY DEF Init
<1>2. 0 \in 0 .. Width - 1 /\ 1 \in 0 .. Width - 1
  BY Constants
<1>3. list \in Seq(Timers) /\ Len(list) = 0 /\ DOMAIN list = {}
  BY <1>1, EmptySeq
<1>4. Once(list)
  BY <1>3 DEF Once
<1>5. TypeInv
  <2>1. /\ value \in [Timers -> Nat] /\ left \in [Timers -> Nat]
        /\ owner \in [Timers -> {"idle", "waits", "stops", "dead"}]
    BY <1>1
  <2>2. pending \in BOOLEAN /\ vimgr \in {"wait", "loop"}
    BY <1>1
  <2>3. timerCounter \in 0 .. Width - 1 /\ count \in 0 .. Width - 1 /\ compare \in 0 .. Width - 1
    BY <1>1, <1>2
  <2>4. \A i \in 1 .. Len(list) : owner[list[i]] \in {"waits", "stops"}
    BY <1>3
  <2>5. QED BY <1>3, <1>4, <2>1, <2>2, <2>3, <2>4 DEF TypeInv
<1>6. IInv
  BY <1>1, <1>3 DEF IInv, SpanInv, ArmedInv, TimelyInv, NeverEarly
<1>7. QED BY <1>5, <1>6

\* Every step keeps it, and puts no timer off.
LEMMA NextInv ==
  ASSUME TypeInv, IInv, [Next]_vars
  PROVE  TypeInv' /\ IInv' /\ Stay
<1>1. CASE Tick
  BY <1>1, TickStep
<1>2. CASE Interrupt
  BY <1>2, InterruptStep
<1>3. CASE TimerInterrupt
  <2>1. PICK n \in 0 .. Gap, p \in 0 .. Gap, m \in 0 .. Gap :
          NoneLeft \/ NotYet(n, p, m) \/ Expire(n)
    BY <1>3 DEF TimerInterrupt
  <2>2. QED BY <2>1, NoneLeftStep, NotYetStep, ExpireStep
<1>4. ASSUME NEW t \in Timers, NEW countdown \in Countdowns, NEW n \in 0 .. Gap, NEW m \in 0 .. Gap,
             SetTimer(t, countdown, n, m)
      PROVE  TypeInv' /\ IInv' /\ Stay
  BY <1>4, SetTimerStep
<1>5. ASSUME NEW t \in Timers, StopTimer(t) PROVE TypeInv' /\ IInv' /\ Stay
  BY <1>5, StopStep
<1>6. ASSUME NEW t \in Timers, EndStop(t) PROVE TypeInv' /\ IInv' /\ Stay
  BY <1>6, EndStopStep
<1>7. CASE UNCHANGED vars
  <2>1. /\ list' = list /\ value' = value /\ timerCounter' = timerCounter /\ count' = count
        /\ compare' = compare /\ pending' = pending /\ vimgr' = vimgr /\ owner' = owner
        /\ left' = left
    BY <1>7 DEF vars
  <2>2. TypeInv'
    BY <2>1 DEF TypeInv
  <2>3. NeverEarly' /\ Stay
    <3>1. \A x \in Timers : left'[x] \in Nat /\ left'[x] <= left[x]
      BY <2>1 DEF TypeInv
    <3>2. QED BY <2>1, <3>1, Unmoved DEF IInv
  <2>4. SpanInv' /\ TimelyInv' /\ ArmedInv'
    BY <2>1 DEF IInv, SpanInv, Sum, TimelyInv, ArmedInv, Elapsed, Ahead, Later
  <2>5. QED BY <2>2, <2>3, <2>4 DEF IInv
<1>8. QED BY <1>1, <1>2, <1>3, <1>4, <1>5, <1>6, <1>7 DEF Next

\* The counter's interrupt comes by the time of the first timer.
LEMMA ArmedIsArmed ==
  ASSUME TypeInv, IInv
  PROVE  AlwaysArmed
<1> SUFFICES ASSUME vimgr = "wait", list # <<>>, ~pending
             PROVE  \E n \in 1 .. Max({Shown(1), Least}) : Later(count, n) = compare
  BY DEF AlwaysArmed
<1>1. PICK n \in 1 .. Width : n + Elapsed(count) <= Ahead /\ Later(count, n) = compare
  BY DEF IInv, ArmedInv
<1>2. /\ value[list[1]] \in Nat /\ Sum(value, 1) = value[list[1]]
      /\ Ahead = IF value[list[1]] >= Least THEN value[list[1]] ELSE Least
  BY FirstIs
<1>3. Elapsed(count) \in Nat
  BY ElapsedIs, Constants
<1>4. PICK s \in Int : s = Shown(1) /\ s = value[list[1]] - Elapsed(count)
  BY <1>2, <1>3 DEF Shown
<1>5. Max({s, Least}) = IF s >= Least THEN s ELSE Least
  BY Constants, MaxTwo
<1>6. n \in 1 .. Max({s, Least})
  BY <1>1, <1>2, <1>3, <1>4, <1>5, Constants
<1>7. QED BY <1>1, <1>4, <1>6

\* The inductive invariant of the timers: the list is one of different timers that wait, all
\* expire within a round of the counter, and the interrupt comes, and is taken, before the
\* counter has wrapped around.
THEOREM Invariant == Spec => [](TypeInv /\ IInv)
<1>1. Init => TypeInv /\ IInv
  BY InitInv
<1>2. TypeInv /\ IInv /\ [Next]_vars => (TypeInv /\ IInv)'
  BY NextInv
<1>3. QED BY <1>1, <1>2, PTL DEF Spec

\* No timer expires before its time, whatever timers were set, stopped and expired around it.
\* (__osInsertTimer, osStopTimer, __osTimerInterrupt.)
THEOREM NeverEarlyHolds == Spec => []NeverEarly
<1>1. TypeInv /\ IInv => NeverEarly
  BY DEF IInv
<1>2. QED BY <1>1, Invariant, PTL

\* While there are timers the interrupt is pending or comes by the time of the first, or
\* within the least time the counter is set ahead.  (__osSetTimerIntr, osStopTimer.)
THEOREM AlwaysArmedHolds == Spec => []AlwaysArmed
<1>1. TypeInv /\ IInv => AlwaysArmed
  BY ArmedIsArmed
<1>2. QED BY <1>1, Invariant, PTL

\* A timer that is set and an interrupt that comes early or late put every other timer off,
\* by at most one gap between two readings of the counter and by what the first timer is
\* overdue; stopping a timer, or time that passes, does not.  (settimer.c:30, the two
\* readings of __osTimerInterrupt and __osSetTimerIntr.)
THEOREM OthersStayHolds == Spec => OthersStay
<1>1. TypeInv /\ IInv /\ [Next]_vars => [Stay]_vars
  BY NextInv
<1>2. Spec => [][Stay]_vars
  BY <1>1, Invariant, PTL DEF Spec
<1>3. QED BY <1>2, PTL DEF OthersStay, Stay

=============================================================================
