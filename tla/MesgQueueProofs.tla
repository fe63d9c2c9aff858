-------------------------- MODULE MesgQueueProofs --------------------------
(***************************************************************************)
(* The thread functions of OSThread keep every thread in the list it       *)
(* should be in, once, the lists in priority order and the thread of the   *)
(* highest priority running; the ring buffer of MesgQueue implements       *)
(* BoundedFifo; no wakeup is lost.  For every number of threads, lists and *)
(* priorities, every capacity and every set of messages.                   *)
(***************************************************************************)
EXTENDS MesgQueue, WellFoundedInduction, FiniteSetTheorems, SequenceTheorems, TLAPS

In(list) == {list[i] : i \in DOMAIN list}
Once(list) == \A i, j \in DOMAIN list : list[i] = list[j] => i = j
Sorted(pri, list) == \A i, j \in DOMAIN list : i < j => pri[list[i]] >= pri[list[j]]
Good(pri, list) == list \in Seq(Threads) /\ Once(list) /\ Sorted(pri, list)

-----------------------------------------------------------------------------
(* The lists.                                                              *)

LEMMA InitialSegment ==
    ASSUME NEW n \in Nat, NEW A \in SUBSET (1..n),
           \A i \in A : \A j \in 1..n : j < i => j \in A
    PROVE  Cardinality(A) \in 0..n /\ A = 1..Cardinality(A)
<1> DEFINE B == (1..(n + 1)) \ A
<1>1. B \in SUBSET Nat /\ n + 1 \in B
  OBVIOUS
<1>2. PICK m \in B : \A k \in B : m <= k
  <2>1. \E m \in B : \A k \in B : <<k, m>> \notin OpToRel(<, Nat)
    <3> HIDE DEF B
    <3> QED BY <1>1, NatLessThanWellFounded, WFMin, Zenon
  <2>2. PICK m \in B : \A k \in B : <<k, m>> \notin OpToRel(<, Nat)
    BY <2>1
  <2>3. \A k \in B : ~(k < m)
    <3> SUFFICES ASSUME NEW k \in B, k < m PROVE FALSE
      OBVIOUS
    <3>1. k \in Nat /\ m \in Nat
      BY <1>1
    <3>2. <<k, m>> \in Nat \X Nat /\ <<k, m>>[1] < <<k, m>>[2]
      BY <3>1
    <3>3. <<k, m>> \in OpToRel(<, Nat)
      BY <3>2 DEF OpToRel
    <3> QED BY <3>3, <2>2
  <2>4. \A k \in B : m <= k
    BY <2>3, <1>1
  <2> QED BY <2>4
<1>3. m \in 1..(n + 1) /\ m \notin A /\ \A k \in 1..(m - 1) : k \in A
  BY <1>2
<1>4. A = 1..(m - 1)
  <2>1. \A i \in A : i < m
    <3> SUFFICES ASSUME NEW i \in A, i >= m PROVE FALSE
      BY <1>3
    <3>1. m \in 1..n
      BY <1>3
    <3>2. m # i
      BY <1>3
    <3>3. m < i
      BY <3>2, <1>3
    <3> QED BY <3>1, <3>3, <1>3
  <2>2. \A i \in A : i \in 1..(m - 1)
    BY <2>1
  <2> QED BY <2>2, <1>3
<1>5. Cardinality(1..(m - 1)) = m - 1
  BY <1>3, FS_Interval
<1> QED BY <1>3, <1>4, <1>5

\* list with t behind its first k elements
Spliced(list, k, t) ==
    [i \in 1..(Len(list) + 1) |->
        IF i <= k THEN list[i] ELSE IF i = k + 1 THEN t ELSE list[i - 1]]

LEMMA InsertAt ==
    ASSUME NEW pri \in [Threads -> Nat], NEW list, Good(pri, list), NEW t \in Threads
    PROVE  \E k \in 0..Len(list) :
              /\ \A i \in 1..Len(list) : i <= k <=> pri[list[i]] >= pri[t]
              /\ Insert(pri, list, t) = Spliced(list, k, t)
<1> DEFINE A == {i \in DOMAIN list : pri[list[i]] >= pri[t]}
<1>1. list \in Seq(Threads) /\ Len(list) \in Nat /\ DOMAIN list = 1..Len(list)
      /\ \A i \in 1..Len(list) : list[i] \in Threads
  BY DEF Good
<1>2. \A i \in A : \A j \in 1..Len(list) : j < i => j \in A
  <2> SUFFICES ASSUME NEW i \in A, NEW j \in 1..Len(list), j < i PROVE pri[list[j]] >= pri[t]
    BY <1>1
  <2>1. pri[list[j]] >= pri[list[i]] /\ pri[list[i]] >= pri[t]
    BY <1>1 DEF Good, Sorted
  <2> QED BY <2>1, <1>1
<1>3. A \in SUBSET (1..Len(list))
  BY <1>1
<1>4. Cardinality(A) \in 0..Len(list) /\ A = 1..Cardinality(A)
  <2> HIDE DEF A
  <2> QED BY <1>1, <1>2, <1>3, InitialSegment
<1>5. \A i \in 1..Len(list) : i \in A <=> pri[list[i]] >= pri[t]
  BY <1>1
<1>6. Insert(pri, list, t) = Spliced(list, Cardinality(A), t)
  BY DEF Insert, Spliced
<1> HIDE DEF A
<1>7. \A i \in 1..Len(list) : i <= Cardinality(A) <=> pri[list[i]] >= pri[t]
  <2> DEFINE k == Cardinality(A)
  <2>1. k \in 0..Len(list) /\ A = 1..k
    BY <1>4
  <2> HIDE DEF k
  <2>2. \A i \in 1..Len(list) : i <= k <=> i \in A
    BY <2>1, <1>1
  <2> QED BY <2>2, <1>5 DEF k
<1> QED BY <1>4, <1>6, <1>7

LEMMA InsertGood ==
    ASSUME NEW pri \in [Threads -> Nat], NEW list, Good(pri, list),
           NEW t \in Threads, t \notin In(list)
    PROVE  /\ Good(pri, Insert(pri, list, t))
           /\ In(Insert(pri, list, t)) = In(list) \cup {t}
<1> DEFINE n == Len(list)
           new == Insert(pri, list, t)
<1>1. list \in Seq(Threads) /\ n \in Nat /\ DOMAIN list = 1..n
      /\ \A i \in 1..n : list[i] \in Threads /\ list[i] # t
  BY DEF Good, In
<1>2. PICK k \in 0..n : /\ \A i \in 1..n : i <= k <=> pri[list[i]] >= pri[t]
                        /\ new = Spliced(list, k, t)
  BY InsertAt
<1>2a. new = [i \in 1..(n + 1) |->
                 IF i <= k THEN list[i] ELSE IF i = k + 1 THEN t ELSE list[i - 1]]
  BY <1>2 DEF Spliced
<1>3. /\ \A i, j \in 1..n : i # j => list[i] # list[j]
      /\ \A i, j \in 1..n : i < j => pri[list[i]] >= pri[list[j]]
  BY <1>1 DEF Good, Once, Sorted
<1> HIDE DEF n, new
<1>4. \A i \in 1..(n + 1) : \/ i <= k /\ i \in 1..n /\ new[i] = list[i]
                            \/ i = k + 1 /\ new[i] = t
                            \/ i > k + 1 /\ i - 1 \in 1..n /\ new[i] = list[i - 1]
  BY <1>1, <1>2a
<1>5. new \in Seq(Threads) /\ DOMAIN new = 1..(n + 1)
  <2>1. \A i \in 1..(n + 1) : new[i] \in Threads
    BY <1>1, <1>4
  <2>2. DOMAIN new = 1..(n + 1) /\ new = [i \in 1..(n + 1) |-> new[i]]
    BY <1>2a
  <2>3. new \in [1..(n + 1) -> Threads]
    BY <2>1, <2>2
  <2> QED BY <2>2, <2>3, <1>1
<1>6. Once(new)
  <2> SUFFICES ASSUME NEW i \in 1..(n + 1), NEW j \in 1..(n + 1), new[i] = new[j], i # j
               PROVE FALSE
    BY <1>5 DEF Once
  <2> QED BY <1>1, <1>2, <1>3, <1>4
<1>7. Sorted(pri, new)
  <2> SUFFICES ASSUME NEW i \in 1..(n + 1), NEW j \in 1..(n + 1), i < j
               PROVE  pri[new[i]] >= pri[new[j]]
    BY <1>5 DEF Sorted
  <2>1. \A a, b \in 1..n : a < b => pri[list[a]] >= pri[list[b]]
    BY <1>3
  <2>2. \A a \in 1..n : pri[list[a]] \in Nat
    BY <1>1
  <2>3. pri[t] \in Nat
    OBVIOUS
  <2>4. CASE i <= k
    <3>1. i \in 1..n /\ new[i] = list[i] /\ pri[list[i]] >= pri[t]
      BY <2>4, <1>2, <1>4
    <3>2. CASE j = k + 1
      BY <3>1, <3>2, <1>4
    <3>3. CASE j <= k
      BY <3>3, <3>1, <2>1, <1>4
    <3>4. CASE j > k + 1
      <4>1. j - 1 \in 1..n /\ new[j] = list[j - 1]
        BY <3>4, <1>4
      <4>2. i < j - 1
        BY <3>4, <2>4
      <4> QED BY <4>1, <4>2, <3>1, <2>1
    <3> QED BY <3>2, <3>3, <3>4, <1>2
  <2>5. CASE i = k + 1
    <3>1. j - 1 \in 1..n /\ new[j] = list[j - 1] /\ ~(j - 1 <= k) /\ new[i] = t
      BY <2>5, <1>4
    <3>2. ~(pri[list[j - 1]] >= pri[t])
      BY <3>1, <1>2
    <3> QED BY <3>1, <3>2, <2>2, <2>3
  <2>6. CASE i > k + 1
    BY <2>6, <2>1, <1>4
  <2> QED BY <2>4, <2>5, <2>6
<1>8. In(new) = In(list) \cup {t}
  <2>1. \A i \in 1..(n + 1) : new[i] \in In(list) \cup {t}
    BY <1>1, <1>4 DEF In
  <2>2. \A i \in 1..n : list[i] \in In(new)
    <3> SUFFICES ASSUME NEW i \in 1..n PROVE list[i] \in In(new)
      OBVIOUS
    <3>1. CASE i <= k
      <4>1. i \in 1..(n + 1) /\ new[i] = list[i]
        BY <3>1, <1>1, <1>2, <1>4
      <4> QED BY <4>1, <1>5 DEF In
    <3>2. CASE i > k
      <4>1. i + 1 \in 1..(n + 1) /\ new[i + 1] = list[i]
        BY <3>2, <1>2a, <1>1
      <4> QED BY <4>1, <1>5 DEF In
    <3> QED BY <3>1, <3>2
  <2>3. t \in In(new)
    <3>1. k + 1 \in 1..(n + 1) /\ new[k + 1] = t
      BY <1>4, <1>1
    <3> QED BY <3>1, <1>5 DEF In
  <2> QED BY <2>1, <2>2, <2>3, <1>1, <1>5 DEF In
<1> QED BY <1>5, <1>6, <1>7, <1>8 DEF Good, new

LEMMA TailGood ==
    ASSUME NEW pri \in [Threads -> Nat], NEW list, Good(pri, list), list # <<>>
    PROVE  /\ list[1] \in Threads /\ list[1] \in In(list)
           /\ Good(pri, Tail(list))
           /\ In(Tail(list)) = In(list) \ {list[1]}
           /\ \A t \in In(list) : pri[t] <= pri[list[1]]
<1> DEFINE n == Len(list)
           rest == Tail(list)
<1>1. list \in Seq(Threads) /\ n \in Nat \ {0} /\ DOMAIN list = 1..n
      /\ \A i \in 1..n : list[i] \in Threads
  BY DEF Good
<1>2. rest \in Seq(Threads) /\ DOMAIN rest = 1..(n - 1) /\ \A i \in 1..(n - 1) : rest[i] = list[i + 1]
  BY <1>1
<1>3. /\ \A i, j \in 1..n : i # j => list[i] # list[j]
      /\ \A i, j \in 1..n : i < j => pri[list[i]] >= pri[list[j]]
  BY <1>1 DEF Good, Once, Sorted
<1> HIDE DEF n, rest
<1>4. Once(rest)
  <2> SUFFICES ASSUME NEW i \in 1..(n - 1), NEW j \in 1..(n - 1), rest[i] = rest[j] PROVE i = j
    BY <1>2 DEF Once
  <2>1. i + 1 \in 1..n /\ j + 1 \in 1..n /\ list[i + 1] = list[j + 1]
    BY <1>1, <1>2
  <2> QED BY <2>1, <1>3
<1>5. Sorted(pri, rest)
  <2> SUFFICES ASSUME NEW i \in 1..(n - 1), NEW j \in 1..(n - 1), i < j
               PROVE pri[rest[i]] >= pri[rest[j]]
    BY <1>2 DEF Sorted
  <2>1. i + 1 \in 1..n /\ j + 1 \in 1..n /\ i + 1 < j + 1
    BY <1>1
  <2> QED BY <2>1, <1>2, <1>3
<1>6. In(rest) = In(list) \ {list[1]}
  <2>1. \A i \in 1..(n - 1) : rest[i] \in In(list) \ {list[1]}
    <3> SUFFICES ASSUME NEW i \in 1..(n - 1) PROVE rest[i] \in In(list) \ {list[1]}
      OBVIOUS
    <3>1. i + 1 \in 1..n /\ 1 \in 1..n /\ i + 1 # 1 /\ rest[i] = list[i + 1]
      BY <1>1, <1>2
    <3> QED BY <3>1, <1>1, <1>3 DEF In
  <2>2. \A i \in 1..n : list[i] # list[1] => list[i] \in In(rest)
    <3> SUFFICES ASSUME NEW i \in 1..n, list[i] # list[1] PROVE list[i] \in In(rest)
      OBVIOUS
    <3>1. i - 1 \in 1..(n - 1) /\ rest[i - 1] = list[i]
      BY <1>1, <1>2
    <3> QED BY <3>1, <1>2 DEF In
  <2>3. \A x : x \in In(rest) => x \in In(list) \ {list[1]}
    BY <2>1, <1>2 DEF In
  <2>4. \A x : x \in In(list) \ {list[1]} => x \in In(rest)
    BY <2>2, <1>1 DEF In
  <2> QED BY <2>3, <2>4
<1>7. list[1] \in In(list) /\ \A t \in In(list) : pri[t] <= pri[list[1]]
  <2>1. 1 \in 1..n /\ \A i \in 1..n : i = 1 \/ 1 < i
    BY <1>1
  <2>2. \A i \in 1..n : pri[list[i]] <= pri[list[1]]
    BY <2>1, <1>1, <1>3
  <2> QED BY <2>1, <2>2, <1>1 DEF In
<1> QED BY <1>1, <1>2, <1>4, <1>5, <1>6, <1>7 DEF Good, rest

LEMMA UnlinkGood ==
    ASSUME NEW pri \in [Threads -> Nat], NEW list, Good(pri, list), NEW t \in In(list)
    PROVE  /\ Good(pri, Unlink(list, t))
           /\ In(Unlink(list, t)) = In(list) \ {t}
<1> DEFINE n == Len(list)
           k == CHOOSE i \in DOMAIN list : list[i] = t
           new == Unlink(list, t)
<1>1. list \in Seq(Threads) /\ n \in Nat /\ DOMAIN list = 1..n
      /\ \A i \in 1..n : list[i] \in Threads
  BY DEF Good
<1>2. k \in 1..n /\ list[k] = t
  BY <1>1 DEF In
<1>3. new = [i \in 1..(n - 1) |-> IF i < k THEN list[i] ELSE list[i + 1]]
  BY <1>1, <1>2 DEF Unlink
<1>4. /\ \A i, j \in 1..n : i # j => list[i] # list[j]
      /\ \A i, j \in 1..n : i < j => pri[list[i]] >= pri[list[j]]
  BY <1>1 DEF Good, Once, Sorted
<1> HIDE DEF n, k, new
<1>5. \A i \in 1..(n - 1) : \/ i < k /\ i \in 1..n /\ new[i] = list[i]
                            \/ i >= k /\ i + 1 \in 1..n /\ new[i] = list[i + 1]
  BY <1>1, <1>2, <1>3
<1>6. new \in Seq(Threads) /\ DOMAIN new = 1..(n - 1)
  <2>1. \A i \in 1..(n - 1) : new[i] \in Threads
    BY <1>1, <1>5
  <2>2. DOMAIN new = 1..(n - 1) /\ new = [i \in 1..(n - 1) |-> new[i]] /\ n - 1 \in Nat
    BY <1>1, <1>2, <1>3
  <2>3. new \in [1..(n - 1) -> Threads]
    BY <2>1, <2>2
  <2> QED BY <2>2, <2>3
<1>7. Once(new)
  <2> SUFFICES ASSUME NEW i \in 1..(n - 1), NEW j \in 1..(n - 1), new[i] = new[j], i # j
               PROVE FALSE
    BY <1>6 DEF Once
  <2>1. \A a, b \in 1..n : a # b => list[a] # list[b]
    BY <1>4
  <2>2. CASE i < k /\ j < k
    <3>1. i \in 1..n /\ new[i] = list[i] /\ j \in 1..n /\ new[j] = list[j]
      BY <2>2, <1>2, <1>5
    <3> QED BY <2>1, <3>1
  <2>3. CASE i < k /\ j >= k
    <3>1. i \in 1..n /\ new[i] = list[i] /\ j + 1 \in 1..n /\ new[j] = list[j + 1] /\ i # j + 1
      BY <2>3, <1>2, <1>5
    <3> QED BY <2>1, <3>1
  <2>4. CASE i >= k /\ j < k
    <3>1. j \in 1..n /\ new[j] = list[j] /\ i + 1 \in 1..n /\ new[i] = list[i + 1] /\ j # i + 1
      BY <2>4, <1>2, <1>5
    <3> QED BY <2>1, <3>1
  <2>5. CASE i >= k /\ j >= k
    <3>1. j + 1 \in 1..n /\ new[j] = list[j + 1] /\ i + 1 \in 1..n /\ new[i] = list[i + 1]
          /\ i + 1 # j + 1
      BY <2>5, <1>2, <1>5
    <3> QED BY <2>1, <3>1
  <2> QED BY <2>2, <2>3, <2>4, <2>5, <1>2
<1>8. Sorted(pri, new)
  <2> SUFFICES ASSUME NEW i \in 1..(n - 1), NEW j \in 1..(n - 1), i < j
               PROVE  pri[new[i]] >= pri[new[j]]
    BY <1>6 DEF Sorted
  <2>1. CASE i < k /\ j < k
    <3>1. i \in 1..n /\ new[i] = list[i] /\ j \in 1..n /\ new[j] = list[j]
      BY <2>1, <1>2, <1>5
    <3> QED BY <1>4, <3>1
  <2>2. CASE i < k /\ j >= k
    <3>1. i \in 1..n /\ new[i] = list[i] /\ j + 1 \in 1..n /\ new[j] = list[j + 1] /\ i < j + 1
      BY <2>2, <1>2, <1>5
    <3> QED BY <1>4, <3>1
  <2>3. CASE i >= k /\ j >= k
    <3>1. j + 1 \in 1..n /\ new[j] = list[j + 1] /\ i + 1 \in 1..n /\ new[i] = list[i + 1]
          /\ i + 1 < j + 1
      BY <2>3, <1>2, <1>5
    <3> QED BY <1>4, <3>1
  <2> QED BY <2>1, <2>2, <2>3, <1>2
<1>9. In(new) = In(list) \ {t}
  <2>1. \A i \in 1..(n - 1) : new[i] \in In(list) \ {t}
    <3> SUFFICES ASSUME NEW i \in 1..(n - 1) PROVE new[i] \in In(list) \ {t}
      OBVIOUS
    <3>1. PICK j \in 1..n : new[i] = list[j] /\ j # k
      BY <1>5
    <3> QED BY <3>1, <1>1, <1>2, <1>4 DEF In
  <2>2. \A i \in 1..n : list[i] # t => list[i] \in In(new)
    <3> SUFFICES ASSUME NEW i \in 1..n, list[i] # t PROVE list[i] \in In(new)
      OBVIOUS
    <3>1. CASE i < k
      <4>1. i \in 1..(n - 1) /\ new[i] = list[i]
        BY <3>1, <1>1, <1>2, <1>3
      <4> QED BY <4>1, <1>6 DEF In
    <3>2. CASE i > k
      <4>1. i - 1 \in 1..(n - 1) /\ new[i - 1] = list[i]
        BY <3>2, <1>1, <1>2, <1>3
      <4> QED BY <4>1, <1>6 DEF In
    <3> QED BY <3>1, <3>2, <1>2
  <2> QED BY <2>1, <2>2, <1>1, <1>6 DEF In
<1> QED BY <1>6, <1>7, <1>8, <1>9 DEF Good, new

-----------------------------------------------------------------------------
(* The thread system.  D are the threads that are in a list.               *)

Linked(s, D) ==
    /\ s \in ThreadSystem
    /\ D \subseteq Threads
    /\ \A q \in Queues : Good(s.priority, s.threadq[q])
    /\ \A q \in Queues : \A t \in Threads : t \in In(s.threadq[q]) <=> t \in D /\ s.queue[t] = q
    /\ \A t \in D : s.queue[t] \in Queues

LEMMA RunQueue == "run" \in Queues /\ WaitQueues \subseteq Queues /\ "run" \notin WaitQueues
BY ThreadAssumption DEF Queues

LEMMA EnqueueLinked ==
    ASSUME NEW s, NEW D, Linked(s, D), NEW q \in Queues, NEW t \in Threads \ D
    PROVE  LET e == EnqueueThread(s, q, t) IN
           /\ Linked(e, D \cup {t})
           /\ e.running = s.running /\ e.state = s.state /\ e.priority = s.priority
           /\ e.active = s.active /\ e.queue = [s.queue EXCEPT ![t] = q]
<1> DEFINE e == EnqueueThread(s, q, t)
           new == Insert(s.priority, s.threadq[q], t)
<1>1. s \in ThreadSystem
  BY DEF Linked
<1>2. /\ e.running = s.running /\ e.state = s.state /\ e.priority = s.priority
      /\ e.active = s.active /\ e.queue = [s.queue EXCEPT ![t] = q]
      /\ e.threadq = [s.threadq EXCEPT ![q] = new]
  BY <1>1 DEF EnqueueThread, ThreadSystem
<1>3a. new \in Seq(Threads) => e \in ThreadSystem
  BY <1>1 DEF EnqueueThread, ThreadSystem
<1>3. t \notin In(s.threadq[q]) /\ Good(s.priority, s.threadq[q]) /\ s.priority \in [Threads -> Nat]
  BY <1>1 DEF Linked, ThreadSystem
<1>4. Good(s.priority, new) /\ In(new) = In(s.threadq[q]) \cup {t}
  BY <1>3, InsertGood
<1> HIDE DEF e, new
<1>5. \A r \in Queues : e.threadq[r] = IF r = q THEN new ELSE s.threadq[r]
  BY <1>1, <1>2 DEF ThreadSystem
<1>6. e \in ThreadSystem
  BY <1>3a, <1>4 DEF Good
<1>7. \A r \in Queues : In(e.threadq[r]) = IF r = q THEN In(s.threadq[r]) \cup {t}
                                           ELSE In(s.threadq[r])
  BY <1>4, <1>5
<1>8. \A u \in Threads : e.queue[u] = IF u = t THEN q ELSE s.queue[u]
  BY <1>1, <1>2 DEF ThreadSystem
<1>9. \A r \in Queues : \A u \in Threads :
         u \in In(e.threadq[r]) <=> u \in D \cup {t} /\ e.queue[u] = r
  <2> SUFFICES ASSUME NEW r \in Queues, NEW u \in Threads
               PROVE  u \in In(e.threadq[r]) <=> u \in D \cup {t} /\ e.queue[u] = r
    OBVIOUS
  <2>1. u \in In(s.threadq[r]) <=> u \in D /\ s.queue[u] = r
    BY DEF Linked
  <2> QED BY <1>7, <1>8, <2>1
<1>10. \A r \in Queues : Good(e.priority, e.threadq[r])
  BY <1>2, <1>4, <1>5 DEF Linked
<1>11. \A u \in D \cup {t} : e.queue[u] \in Queues
  BY <1>8 DEF Linked
<1>12. Linked(e, D \cup {t})
  BY <1>6, <1>9, <1>10, <1>11 DEF Linked
<1> QED BY <1>2, <1>12 DEF e

LEMMA PopLinked ==
    ASSUME NEW s, NEW D, Linked(s, D), NEW q \in Queues, s.threadq[q] # <<>>
    PROVE  LET e == PopThread(s, q)
               t == s.threadq[q][1] IN
           /\ t \in D /\ s.queue[t] = q /\ t \in In(s.threadq[q])
           /\ \A u \in In(s.threadq[q]) : s.priority[u] <= s.priority[t]
           /\ Linked(e, D \ {t})
           /\ e.running = s.running /\ e.state = s.state /\ e.priority = s.priority
           /\ e.active = s.active /\ e.queue = s.queue
           /\ In(e.threadq[q]) = In(s.threadq[q]) \ {t}
           /\ \A r \in Queues \ {q} : e.threadq[r] = s.threadq[r]
<1> DEFINE e == PopThread(s, q)
           t == s.threadq[q][1]
           new == Tail(s.threadq[q])
<1>1. s \in ThreadSystem
  BY DEF Linked
<1>2. /\ e.running = s.running /\ e.state = s.state /\ e.priority = s.priority
      /\ e.active = s.active /\ e.queue = s.queue
      /\ e.threadq = [s.threadq EXCEPT ![q] = new]
  BY <1>1 DEF PopThread, ThreadSystem
<1>3a. new \in Seq(Threads) => e \in ThreadSystem
  BY <1>1 DEF PopThread, ThreadSystem
<1>3. Good(s.priority, s.threadq[q]) /\ s.priority \in [Threads -> Nat]
  BY <1>1 DEF Linked, ThreadSystem
<1>4. /\ t \in Threads /\ t \in In(s.threadq[q])
      /\ Good(s.priority, new) /\ In(new) = In(s.threadq[q]) \ {t}
      /\ \A u \in In(s.threadq[q]) : s.priority[u] <= s.priority[t]
  BY <1>3, TailGood
<1>5. t \in D /\ s.queue[t] = q
  BY <1>4 DEF Linked
<1> HIDE DEF e, new, t
<1>6. \A r \in Queues : e.threadq[r] = IF r = q THEN new ELSE s.threadq[r]
  BY <1>1, <1>2 DEF ThreadSystem
<1>7. e \in ThreadSystem
  BY <1>3a, <1>4 DEF Good
<1>8. \A r \in Queues : In(e.threadq[r]) = IF r = q THEN In(s.threadq[r]) \ {t}
                                           ELSE In(s.threadq[r])
  BY <1>4, <1>6
<1>9. \A r \in Queues : \A u \in Threads :
         u \in In(e.threadq[r]) <=> u \in D \ {t} /\ e.queue[u] = r
  <2> SUFFICES ASSUME NEW r \in Queues, NEW u \in Threads
               PROVE  u \in In(e.threadq[r]) <=> u \in D \ {t} /\ e.queue[u] = r
    OBVIOUS
  <2>1. u \in In(s.threadq[r]) <=> u \in D /\ s.queue[u] = r
    BY DEF Linked
  <2> QED BY <1>2, <1>5, <1>8, <2>1
<1>10. \A r \in Queues : Good(e.priority, e.threadq[r])
  BY <1>2, <1>4, <1>6 DEF Linked
<1>11. Linked(e, D \ {t})
  BY <1>2, <1>7, <1>9, <1>10 DEF Linked
<1> QED BY <1>2, <1>4, <1>5, <1>6, <1>8, <1>11 DEF e, t

LEMMA DequeueLinked ==
    ASSUME NEW s, NEW D, Linked(s, D), NEW t \in D
    PROVE  LET e == DequeueThread(s, t) IN
           /\ Linked(e, D \ {t})
           /\ e.running = s.running /\ e.state = s.state /\ e.priority = s.priority
           /\ e.active = s.active /\ e.queue = s.queue
           /\ \A r \in Queues : In(e.threadq[r]) = In(s.threadq[r]) \ {t}
<1> DEFINE e == DequeueThread(s, t)
           q == s.queue[t]
           new == Unlink(s.threadq[q], t)
<1>1. s \in ThreadSystem /\ t \in Threads /\ q \in Queues /\ t \in In(s.threadq[q])
  BY DEF Linked
<1>2. /\ e.running = s.running /\ e.state = s.state /\ e.priority = s.priority
      /\ e.active = s.active /\ e.queue = s.queue
      /\ e.threadq = [s.threadq EXCEPT ![q] = new]
  BY <1>1 DEF DequeueThread, ThreadSystem
<1>3a. new \in Seq(Threads) => e \in ThreadSystem
  BY <1>1 DEF DequeueThread, ThreadSystem
<1>3. Good(s.priority, s.threadq[q]) /\ s.priority \in [Threads -> Nat]
  BY <1>1 DEF Linked, ThreadSystem
<1>4. Good(s.priority, new) /\ In(new) = In(s.threadq[q]) \ {t}
  BY <1>1, <1>3, UnlinkGood
<1> HIDE DEF e, new
<1>6. \A r \in Queues : e.threadq[r] = IF r = q THEN new ELSE s.threadq[r]
  BY <1>1, <1>2 DEF ThreadSystem
<1>7. e \in ThreadSystem
  BY <1>3a, <1>4 DEF Good
<1>8. \A r \in Queues : In(e.threadq[r]) = In(s.threadq[r]) \ {t}
  <2> SUFFICES ASSUME NEW r \in Queues PROVE In(e.threadq[r]) = In(s.threadq[r]) \ {t}
    OBVIOUS
  <2>1. r # q => t \notin In(s.threadq[r])
    BY <1>1 DEF Linked
  <2> QED BY <1>4, <1>6, <2>1
<1>9. \A r \in Queues : \A u \in Threads :
         u \in In(e.threadq[r]) <=> u \in D \ {t} /\ e.queue[u] = r
  <2> SUFFICES ASSUME NEW r \in Queues, NEW u \in Threads
               PROVE  u \in In(e.threadq[r]) <=> u \in D \ {t} /\ e.queue[u] = r
    OBVIOUS
  <2>1. u \in In(s.threadq[r]) <=> u \in D /\ s.queue[u] = r
    BY DEF Linked
  <2> QED BY <1>2, <1>8, <2>1
<1>10. \A r \in Queues : Good(e.priority, e.threadq[r])
  BY <1>2, <1>4, <1>6 DEF Linked
<1>11. Linked(e, D \ {t})
  BY <1>2, <1>7, <1>9, <1>10 DEF Linked
<1> QED BY <1>2, <1>8, <1>11 DEF e

\* Fields that the lists do not depend on.
LEMMA SameLists ==
    ASSUME NEW s, NEW D, Linked(s, D), NEW e \in ThreadSystem,
           e.threadq = s.threadq, e.queue = s.queue, e.priority = s.priority
    PROVE  Linked(e, D)
BY DEF Linked

\* The priority and the queue field of a thread that is in no list.
LEMMA ChangeUnlinked ==
    ASSUME NEW s, NEW D, Linked(s, D), NEW e \in ThreadSystem, NEW t \in Threads \ D,
           e.threadq = s.threadq,
           \A u \in Threads \ {t} : e.queue[u] = s.queue[u] /\ e.priority[u] = s.priority[u]
    PROVE  Linked(e, D)
<1>1. \A q \in Queues : t \notin In(s.threadq[q]) /\ s.threadq[q] \in Seq(Threads)
  BY DEF Linked, ThreadSystem
<1>2. \A q \in Queues : Good(e.priority, e.threadq[q])
  <2> SUFFICES ASSUME NEW q \in Queues PROVE Good(e.priority, s.threadq[q])
    OBVIOUS
  <2>1. Good(s.priority, s.threadq[q])
    BY DEF Linked
  <2>2. \A i \in DOMAIN s.threadq[q] : s.threadq[q][i] \in Threads \ {t}
    BY <1>1 DEF In
  <2> QED BY <2>1, <2>2 DEF Good, Sorted
<1>3. \A q \in Queues : \A u \in Threads : u \in In(e.threadq[q]) <=> u \in D /\ e.queue[u] = q
  <2> SUFFICES ASSUME NEW q \in Queues, NEW u \in Threads
               PROVE u \in In(s.threadq[q]) <=> u \in D /\ e.queue[u] = q
    OBVIOUS
  <2>1. u \in In(s.threadq[q]) <=> u \in D /\ s.queue[u] = q
    BY DEF Linked
  <2>2. CASE u = t
    BY <2>2, <1>1
  <2>3. CASE u # t
    BY <2>1, <2>3
  <2> QED BY <2>2, <2>3
<1>4. \A u \in D : e.queue[u] \in Queues
  BY DEF Linked
<1> QED BY <1>2, <1>3, <1>4 DEF Linked

-----------------------------------------------------------------------------
(* The threads that wait for the processor or in a list, and the shapes of *)
(* the thread system between the steps of a thread function.               *)

Listed(s) == {t \in s.active \ {s.running} : s.state[t] # "STOPPED"}

Waits(s, t) ==
    /\ s.state[t] \in {"RUNNABLE", "WAITING"}
    /\ s.queue[t] # "run" => s.state[t] = "WAITING"

IdleOK(s) == Idle \in s.active /\ s.state[Idle] # "STOPPED"

\* Everything is in order, except that the head of the run queue may have a
\* higher priority than the running thread.
LinkedOK(s) ==
    /\ Linked(s, Listed(s))
    /\ \A t \in Listed(s) : Waits(s, t)
    /\ IdleOK(s) /\ (Idle # s.running => s.queue[Idle] = "run")
    /\ s.running \in s.active /\ s.state[s.running] = "RUNNING"

\* Everything is in order.
ThreadsOK(s) ==
    /\ LinkedOK(s)
    /\ \A t \in In(s.threadq["run"]) : s.priority[t] <= s.priority[s.running]

\* t is on its way from one list to another.
Between(s, t) ==
    /\ t \in s.active \ {s.running}
    /\ Linked(s, Listed(s) \ {t})
    /\ \A u \in Listed(s) \ {t} : Waits(s, u)
    /\ IdleOK(s) /\ (Idle \notin {s.running, t} => s.queue[Idle] = "run")
    /\ s.running \in s.active /\ s.state[s.running] = "RUNNING"

\* No thread has the processor.
NoneRuns(s) ==
    LET D == {t \in s.active : s.state[t] # "STOPPED"} IN
    /\ Linked(s, D)
    /\ \A t \in D : Waits(s, t)
    /\ IdleOK(s) /\ s.queue[Idle] = "run"

LEMMA DispatchOK == ASSUME NEW s, NoneRuns(s) PROVE ThreadsOK(DispatchThread(s))
<1> DEFINE D == {t \in s.active : s.state[t] # "STOPPED"}
           t == s.threadq["run"][1]
           p == PopThread(s, "run")
           e == DispatchThread(s)
<1>1. /\ Linked(s, D) /\ s \in ThreadSystem /\ D \subseteq Threads /\ Idle \in D
      /\ \A u \in D : Waits(s, u)
      /\ s.queue[Idle] = "run"
  BY ThreadAssumption DEF NoneRuns, Linked, IdleOK
<1>2. Idle \in In(s.threadq["run"])
  BY <1>1, RunQueue, ThreadAssumption DEF Linked
<1>3. s.threadq["run"] # <<>>
  BY <1>2 DEF In
<1> HIDE DEF D
<1>4. /\ t \in D /\ t \in In(s.threadq["run"])
      /\ \A u \in In(s.threadq["run"]) : s.priority[u] <= s.priority[t]
      /\ Linked(p, D \ {t})
      /\ p.running = s.running /\ p.state = s.state /\ p.priority = s.priority
      /\ p.active = s.active /\ p.queue = s.queue
      /\ In(p.threadq["run"]) = In(s.threadq["run"]) \ {t}
  BY <1>1, <1>3, RunQueue, PopLinked
<1>5. t \in Threads /\ p \in ThreadSystem
  BY <1>1, <1>4 DEF Linked
<1>6. e = [p EXCEPT !.running = t, !.state[t] = "RUNNING"]
  BY <1>3 DEF DispatchThread
<1> HIDE DEF t, p, e
<1>7. /\ e \in ThreadSystem
      /\ e.running = t /\ e.state = [s.state EXCEPT ![t] = "RUNNING"]
      /\ e.priority = s.priority /\ e.active = s.active /\ e.queue = s.queue
      /\ e.threadq = p.threadq
  BY <1>4, <1>5, <1>6 DEF ThreadSystem, States
<1>8. Linked(e, D \ {t})
  BY <1>4, <1>7, SameLists
<1>9. s.state \in [Threads -> States] /\ s.active \subseteq Threads
  BY <1>1 DEF ThreadSystem
<1>10. e.state[t] = "RUNNING" /\ \A u \in Threads \ {t} : e.state[u] = s.state[u]
  BY <1>5, <1>7, <1>9
<1>11. Listed(e) = D \ {t}
  BY <1>7, <1>9, <1>10 DEF Listed, D
<1>12. \A u \in Listed(e) : Waits(e, u)
  BY <1>1, <1>7, <1>10, <1>11 DEF Waits
<1>13. t \in s.active
  BY <1>4 DEF D
<1>14. IdleOK(e)
  BY <1>1, <1>7, <1>10, ThreadAssumption DEF IdleOK, D
<1>15. LinkedOK(e)
  BY <1>1, <1>7, <1>8, <1>10, <1>11, <1>12, <1>13, <1>14 DEF LinkedOK
<1>16. \A u \in In(e.threadq["run"]) : e.priority[u] <= e.priority[e.running]
  BY <1>4, <1>7
<1> QED BY <1>15, <1>16 DEF ThreadsOK, e

LEMMA YieldReady ==
    ASSUME NEW s, LinkedOK(s), NEW q \in Queues, NEW x \in {"RUNNABLE", "WAITING"},
           q # "run" => x = "WAITING" /\ s.running # Idle
    PROVE  NoneRuns(EnqueueThread([s EXCEPT !.state[s.running] = x], q, s.running))
<1> DEFINE r == s.running
           w == [s EXCEPT !.state[s.running] = x]
           e == EnqueueThread(w, q, r)
           D == Listed(s)
<1>1. s \in ThreadSystem /\ Linked(s, D) /\ r \in s.active /\ r \in Threads \ D
  BY DEF LinkedOK, Linked, Listed, ThreadSystem
<1>2. /\ w \in ThreadSystem /\ w.running = r /\ w.state = [s.state EXCEPT ![r] = x]
      /\ w.threadq = s.threadq /\ w.queue = s.queue /\ w.priority = s.priority
      /\ w.active = s.active
  BY <1>1 DEF ThreadSystem, States
<1>3. Linked(w, D)
  BY <1>1, <1>2, SameLists
<1> HIDE DEF w, r, D
<1>4. /\ Linked(e, D \cup {r}) /\ e.state = w.state /\ e.active = w.active
      /\ e.queue = [w.queue EXCEPT ![r] = q]
  BY <1>1, <1>2, <1>3, EnqueueLinked
<1> USE DEF r, D
<1>5. s.state \in [Threads -> States] /\ s.active \subseteq Threads
      /\ s.queue \in [Threads -> Queues \cup {"NULL"}]
  BY <1>1 DEF ThreadSystem
<1>6. /\ \A t \in Threads : e.state[t] = IF t = r THEN x ELSE s.state[t]
      /\ \A t \in Threads : e.queue[t] = IF t = r THEN q ELSE s.queue[t]
      /\ e.active = s.active
  BY <1>2, <1>4, <1>5
<1>8. D \subseteq Threads /\ D = {t \in s.active \ {r} : s.state[t] # "STOPPED"}
      /\ \A t \in D : Waits(s, t)
  BY <1>1 DEF LinkedOK, Linked, Listed
<1>9. IdleOK(s) /\ (Idle # r => s.queue[Idle] = "run")
  BY DEF LinkedOK
<1> HIDE DEF e, w, r, D
<1>10. {t \in e.active : e.state[t] # "STOPPED"} = D \cup {r}
  BY <1>1, <1>5, <1>6, <1>8
<1>11. \A t \in D \cup {r} : Waits(e, t)
  BY <1>1, <1>6, <1>8 DEF Waits
<1>12. e.queue[Idle] = "run" /\ IdleOK(e)
  <2>1. Idle = r => q = "run"
    BY DEF r
  <2> QED BY <2>1, <1>6, <1>9, ThreadAssumption DEF IdleOK
<1>13. NoneRuns(e)
  BY <1>4, <1>10, <1>11, <1>12 DEF NoneRuns
<1> QED BY <1>13 DEF e, w, r

LEMMA YieldOK ==
    ASSUME NEW s, LinkedOK(s), NEW q \in Queues, NEW x \in {"RUNNABLE", "WAITING"},
           q # "run" => x = "WAITING" /\ s.running # Idle
    PROVE  ThreadsOK(EnqueueAndYield([s EXCEPT !.state[s.running] = x], q))
<1> DEFINE w == [s EXCEPT !.state[s.running] = x]
<1>1. w.running = s.running
  BY DEF LinkedOK, Linked, ThreadSystem
<1>2. NoneRuns(EnqueueThread(w, q, s.running))
  BY YieldReady
<1> HIDE DEF w
<1>3. ThreadsOK(EnqueueAndYield(w, q))
  BY <1>1, <1>2, DispatchOK DEF EnqueueAndYield
<1> QED BY <1>3 DEF w

LEMMA PreemptOK == ASSUME NEW s, LinkedOK(s) PROVE ThreadsOK(Preempt(s))
<1> DEFINE run == s.threadq["run"]
<1>1. /\ s \in ThreadSystem /\ Good(s.priority, run) /\ s.priority \in [Threads -> Nat]
      /\ s.running \in Threads
  BY RunQueue DEF LinkedOK, Linked, ThreadSystem
<1>2. CASE run # <<>> /\ s.priority[s.running] < s.priority[run[1]]
  <2>1. Preempt(s) = EnqueueAndYield([s EXCEPT !.state[s.running] = "RUNNABLE"], "run")
    BY <1>2 DEF Preempt
  <2> QED BY <2>1, RunQueue, YieldOK
<1>3. CASE run # <<>> /\ ~(s.priority[s.running] < s.priority[run[1]])
  <2>1. run[1] \in Threads /\ \A t \in In(run) : s.priority[t] <= s.priority[run[1]]
    BY <1>1, <1>3, TailGood
  <2>2. In(run) \subseteq Threads
    BY <1>1 DEF In, Good
  <2>3. \A t \in In(run) : s.priority[t] <= s.priority[s.running]
    BY <1>1, <1>3, <2>1, <2>2
  <2>4. Preempt(s) = s
    BY <1>3 DEF Preempt
  <2> QED BY <2>3, <2>4 DEF ThreadsOK
<1>4. CASE run = <<>>
  <2>1. Preempt(s) = s
    BY <1>4 DEF Preempt
  <2>2. In(run) = {}
    BY <1>4 DEF In
  <2> QED BY <2>1, <2>2 DEF ThreadsOK
<1> QED BY <1>2, <1>3, <1>4

LEMMA BetweenType ==
    ASSUME NEW s, NEW t, Between(s, t)
    PROVE  /\ s \in ThreadSystem /\ s.state \in [Threads -> States]
           /\ s.queue \in [Threads -> Queues \cup {"NULL"}]
           /\ s.active \subseteq Threads
           /\ t \in Threads \ (Listed(s) \ {t}) /\ t # s.running /\ s.running \in Threads
           /\ Listed(s) \subseteq Threads
BY DEF Between, Linked, Listed, ThreadSystem

\* The thread arrives in a list.
LEMMA Arrives ==
    ASSUME NEW s, NEW t, Between(s, t), NEW q \in Queues,
           s.state[t] \in {"RUNNABLE", "WAITING"},
           q # "run" => s.state[t] = "WAITING" /\ t # Idle
    PROVE  LinkedOK(EnqueueThread(s, q, t)) /\ EnqueueThread(s, q, t).threadq[q] # <<>>
<1> DEFINE D == Listed(s) \ {t}
           e == EnqueueThread(s, q, t)
<1>1. Linked(s, D) /\ t \in Threads \ D
  BY BetweenType DEF Between
<1> HIDE DEF D
<1>2. /\ Linked(e, D \cup {t})
      /\ e.running = s.running /\ e.state = s.state /\ e.active = s.active
      /\ e.queue = [s.queue EXCEPT ![t] = q]
  BY <1>1, EnqueueLinked
<1> HIDE DEF e
<1>3. \A u \in Threads : e.queue[u] = IF u = t THEN q ELSE s.queue[u]
  BY <1>2, BetweenType
<1>4. Listed(e) = D \cup {t}
  BY <1>2, BetweenType DEF Listed, D, Between
<1>5. \A u \in Listed(e) : Waits(e, u)
  <2>1. \A u \in D : Waits(s, u) /\ u \in Threads
    BY BetweenType DEF D, Between
  <2> QED BY <1>1, <1>2, <1>3, <1>4, <2>1 DEF Waits
<1>6. IdleOK(e) /\ (Idle # e.running => e.queue[Idle] = "run")
  BY <1>2, <1>3, ThreadAssumption DEF Between, IdleOK
<1>7. LinkedOK(e)
  BY <1>2, <1>4, <1>5, <1>6 DEF LinkedOK, Between
<1>8. t \in In(e.threadq[q])
  BY <1>1, <1>2, <1>3 DEF Linked
<1> QED BY <1>7, <1>8 DEF e, In

\* The head of a list leaves it.
LEMMA PopBetween ==
    ASSUME NEW s, LinkedOK(s), NEW q \in Queues, s.threadq[q] # <<>>
    PROVE  LET t == s.threadq[q][1]
               e == PopThread(s, q) IN
           /\ Between(e, t)
           /\ e.state = s.state /\ Waits(s, t) /\ s.queue[t] = q /\ e.running = s.running
<1> DEFINE D == Listed(s)
           t == s.threadq[q][1]
           e == PopThread(s, q)
<1>1. Linked(s, D) /\ \A u \in D : Waits(s, u)
  BY DEF LinkedOK
<1> HIDE DEF D
<1>2. /\ t \in D /\ s.queue[t] = q /\ Linked(e, D \ {t})
      /\ e.running = s.running /\ e.state = s.state /\ e.active = s.active
      /\ e.queue = s.queue
  BY <1>1, PopLinked
<1> HIDE DEF e, t
<1>3. Listed(e) = D
  BY <1>2 DEF Listed, D
<1>4. t \in e.active \ {e.running}
  BY <1>2 DEF Listed, D
<1>5. \A u \in D : Waits(e, u)
  BY <1>1, <1>2 DEF Waits
<1>6. IdleOK(e) /\ (Idle \notin {e.running, t} => e.queue[Idle] = "run")
      /\ e.running \in e.active /\ e.state[e.running] = "RUNNING"
  BY <1>2 DEF LinkedOK, IdleOK
<1>7. Between(e, t)
  BY <1>2, <1>3, <1>4, <1>5, <1>6 DEF Between
<1> QED BY <1>1, <1>2, <1>7 DEF e, t

\* A thread leaves its list from anywhere in it.
LEMMA DequeueBetween ==
    ASSUME NEW s, LinkedOK(s), NEW t \in Listed(s)
    PROVE  LET e == DequeueThread(s, t) IN
           /\ Between(e, t)
           /\ e.state = s.state /\ e.running = s.running /\ e.queue = s.queue
           /\ e.priority = s.priority /\ e.active = s.active
           /\ \A r \in Queues : In(e.threadq[r]) = In(s.threadq[r]) \ {t}
<1> DEFINE D == Listed(s)
           e == DequeueThread(s, t)
<1>1. Linked(s, D) /\ t \in D /\ \A u \in D : Waits(s, u)
  BY DEF LinkedOK
<1> HIDE DEF D
<1>2. /\ Linked(e, D \ {t})
      /\ e.running = s.running /\ e.state = s.state /\ e.active = s.active
      /\ e.queue = s.queue /\ e.priority = s.priority
      /\ \A r \in Queues : In(e.threadq[r]) = In(s.threadq[r]) \ {t}
  BY <1>1, DequeueLinked
<1> HIDE DEF e
<1>3. Listed(e) = D
  BY <1>2 DEF Listed, D
<1>4. t \in e.active \ {e.running}
  BY <1>1, <1>2 DEF Listed, D
<1>5. \A u \in D : Waits(e, u)
  BY <1>1, <1>2 DEF Waits
<1>6. IdleOK(e) /\ (Idle \notin {e.running, t} => e.queue[Idle] = "run")
      /\ e.running \in e.active /\ e.state[e.running] = "RUNNING"
  BY <1>2 DEF LinkedOK, IdleOK
<1>7. Between(e, t)
  BY <1>2, <1>3, <1>4, <1>5, <1>6 DEF Between
<1> QED BY <1>2, <1>7 DEF e

\* A thread that is in no list, in the state x.
LEMMA BetweenState ==
    ASSUME NEW s, NEW t, Between(s, t), NEW x \in {"RUNNABLE", "WAITING"}
    PROVE  LET e == [s EXCEPT !.state[t] = x] IN
           /\ Between(e, t) /\ e.state[t] = x /\ e.queue = s.queue /\ e.running = s.running
<1> DEFINE D == Listed(s) \ {t}
           e == [s EXCEPT !.state[t] = x]
<1>1. Linked(s, D) /\ s \in ThreadSystem /\ t \in Threads
  BY BetweenType DEF Between
<1>2. /\ e \in ThreadSystem /\ e.state = [s.state EXCEPT ![t] = x]
      /\ e.threadq = s.threadq /\ e.queue = s.queue /\ e.priority = s.priority
      /\ e.active = s.active /\ e.running = s.running
  BY <1>1 DEF ThreadSystem, States
<1> HIDE DEF D, e
<1>3. Linked(e, D)
  BY <1>1, <1>2, SameLists
<1>4. e.state[t] = x /\ \A u \in Threads \ {t} : e.state[u] = s.state[u]
  BY <1>1, <1>2, BetweenType
<1>5. Listed(e) \ {t} = D
  BY <1>2, <1>4, BetweenType DEF Listed, D
<1>6. \A u \in D : Waits(e, u)
  <2>1. \A u \in D : Waits(s, u) /\ u \in Threads \ {t}
    BY BetweenType DEF Between, D
  <2> QED BY <1>2, <1>4, <2>1 DEF Waits
<1>7. IdleOK(e)
  BY <1>2, <1>4, ThreadAssumption DEF Between, IdleOK
<1>8. Between(e, t)
  BY <1>2, <1>3, <1>4, <1>5, <1>6, <1>7, BetweenType DEF Between
<1> QED BY <1>2, <1>4, <1>8 DEF e

\* osStartThread of a thread that is stopped or was popped from a wait queue.
LEMMA StartOK ==
    ASSUME NEW s, NEW t, Between(s, t), s.state[t] \in {"STOPPED", "WAITING"}
    PROVE  ThreadsOK(StartThread(s, t))
<1> DEFINE run == [s EXCEPT !.state[t] = "RUNNABLE"]
           ready == EnqueueThread(run, "run", t)
           q == s.queue[t]
           lie == [s EXCEPT !.state[t] = "WAITING"]
           wait == EnqueueThread(lie, q, t)
           woken == EnqueueThread(PopThread(wait, q), "run", wait.threadq[q][1])
<1>1. q \in Queues \cup {"NULL"}
  BY BetweenType
<1>2. LinkedOK(ready)
  <2>1. Between(run, t) /\ run.state[t] = "RUNNABLE"
    BY BetweenState
  <2> HIDE DEF run
  <2> QED BY <2>1, RunQueue, Arrives
<1>3. CASE s.state[t] = "WAITING" \/ q \in {"NULL", "run"}
  <2>1. StartThread(s, t) = Preempt(ready)
    BY <1>3 DEF StartThread
  <2> QED BY <1>2, <2>1, PreemptOK
<1>4. CASE s.state[t] = "STOPPED" /\ q \notin {"NULL", "run"}
  <2>1. StartThread(s, t) = Preempt(woken)
    BY <1>4 DEF StartThread
  <2>2. q \in Queues /\ q # "run" /\ t # Idle
    BY <1>1, <1>4 DEF Between, IdleOK
  <2>3. Between(lie, t) /\ lie.state[t] = "WAITING"
    BY BetweenState
  <2> HIDE DEF lie, q
  <2>4. LinkedOK(wait) /\ wait.threadq[q] # <<>>
    BY <2>2, <2>3, Arrives
  <2> DEFINE h == wait.threadq[q][1]
             pop == PopThread(wait, q)
  <2> HIDE DEF wait
  <2>5. Between(pop, h) /\ pop.state = wait.state /\ Waits(wait, h)
    BY <2>2, <2>4, PopBetween
  <2> HIDE DEF pop, h
  <2>6. LinkedOK(EnqueueThread(pop, "run", h))
    BY <2>5, RunQueue, Arrives DEF Waits
  <2>7. LinkedOK(woken)
    BY <2>6 DEF pop, h, wait
  <2> QED BY <2>1, <2>7, PreemptOK DEF wait
<1> QED BY <1>3, <1>4

-----------------------------------------------------------------------------
(* The thread functions keep everything in order.                          *)

LEMMA ThreadsType ==
    ASSUME NEW s, LinkedOK(s)
    PROVE  /\ s \in ThreadSystem /\ s.state \in [Threads -> States]
           /\ s.queue \in [Threads -> Queues \cup {"NULL"}]
           /\ s.priority \in [Threads -> Nat]
           /\ s.active \subseteq Threads /\ s.running \in s.active
           /\ Listed(s) \subseteq Threads
BY DEF LinkedOK, Linked, Listed, ThreadSystem

\* Nothing is in a list but the listed threads.
LEMMA InListed ==
    ASSUME NEW s, LinkedOK(s), NEW q \in Queues
    PROVE  In(s.threadq[q]) \subseteq Listed(s)
<1>1. s.threadq[q] \in Seq(Threads)
  BY DEF LinkedOK, Linked, Good
<1>2. In(s.threadq[q]) \subseteq Threads
  BY <1>1 DEF In
<1> QED BY <1>2 DEF LinkedOK, Linked

LEMMA StopOK ==
    ASSUME NEW s, ThreadsOK(s), NEW t \in s.active \ {Idle}, s.state[t] # "STOPPED"
    PROVE  ThreadsOK(StopThread(s, t))
<1> DEFINE w == [s EXCEPT !.state[t] = "STOPPED"]
           D == Listed(s)
<1>1. /\ LinkedOK(s) /\ Linked(s, D) /\ \A u \in D : Waits(s, u)
      /\ s \in ThreadSystem /\ s.state \in [Threads -> States]
      /\ s.active \subseteq Threads /\ t \in Threads
  BY ThreadsType DEF ThreadsOK, LinkedOK
<1>2. /\ w \in ThreadSystem /\ w.state = [s.state EXCEPT ![t] = "STOPPED"]
      /\ w.threadq = s.threadq /\ w.queue = s.queue /\ w.priority = s.priority
      /\ w.active = s.active /\ w.running = s.running
  BY <1>1 DEF ThreadSystem, States
<1>3. w.state[t] = "STOPPED" /\ \A u \in Threads \ {t} : w.state[u] = s.state[u]
  BY <1>1, <1>2
<1>4. Linked(w, D)
  <2> HIDE DEF w, D
  <2> QED BY <1>1, <1>2, SameLists
<1>5. CASE t = s.running
  <2>1. StopThread(s, t) = DispatchThread(w)
    BY <1>1, <1>5 DEF StopThread, LinkedOK
  <2> HIDE DEF w
  <2>2. {u \in w.active : w.state[u] # "STOPPED"} = D
    BY <1>1, <1>2, <1>3, <1>5 DEF Listed
  <2>3. \A u \in D : Waits(w, u)
    BY <1>1, <1>2, <1>3, <1>5 DEF Waits, Listed
  <2>4. IdleOK(w) /\ w.queue[Idle] = "run"
    BY <1>1, <1>2, <1>3, <1>5, ThreadAssumption DEF LinkedOK, IdleOK
  <2>5. NoneRuns(w)
    BY <1>4, <2>2, <2>3, <2>4 DEF NoneRuns
  <2> QED BY <2>1, <2>5, DispatchOK
<1>6. CASE t # s.running
  <2> DEFINE e == DequeueThread(w, t)
  <2>1. t \in D
    BY <1>6 DEF Listed
  <2>2. StopThread(s, t) = e
    BY <1>1, <1>6, <2>1 DEF StopThread, Waits
  <2> HIDE DEF w, D
  <2>3. /\ Linked(e, D \ {t})
        /\ e.running = w.running /\ e.state = w.state /\ e.priority = w.priority
        /\ e.active = w.active /\ e.queue = w.queue
        /\ \A r \in Queues : In(e.threadq[r]) = In(w.threadq[r]) \ {t}
    BY <1>4, <2>1, DequeueLinked
  <2> HIDE DEF e
  <2>4. Listed(e) = D \ {t}
    BY <1>1, <1>2, <1>3, <2>3 DEF Listed, D
  <2>5. \A u \in D \ {t} : Waits(e, u)
    <3>1. \A u \in D \ {t} : u \in Threads \ {t} /\ Waits(s, u)
      BY <1>1, ThreadsType DEF D
    <3> QED BY <1>2, <1>3, <2>3, <3>1 DEF Waits
  <2>6. IdleOK(e) /\ (Idle # e.running => e.queue[Idle] = "run")
    BY <1>1, <1>2, <1>3, <2>3, ThreadAssumption DEF LinkedOK, IdleOK
  <2>7. e.running \in e.active /\ e.state[e.running] = "RUNNING"
    BY <1>1, <1>2, <1>3, <1>6, <2>3 DEF LinkedOK
  <2>8. LinkedOK(e)
    BY <2>3, <2>4, <2>5, <2>6, <2>7 DEF LinkedOK
  <2>9. \A u \in In(e.threadq["run"]) : e.priority[u] <= e.priority[e.running]
    BY <1>2, <2>3, RunQueue DEF ThreadsOK
  <2> QED BY <2>2, <2>8, <2>9 DEF ThreadsOK
<1> QED BY <1>5, <1>6

\* A thread that is in no list and does not run leaves the list of all threads.
LEMMA ForgetOK ==
    ASSUME NEW s, NEW t, Between(s, t), t # Idle,
           \A u \in In(s.threadq["run"]) : s.priority[u] <= s.priority[s.running]
    PROVE  ThreadsOK([s EXCEPT !.active = @ \ {t}])
<1> DEFINE e == [s EXCEPT !.active = @ \ {t}]
           D == Listed(s) \ {t}
<1>1. s \in ThreadSystem /\ Linked(s, D)
  BY BetweenType DEF Between
<1>2. /\ e \in ThreadSystem /\ e.active = s.active \ {t}
      /\ e.running = s.running /\ e.state = s.state /\ e.priority = s.priority
      /\ e.queue = s.queue /\ e.threadq = s.threadq
  BY <1>1 DEF ThreadSystem
<1> HIDE DEF e, D
<1>3. Linked(e, D)
  BY <1>1, <1>2, SameLists
<1>4. Listed(e) = D
  BY <1>2 DEF Listed, D
<1>5. \A u \in D : Waits(e, u)
  BY <1>2 DEF Between, D, Waits
<1>6. IdleOK(e) /\ (Idle # e.running => e.queue[Idle] = "run")
      /\ e.running \in e.active /\ e.state[e.running] = "RUNNING"
  BY <1>2 DEF Between, IdleOK
<1>7. LinkedOK(e)
  BY <1>3, <1>4, <1>5, <1>6 DEF LinkedOK
<1> QED BY <1>2, <1>7 DEF ThreadsOK, e

\* A thread that is stopped is between its lists.
LEMMA StoppedBetween ==
    ASSUME NEW s, LinkedOK(s), NEW t \in s.active, s.state[t] = "STOPPED"
    PROVE  Between(s, t)
<1>1. t # s.running /\ t \notin Listed(s) /\ t # Idle
  BY DEF LinkedOK, Listed, IdleOK
<1>2. Listed(s) \ {t} = Listed(s)
  BY <1>1
<1> QED BY <1>1, <1>2 DEF LinkedOK, Between

LEMMA DestroyOK ==
    ASSUME NEW s, ThreadsOK(s), NEW t \in s.active \ {Idle}
    PROVE  ThreadsOK(DestroyThread(s, t))
<1>1. /\ LinkedOK(s) /\ Linked(s, Listed(s)) /\ \A u \in Listed(s) : Waits(s, u)
      /\ s \in ThreadSystem /\ s.active \subseteq Threads
  BY ThreadsType DEF ThreadsOK, LinkedOK
<1>2. CASE t = s.running
  <2> DEFINE w == [s EXCEPT !.active = @ \ {t}]
  <2>1. DestroyThread(s, t) = DispatchThread(w)
    BY <1>2 DEF DestroyThread
  <2>2. /\ w \in ThreadSystem /\ w.active = s.active \ {t}
        /\ w.threadq = s.threadq /\ w.queue = s.queue /\ w.priority = s.priority
        /\ w.state = s.state
    BY <1>1 DEF ThreadSystem
  <2> HIDE DEF w
  <2>3. {u \in w.active : w.state[u] # "STOPPED"} = Listed(s)
    BY <1>2, <2>2 DEF Listed
  <2>4. Linked(w, Listed(s))
    BY <1>1, <2>2, SameLists
  <2>5. \A u \in Listed(s) : Waits(w, u)
    BY <1>1, <2>2 DEF Waits
  <2>6. IdleOK(w) /\ w.queue[Idle] = "run"
    BY <1>1, <1>2, <2>2 DEF LinkedOK, IdleOK
  <2>7. NoneRuns(w)
    BY <2>3, <2>4, <2>5, <2>6 DEF NoneRuns
  <2> QED BY <2>1, <2>7, DispatchOK
<1>3. CASE t # s.running /\ s.state[t] = "STOPPED"
  <2>1. DestroyThread(s, t) = [s EXCEPT !.active = @ \ {t}]
    BY <1>3 DEF DestroyThread
  <2> QED BY <1>1, <1>3, <2>1, StoppedBetween, ForgetOK DEF ThreadsOK
<1>4. CASE t # s.running /\ s.state[t] # "STOPPED"
  <2> DEFINE e == DequeueThread(s, t)
  <2>1. DestroyThread(s, t) = [e EXCEPT !.active = @ \ {t}]
    BY <1>4 DEF DestroyThread
  <2>2. t \in Listed(s)
    BY <1>4 DEF Listed
  <2>3. /\ Between(e, t) /\ e.running = s.running /\ e.priority = s.priority
        /\ \A r \in Queues : In(e.threadq[r]) = In(s.threadq[r]) \ {t}
    BY <1>1, <2>2, DequeueBetween
  <2> HIDE DEF e
  <2>4. \A u \in In(e.threadq["run"]) : e.priority[u] <= e.priority[e.running]
    BY <2>3, RunQueue DEF ThreadsOK
  <2> QED BY <2>1, <2>3, <2>4, ForgetOK
<1> QED BY <1>2, <1>3, <1>4

\* Before osSetThreadPri looks at the head of the run queue.
LEMMA SetBeforePreempt ==
    ASSUME NEW s, LinkedOK(s), NEW t \in s.active, NEW p \in Nat,
           t = s.running \/ s.state[t] = "STOPPED"
    PROVE  LinkedOK([s EXCEPT !.priority[t] = p])
<1> DEFINE w == [s EXCEPT !.priority[t] = p]
           D == Listed(s)
<1>1. /\ Linked(s, D) /\ \A u \in D : Waits(s, u)
      /\ s \in ThreadSystem /\ s.priority \in [Threads -> Nat] /\ s.active \subseteq Threads
  BY ThreadsType DEF LinkedOK
<1>2. /\ w \in ThreadSystem /\ w.priority = [s.priority EXCEPT ![t] = p]
      /\ w.threadq = s.threadq /\ w.queue = s.queue /\ w.state = s.state
      /\ w.active = s.active /\ w.running = s.running
  BY <1>1 DEF ThreadSystem
<1>3. t \in Threads \ D
  BY <1>1 DEF Listed
<1> HIDE DEF w, D
<1>4. \A u \in Threads \ {t} : w.queue[u] = s.queue[u] /\ w.priority[u] = s.priority[u]
  BY <1>1, <1>2
<1>5. Linked(w, D)
  BY <1>1, <1>2, <1>3, <1>4, ChangeUnlinked
<1>6. Listed(w) = D
  BY <1>2 DEF Listed, D
<1>7. LinkedOK(w)
  BY <1>1, <1>2, <1>5, <1>6 DEF LinkedOK, IdleOK, Waits
<1> QED BY <1>7 DEF w

LEMMA RelinkBeforePreempt ==
    ASSUME NEW s, LinkedOK(s), NEW t \in s.active \ {Idle}, NEW p \in Nat,
           t # s.running, s.state[t] # "STOPPED"
    PROVE  LinkedOK(EnqueueThread(DequeueThread([s EXCEPT !.priority[t] = p], t), s.queue[t], t))
<1> DEFINE w == [s EXCEPT !.priority[t] = p]
           D == Listed(s)
<1>1. /\ LinkedOK(s) /\ Linked(s, D) /\ \A u \in D : Waits(s, u)
      /\ s \in ThreadSystem /\ s.priority \in [Threads -> Nat]
      /\ s.active \subseteq Threads /\ t \in Threads
  BY ThreadsType DEF LinkedOK
<1>2. /\ w \in ThreadSystem /\ w.priority = [s.priority EXCEPT ![t] = p]
      /\ w.threadq = s.threadq /\ w.queue = s.queue /\ w.state = s.state
      /\ w.active = s.active /\ w.running = s.running
  BY <1>1 DEF ThreadSystem
<1>3. \A u \in Threads \ {t} : w.priority[u] = s.priority[u]
  BY <1>1, <1>2
<1> DEFINE d == DequeueThread(s, t)
           e == DequeueThread(w, t)
<1>4. t \in D /\ s.queue[t] \in Queues
  BY <1>1 DEF Listed, Linked
<1>5. /\ Between(d, t)
      /\ d.state = s.state /\ d.running = s.running /\ d.queue = s.queue
      /\ d.priority = s.priority /\ d.active = s.active
  BY <1>1, <1>4, DequeueBetween
<1>6. d.threadq = [s.threadq EXCEPT ![s.queue[t]] = Unlink(@, t)]
  BY <1>1, <1>4 DEF DequeueThread, ThreadSystem
<1>7. e = [w EXCEPT !.threadq[s.queue[t]] = Unlink(@, t)]
  BY <1>1, <1>4 DEF DequeueThread, ThreadSystem
<1> HIDE DEF w, d, e
<1>8. /\ e.running = w.running /\ e.state = w.state /\ e.priority = w.priority
      /\ e.active = w.active /\ e.queue = w.queue
      /\ e.threadq = [w.threadq EXCEPT ![s.queue[t]] = Unlink(@, t)]
  BY <1>2, <1>7 DEF ThreadSystem
<1>9. e.threadq = d.threadq
  BY <1>2, <1>6, <1>8
<1>10. d \in ThreadSystem /\ Linked(d, Listed(d) \ {t}) /\ t \in Threads \ (Listed(d) \ {t})
  BY <1>5, BetweenType DEF Between
<1>11. e \in ThreadSystem
  <2>1. d.threadq \in [Queues -> Seq(Threads)]
    BY <1>10 DEF ThreadSystem
  <2>2. w.threadq \in [Queues -> Seq(Threads)] /\ e.threadq \in [Queues -> Seq(Threads)]
    BY <1>2, <1>9, <2>1 DEF ThreadSystem
  <2>3. Unlink(w.threadq[s.queue[t]], t) \in Seq(Threads)
    BY <1>4, <1>8, <2>2
  <2> QED BY <1>2, <1>4, <1>7, <2>3 DEF ThreadSystem
<1>12. Linked(e, Listed(d) \ {t})
  <2>1. \A u \in Threads \ {t} : e.queue[u] = d.queue[u] /\ e.priority[u] = d.priority[u]
    BY <1>2, <1>3, <1>5, <1>8
  <2> QED BY <1>9, <1>10, <1>11, <2>1, ChangeUnlinked
<1>13. Listed(e) = Listed(d)
  BY <1>2, <1>5, <1>8 DEF Listed
<1>14. Between(e, t)
  BY <1>2, <1>5, <1>8, <1>12, <1>13 DEF Between, IdleOK, Waits
<1>15. e.state[t] \in {"RUNNABLE", "WAITING"}
       /\ (s.queue[t] # "run" => e.state[t] = "WAITING" /\ t # Idle)
  BY <1>1, <1>2, <1>4, <1>8 DEF Waits
<1>16. LinkedOK(EnqueueThread(e, s.queue[t], t))
  BY <1>4, <1>14, <1>15, Arrives
<1> QED BY <1>16 DEF e, w

LEMMA SetThreadPriOK ==
    ASSUME NEW s, ThreadsOK(s), NEW t \in s.active \ {Idle}, NEW p \in Nat
    PROVE  ThreadsOK(SetThreadPri(s, t, p))
<1>1. LinkedOK(s)
  BY DEF ThreadsOK
<1>2. CASE s.priority[t] = p
  BY <1>2 DEF SetThreadPri
<1>3. CASE s.priority[t] # p /\ (t = s.running \/ s.state[t] = "STOPPED")
  BY <1>1, <1>3, SetBeforePreempt, PreemptOK DEF SetThreadPri
<1>4. CASE s.priority[t] # p /\ t # s.running /\ s.state[t] # "STOPPED"
  BY <1>1, <1>4, RelinkBeforePreempt, PreemptOK DEF SetThreadPri
<1> QED BY <1>2, <1>3, <1>4

LEMMA YieldThreadOK == ASSUME NEW s, ThreadsOK(s) PROVE ThreadsOK(YieldThread(s))
BY RunQueue, YieldOK DEF YieldThread, ThreadsOK

LEMMA CreateOK ==
    ASSUME NEW s, ThreadsOK(s), NEW t \in Threads \ s.active, NEW p \in Nat
    PROVE  ThreadsOK(CreateThread(s, t, p))
<1> DEFINE e == CreateThread(s, t, p)
           D == Listed(s)
<1>1. /\ LinkedOK(s) /\ Linked(s, D) /\ \A u \in D : Waits(s, u)
      /\ s \in ThreadSystem /\ s.priority \in [Threads -> Nat] /\ s.state \in [Threads -> States]
      /\ s.queue \in [Threads -> Queues \cup {"NULL"}]
      /\ s.active \subseteq Threads /\ s.running \in s.active
      /\ In(s.threadq["run"]) \subseteq D
  BY ThreadsType, InListed, RunQueue DEF ThreadsOK, LinkedOK
<1>2. /\ e \in ThreadSystem /\ e.priority = [s.priority EXCEPT ![t] = p]
      /\ e.queue = [s.queue EXCEPT ![t] = "NULL"]
      /\ e.state = [s.state EXCEPT ![t] = "STOPPED"]
      /\ e.active = s.active \cup {t}
      /\ e.threadq = s.threadq /\ e.running = s.running
  BY <1>1 DEF ThreadSystem, States, CreateThread
<1> HIDE DEF e
<1>3. /\ e.state[t] = "STOPPED"
      /\ \A u \in Threads \ {t} : /\ e.priority[u] = s.priority[u]
                                  /\ e.queue[u] = s.queue[u] /\ e.state[u] = s.state[u]
  BY <1>1, <1>2
<1>4. D \subseteq s.active \ {s.running} /\ t # s.running
  BY <1>1 DEF Listed
<1>5. Listed(e) = D
  BY <1>1, <1>2, <1>3 DEF Listed
<1> HIDE DEF D
<1>6. Linked(e, D)
  BY <1>1, <1>2, <1>3, <1>4, ChangeUnlinked
<1>7. \A u \in D : Waits(e, u)
  BY <1>1, <1>3, <1>4 DEF Waits
<1>8. IdleOK(e) /\ (Idle # e.running => e.queue[Idle] = "run")
  BY <1>1, <1>2, <1>3, ThreadAssumption DEF LinkedOK, IdleOK
<1>9. e.running \in e.active /\ e.state[e.running] = "RUNNING"
  BY <1>1, <1>2, <1>3, <1>4 DEF LinkedOK
<1>10. \A u \in In(e.threadq["run"]) : e.priority[u] <= e.priority[e.running]
  <2>1. \A u \in In(s.threadq["run"]) : u \in Threads \ {t} /\ s.priority[u] <= s.priority[s.running]
    BY <1>1, <1>4 DEF ThreadsOK
  <2> QED BY <1>1, <1>2, <1>3, <1>4, <2>1
<1> QED BY <1>5, <1>6, <1>7, <1>8, <1>9, <1>10 DEF LinkedOK, ThreadsOK, e

\* osStartThread(__osPopThread(list)) of a wait queue.
LEMMA WakeOK ==
    ASSUME NEW s, ThreadsOK(s), NEW q \in WaitQueues, s.threadq[q] # <<>>
    PROVE  ThreadsOK(StartThread(PopThread(s, q), s.threadq[q][1]))
<1> DEFINE t == s.threadq[q][1]
           e == PopThread(s, q)
<1>1. LinkedOK(s) /\ q \in Queues /\ q # "run"
  BY RunQueue DEF ThreadsOK
<1>2. Between(e, t) /\ e.state = s.state /\ Waits(s, t) /\ s.queue[t] = q
  BY <1>1, PopBetween
<1> HIDE DEF t, e
<1>3. e.state[t] = "WAITING"
  BY <1>1, <1>2 DEF Waits
<1>4. ThreadsOK(StartThread(e, t))
  BY <1>2, <1>3, StartOK
<1> QED BY <1>4 DEF e, t

\* The exception handler moves the head of a wait queue to the run queue.
LEMMA InterruptOK ==
    ASSUME NEW s, ThreadsOK(s), NEW q \in WaitQueues, s.threadq[q] # <<>>
    PROVE  ThreadsOK(Preempt(EnqueueThread(PopThread(s, q), "run", s.threadq[q][1])))
<1> DEFINE t == s.threadq[q][1]
           e == PopThread(s, q)
<1>1. LinkedOK(s) /\ q \in Queues /\ q # "run"
  BY RunQueue DEF ThreadsOK
<1>2. Between(e, t) /\ e.state = s.state /\ Waits(s, t)
  BY <1>1, PopBetween
<1> HIDE DEF t, e
<1>3. LinkedOK(EnqueueThread(e, "run", t))
  BY <1>2, RunQueue, Arrives DEF Waits
<1> QED BY <1>3, PreemptOK DEF e, t

-----------------------------------------------------------------------------
(* Where the thread functions put the threads.                             *)

\* A thread may be destroyed, stopped, in a wait queue, or on its way to the processor,
\* whether it already has it or not.
Place(s, t) ==
    IF t \notin s.active THEN <<"gone", "NULL">>
    ELSE IF s.state[t] = "STOPPED" THEN <<"stopped", s.queue[t]>>
    ELSE IF t = s.running /\ s.state[t] = "RUNNING" THEN <<"in", "run">>
    ELSE <<"in", s.queue[t]>>

\* e has every thread where s has it, but t at p.
Moves(s, e, t, p) == \A u \in Threads : Place(e, u) = IF u = t THEN p ELSE Place(s, u)
Stays(s, e) == \A u \in Threads : Place(e, u) = Place(s, u)

LEMMA DispatchStays == ASSUME NEW s, NoneRuns(s) PROVE Stays(s, DispatchThread(s))
<1> DEFINE t == s.threadq["run"][1]
           e == DispatchThread(s)
<1>1. /\ s \in ThreadSystem /\ Idle \in In(s.threadq["run"])
      /\ \A u \in s.active : s.state[u] # "STOPPED" => Waits(s, u)
  BY RunQueue, ThreadAssumption DEF NoneRuns, Linked, IdleOK
<1>2. s.threadq["run"] # <<>>
  BY <1>1 DEF In
<1>3. t \in s.active /\ s.state[t] # "STOPPED" /\ s.queue[t] = "run" /\ t \in Threads
  <2> DEFINE D == {u \in s.active : s.state[u] # "STOPPED"}
  <2>1. Linked(s, D) /\ D \subseteq Threads
    BY DEF NoneRuns, Linked
  <2> HIDE DEF D
  <2>2. t \in D /\ s.queue[t] = "run"
    BY <1>2, <2>1, RunQueue, PopLinked
  <2>3. t \in Threads
    BY <2>1, <2>2
  <2> QED BY <2>2, <2>3 DEF D
<1>4. e = [PopThread(s, "run") EXCEPT !.running = t, !.state[t] = "RUNNING"]
  BY <1>2 DEF DispatchThread
<1>5. /\ e.running = t /\ e.state = [s.state EXCEPT ![t] = "RUNNING"]
      /\ e.active = s.active /\ e.queue = s.queue /\ s.state \in [Threads -> States]
  BY <1>1, <1>4 DEF PopThread, ThreadSystem
<1> HIDE DEF t, e
<1>6. \A u \in Threads : e.state[u] = IF u = t THEN "RUNNING" ELSE s.state[u]
  BY <1>3, <1>5
<1>7. \A u \in Threads : u \in s.active => s.state[u] # "RUNNING"
  BY <1>1 DEF Waits
<1> QED BY <1>3, <1>5, <1>6, <1>7 DEF Stays, Place, e

LEMMA YieldMoves ==
    ASSUME NEW s, LinkedOK(s), NEW q \in Queues, NEW x \in {"RUNNABLE", "WAITING"},
           q # "run" => x = "WAITING" /\ s.running # Idle
    PROVE  Moves(s, EnqueueAndYield([s EXCEPT !.state[s.running] = x], q),
                 s.running, <<"in", q>>)
<1> DEFINE r == s.running
           w == [s EXCEPT !.state[s.running] = x]
           e == EnqueueThread(w, q, r)
<1>1. /\ s \in ThreadSystem /\ r \in s.active /\ s.state \in [Threads -> States]
      /\ s.queue \in [Threads -> Queues \cup {"NULL"}] /\ s.active \subseteq Threads
  BY ThreadsType
<1>2. /\ w.running = r /\ w.state = [s.state EXCEPT ![r] = x] /\ w.queue = s.queue
      /\ w.active = s.active /\ w \in ThreadSystem
  BY <1>1 DEF ThreadSystem, States
<1>3. EnqueueAndYield(w, q) = DispatchThread(e)
  BY <1>2 DEF EnqueueAndYield
<1>4. NoneRuns(e)
  BY YieldReady
<1>5. /\ e.state = w.state /\ e.active = w.active
      /\ e.queue = [w.queue EXCEPT ![r] = q] /\ e.running = r
  <2> HIDE DEF w, r
  <2> QED BY <1>2 DEF EnqueueThread, ThreadSystem
<1> HIDE DEF e, w
<1>6. \A u \in Threads : /\ e.state[u] = IF u = r THEN x ELSE s.state[u]
                         /\ e.queue[u] = IF u = r THEN q ELSE s.queue[u]
  BY <1>1, <1>2, <1>5
<1>7. Moves(s, e, r, <<"in", q>>)
  BY <1>1, <1>2, <1>5, <1>6 DEF Moves, Place
<1> QED BY <1>3, <1>4, <1>7, DispatchStays DEF Moves, Stays, w

LEMMA PreemptStays == ASSUME NEW s, LinkedOK(s) PROVE Stays(s, Preempt(s))
<1> DEFINE run == s.threadq["run"]
<1>1. CASE run # <<>> /\ s.priority[s.running] < s.priority[run[1]]
  <2>1. Preempt(s) = EnqueueAndYield([s EXCEPT !.state[s.running] = "RUNNABLE"], "run")
    BY <1>1 DEF Preempt
  <2>2. Moves(s, Preempt(s), s.running, <<"in", "run">>)
    BY <2>1, RunQueue, YieldMoves
  <2>3. Place(s, s.running) = <<"in", "run">>
    BY DEF LinkedOK, Place
  <2> QED BY <2>2, <2>3 DEF Moves, Stays
<1>2. CASE ~(run # <<>> /\ s.priority[s.running] < s.priority[run[1]])
  BY <1>2 DEF Preempt, Stays
<1> QED BY <1>1, <1>2

LEMMA EnqueueMoves ==
    ASSUME NEW s, NEW t, Between(s, t), NEW q \in Queues, s.state[t] \in {"RUNNABLE", "WAITING"}
    PROVE  Moves(s, EnqueueThread(s, q, t), t, <<"in", q>>)
<1> DEFINE e == EnqueueThread(s, q, t)
<1>1. /\ e.running = s.running /\ e.state = s.state /\ e.active = s.active
      /\ e.queue = [s.queue EXCEPT ![t] = q] /\ t \in s.active /\ t \in Threads
      /\ s.queue \in [Threads -> Queues \cup {"NULL"}] /\ t # s.running
  BY BetweenType DEF EnqueueThread, ThreadSystem, Between
<1> HIDE DEF e
<1>2. \A u \in Threads : e.queue[u] = IF u = t THEN q ELSE s.queue[u]
  BY <1>1
<1> QED BY <1>1, <1>2 DEF Moves, Place, e

\* The threads in a list are those that have their place there and do not run.
LEMMA ListPlace ==
    ASSUME NEW s, LinkedOK(s), NEW q \in Queues, NEW t \in Threads
    PROVE  t \in In(s.threadq[q]) <=> t # s.running /\ Place(s, t) = <<"in", q>>
<1>1. t \in In(s.threadq[q]) <=> t \in Listed(s) /\ s.queue[t] = q
  BY DEF LinkedOK, Linked
<1>2. t # s.running => (Place(s, t) = <<"in", q>> <=> t \in Listed(s) /\ s.queue[t] = q)
  BY DEF Place, Listed
<1> QED BY <1>1, <1>2 DEF Listed

LEMMA RunsPlace == ASSUME NEW s, LinkedOK(s) PROVE Place(s, s.running) = <<"in", "run">>
BY DEF LinkedOK, Place

LEMMA HeadPlace ==
    ASSUME NEW s, LinkedOK(s), NEW q \in Queues, s.threadq[q] # <<>>
    PROVE  LET t == s.threadq[q][1] IN
           t \in Threads /\ t # s.running /\ Place(s, t) = <<"in", q>>
<1> DEFINE t == s.threadq[q][1]
<1>1. Good(s.priority, s.threadq[q]) /\ s.priority \in [Threads -> Nat]
  BY ThreadsType DEF LinkedOK, Linked
<1>2. t \in Threads /\ t \in In(s.threadq[q])
  BY <1>1, TailGood
<1> HIDE DEF t
<1> QED BY <1>2, ListPlace DEF t

\* osStartThread's way to the run queue.
LEMMA RunnableMoves ==
    ASSUME NEW s, NEW t, Between(s, t)
    PROVE  LET e == EnqueueThread([s EXCEPT !.state[t] = "RUNNABLE"], "run", t) IN
           Moves(s, e, t, <<"in", "run">>) /\ LinkedOK(e)
<1> DEFINE w == [s EXCEPT !.state[t] = "RUNNABLE"]
<1>1. Between(w, t) /\ w.state[t] = "RUNNABLE" /\ w.queue = s.queue /\ w.running = s.running
  BY BetweenState
<1>2. w.active = s.active /\ \A u \in Threads \ {t} : w.state[u] = s.state[u]
  BY BetweenType DEF ThreadSystem
<1> HIDE DEF w
<1>3. \A u \in Threads \ {t} : Place(w, u) = Place(s, u)
  BY <1>1, <1>2 DEF Place
<1>4. LinkedOK(EnqueueThread(w, "run", t)) /\ Moves(w, EnqueueThread(w, "run", t), t, <<"in", "run">>)
  BY <1>1, RunQueue, Arrives, EnqueueMoves
<1>5. Moves(s, EnqueueThread(w, "run", t), t, <<"in", "run">>)
  BY <1>3, <1>4 DEF Moves
<1> QED BY <1>4, <1>5 DEF w

\* The head of a wait queue is woken, by osStartThread or by an interrupt.
LEMMA WakeMoves ==
    ASSUME NEW s, ThreadsOK(s), NEW q \in WaitQueues, s.threadq[q] # <<>>
    PROVE  LET t == s.threadq[q][1] IN
           /\ Moves(s, StartThread(PopThread(s, q), t), t, <<"in", "run">>)
           /\ Moves(s, Preempt(EnqueueThread(PopThread(s, q), "run", t)), t, <<"in", "run">>)
<1> DEFINE t == s.threadq[q][1]
           p == PopThread(s, q)
           run == [p EXCEPT !.state[t] = "RUNNABLE"]
<1>1. LinkedOK(s) /\ q \in Queues /\ q # "run"
  BY RunQueue DEF ThreadsOK
<1>2. Between(p, t) /\ p.state = s.state /\ Waits(s, t) /\ s.queue[t] = q
  BY <1>1, PopBetween
<1>3. p.running = s.running /\ p.active = s.active /\ p.queue = s.queue
  BY <1>1, ThreadsType DEF PopThread, ThreadSystem
<1> HIDE DEF p, t
<1>4. Stays(s, p)
  BY <1>2, <1>3 DEF Stays, Place
<1>5. p.state[t] = "WAITING"
  BY <1>1, <1>2 DEF Waits
<1>6. Moves(s, Preempt(EnqueueThread(p, "run", t)), t, <<"in", "run">>)
  <2>1. LinkedOK(EnqueueThread(p, "run", t)) /\ Moves(p, EnqueueThread(p, "run", t), t, <<"in", "run">>)
    BY <1>2, <1>5, RunQueue, Arrives, EnqueueMoves
  <2> QED BY <1>4, <2>1, PreemptStays DEF Moves, Stays
<1>7. Moves(s, StartThread(p, t), t, <<"in", "run">>)
  <2>1. StartThread(p, t) = Preempt(EnqueueThread(run, "run", t))
    BY <1>5 DEF StartThread
  <2>2. Moves(p, EnqueueThread(run, "run", t), t, <<"in", "run">>)
        /\ LinkedOK(EnqueueThread(run, "run", t))
    BY <1>2, RunnableMoves
  <2> QED BY <1>4, <2>1, <2>2, PreemptStays DEF Moves, Stays
<1> QED BY <1>6, <1>7 DEF t, p

LEMMA StartMoves ==
    ASSUME NEW s, ThreadsOK(s), NEW t \in s.active, s.state[t] = "STOPPED", s.queue[t] = "NULL"
    PROVE  Moves(s, StartThread(s, t), t, <<"in", "run">>)
<1> DEFINE e == EnqueueThread([s EXCEPT !.state[t] = "RUNNABLE"], "run", t)
<1>1. StartThread(s, t) = Preempt(e)
  BY DEF StartThread
<1>2. Between(s, t)
  BY StoppedBetween DEF ThreadsOK
<1>3. Moves(s, e, t, <<"in", "run">>) /\ LinkedOK(e)
  BY <1>2, RunnableMoves
<1> HIDE DEF e
<1> QED BY <1>1, <1>3, PreemptStays DEF Moves, Stays

LEMMA YieldStays == ASSUME NEW s, ThreadsOK(s) PROVE Stays(s, YieldThread(s))
<1>1. Moves(s, YieldThread(s), s.running, <<"in", "run">>)
  BY RunQueue, YieldMoves DEF YieldThread, ThreadsOK
<1> QED BY <1>1, RunsPlace DEF Moves, Stays, ThreadsOK

LEMMA CreateMoves ==
    ASSUME NEW s, ThreadsOK(s), NEW t \in Threads \ s.active, NEW p \in Nat
    PROVE  Moves(s, CreateThread(s, t, p), t, <<"stopped", "NULL">>)
<1> DEFINE e == CreateThread(s, t, p)
<1>1. /\ e.queue = [s.queue EXCEPT ![t] = "NULL"] /\ e.state = [s.state EXCEPT ![t] = "STOPPED"]
      /\ e.active = s.active \cup {t} /\ e.running = s.running
      /\ s.state \in [Threads -> States] /\ s.queue \in [Threads -> Queues \cup {"NULL"}]
  BY ThreadsType DEF ThreadsOK, ThreadSystem, CreateThread
<1> HIDE DEF e
<1>2. \A u \in Threads : /\ e.state[u] = IF u = t THEN "STOPPED" ELSE s.state[u]
                         /\ e.queue[u] = IF u = t THEN "NULL" ELSE s.queue[u]
  BY <1>1
<1> QED BY <1>1, <1>2 DEF Moves, Place, e

LEMMA SetThreadPriStays ==
    ASSUME NEW s, ThreadsOK(s), NEW t \in s.active \ {Idle}, NEW p \in Nat
    PROVE  Stays(s, SetThreadPri(s, t, p))
<1> DEFINE w == [s EXCEPT !.priority[t] = p]
           d == DequeueThread(w, t)
           e == EnqueueThread(d, s.queue[t], t)
<1>1. LinkedOK(s) /\ s \in ThreadSystem /\ t \in Threads
  BY ThreadsType DEF ThreadsOK
<1>2. /\ w.queue = s.queue /\ w.state = s.state /\ w.active = s.active
      /\ w.running = s.running /\ w \in ThreadSystem
  BY <1>1 DEF ThreadSystem
<1>3. CASE s.priority[t] = p
  BY <1>3 DEF SetThreadPri, Stays
<1>4. CASE s.priority[t] # p /\ (t = s.running \/ s.state[t] = "STOPPED")
  <2>1. SetThreadPri(s, t, p) = Preempt(w) /\ LinkedOK(w)
    BY <1>1, <1>4, SetBeforePreempt DEF SetThreadPri
  <2> HIDE DEF w
  <2>2. Stays(s, w)
    BY <1>2 DEF Stays, Place
  <2> QED BY <2>1, <2>2, PreemptStays DEF Stays
<1>5. CASE s.priority[t] # p /\ t # s.running /\ s.state[t] # "STOPPED"
  <2>1. SetThreadPri(s, t, p) = Preempt(e) /\ LinkedOK(e)
    BY <1>1, <1>5, RelinkBeforePreempt DEF SetThreadPri
  <2> HIDE DEF w
  <2>2. /\ d.queue = s.queue /\ d.state = s.state /\ d.active = s.active /\ d.running = s.running
    BY <1>2 DEF DequeueThread, ThreadSystem
  <2> HIDE DEF d
  <2>3. e.queue = [s.queue EXCEPT ![t] = s.queue[t]] /\ e.state = s.state
        /\ e.active = s.active /\ e.running = s.running
    <3>1. d = [d EXCEPT !.queue = d.queue]
      BY <1>2 DEF d, DequeueThread, ThreadSystem
    <3> QED BY <2>2 DEF EnqueueThread
  <2>4. e.queue = s.queue
    BY <1>1, <2>3 DEF ThreadSystem
  <2> HIDE DEF e
  <2>5. Stays(s, e)
    BY <2>3, <2>4 DEF Stays, Place
  <2> QED BY <2>1, <2>5, PreemptStays DEF Stays
<1> QED BY <1>3, <1>4, <1>5

-----------------------------------------------------------------------------
(* When a sequence is another one with an element appended, prepended, or  *)
(* its first element removed.                                              *)

LEMMA IsAppend ==
    ASSUME NEW S, NEW s \in Seq(S), NEW t \in Seq(S), NEW x \in S,
           Len(t) = Len(s) + 1, t[Len(s) + 1] = x, \A i \in 1..Len(s) : t[i] = s[i]
    PROVE  t = Append(s, x)
<1>1. Append(s, x) \in Seq(S) /\ Len(Append(s, x)) = Len(s) + 1
      /\ Append(s, x)[Len(s) + 1] = x /\ \A i \in 1..Len(s) : Append(s, x)[i] = s[i]
  BY AppendProperties
<1>2. \A i \in 1..(Len(s) + 1) : t[i] = Append(s, x)[i]
  BY <1>1
<1> QED BY <1>1, <1>2, SeqEqual

LEMMA IsPrepend ==
    ASSUME NEW S, NEW s \in Seq(S), NEW t \in Seq(S), NEW x \in S,
           Len(t) = Len(s) + 1, t[1] = x, \A i \in 1..Len(s) : t[i + 1] = s[i]
    PROVE  t = <<x>> \o s
<1> DEFINE c == <<x>> \o s
<1>1. c \in Seq(S) /\ Len(c) = Len(s) + 1 /\ c[1] = x /\ \A i \in 2..(Len(s) + 1) : c[i] = s[i - 1]
  BY ConcatProperties
<1>2. \A i \in 1..(Len(s) + 1) : t[i] = c[i]
  <2> SUFFICES ASSUME NEW i \in 1..(Len(s) + 1) PROVE t[i] = c[i]
    OBVIOUS
  <2>1. CASE i = 1
    BY <2>1, <1>1
  <2>2. CASE i # 1
    <3>1. i - 1 \in 1..Len(s) /\ (i - 1) + 1 = i /\ i \in 2..(Len(s) + 1)
      BY <2>2
    <3>2. t[(i - 1) + 1] = s[i - 1]
      BY <3>1
    <3> QED BY <3>1, <3>2, <1>1
  <2> QED BY <2>1, <2>2
<1> QED BY <1>1, <1>2, SeqEqual

LEMMA IsTail ==
    ASSUME NEW S, NEW s \in Seq(S), NEW t \in Seq(S), s # <<>>,
           Len(t) = Len(s) - 1, \A i \in 1..Len(t) : t[i] = s[i + 1]
    PROVE  t = Tail(s)
<1>1. Tail(s) \in Seq(S) /\ Len(Tail(s)) = Len(s) - 1
      /\ \A i \in 1..Len(Tail(s)) : Tail(s)[i] = s[i + 1]
  BY HeadTailProperties
<1> QED BY <1>1, SeqEqual
-----------------------------------------------------------------------------
(* The sequence that a ring buffer holds, for any values of its fields.    *)

Ring(first, count, msg) == [i \in 1..count |-> msg[(first + i - 1) % msgCount]]

LEMMA RingType ==
    ASSUME NEW f \in Slots, NEW n \in 0..msgCount, NEW msg \in [Slots -> Mesgs]
    PROVE  Ring(f, n, msg) \in Seq(Mesgs) /\ Len(Ring(f, n, msg)) = n
<1>1. \A i \in 1..n : (f + i - 1) % msgCount \in Slots
  BY QueueAssumption DEF Slots
<1> QED BY <1>1, QueueAssumption DEF Ring

LEMMA RingPut ==
    ASSUME NEW f \in Slots, NEW n \in 0..(msgCount - 1), NEW msg \in [Slots -> Mesgs],
           NEW m \in Mesgs
    PROVE  Ring(f, n + 1, [msg EXCEPT ![(f + n) % msgCount] = m]) = Append(Ring(f, n, msg), m)
<1> DEFINE k == (f + n) % msgCount
           s == Ring(f, n, msg)
           t == Ring(f, n + 1, [msg EXCEPT ![k] = m])
<1>1. k \in Slots /\ k = IF f + n < msgCount THEN f + n ELSE f + n - msgCount
  BY QueueAssumption, SMT DEF Slots
<1>2. \A i \in 1..n : (f + i - 1) % msgCount \in Slots \ {k}
  <2> SUFFICES ASSUME NEW i \in 1..n PROVE (f + i - 1) % msgCount \in Slots \ {k}
    OBVIOUS
  <2>1. (f + i - 1) % msgCount
          = IF f + i - 1 < msgCount THEN f + i - 1 ELSE f + i - 1 - msgCount
    BY QueueAssumption, SMT DEF Slots
  <2> HIDE DEF k
  <2> QED BY <1>1, <2>1, QueueAssumption DEF Slots
<1>3. s \in Seq(Mesgs) /\ Len(s) = n
  BY RingType, QueueAssumption
<1>4. t \in Seq(Mesgs) /\ Len(t) = n + 1
  <2>1. n + 1 \in 0..msgCount
    BY QueueAssumption
  <2> HIDE DEF k
  <2>2. [msg EXCEPT ![k] = m] \in [Slots -> Mesgs]
    OBVIOUS
  <2> QED BY <2>1, <2>2, RingType
<1>5. \A i \in 1..n : t[i] = s[i]
  BY <1>2, QueueAssumption DEF Ring
<1>6. t[n + 1] = m
  <2>1. (f + (n + 1) - 1) % msgCount = k
    BY QueueAssumption DEF Slots
  <2> HIDE DEF k
  <2> QED BY <1>1, <2>1, QueueAssumption DEF Ring
<1> HIDE DEF k, s, t
<1>7. t = Append(s, m)
  BY <1>3, <1>4, <1>5, <1>6, IsAppend
<1> QED BY <1>7 DEF k, s, t

LEMMA RingPutFront ==
    ASSUME NEW f \in Slots, NEW n \in 0..(msgCount - 1), NEW msg \in [Slots -> Mesgs],
           NEW m \in Mesgs, NEW g \in Slots, g = (f + msgCount - 1) % msgCount
    PROVE  Ring(g, n + 1, [msg EXCEPT ![g] = m]) = <<m>> \o Ring(f, n, msg)
<1> DEFINE s == Ring(f, n, msg)
           t == Ring(g, n + 1, [msg EXCEPT ![g] = m])
<1>1. g = IF f = 0 THEN msgCount - 1 ELSE f - 1
  BY QueueAssumption, SMT DEF Slots
<1>2. \A i \in 1..n : /\ (g + (i + 1) - 1) % msgCount = (f + i - 1) % msgCount
                      /\ (f + i - 1) % msgCount \in Slots \ {g}
  <2> SUFFICES ASSUME NEW i \in 1..n
               PROVE  /\ (g + (i + 1) - 1) % msgCount = (f + i - 1) % msgCount
                      /\ (f + i - 1) % msgCount \in Slots \ {g}
    OBVIOUS
  <2>1. (f + i - 1) % msgCount
          = IF f + i - 1 < msgCount THEN f + i - 1 ELSE f + i - 1 - msgCount
    BY QueueAssumption, SMT DEF Slots
  <2>2. (g + (i + 1) - 1) % msgCount = IF g + i < msgCount THEN g + i ELSE g + i - msgCount
    BY QueueAssumption, SMT DEF Slots
  <2> QED BY <1>1, <2>1, <2>2, QueueAssumption DEF Slots
<1>3. s \in Seq(Mesgs) /\ Len(s) = n
  BY RingType, QueueAssumption
<1>4. t \in Seq(Mesgs) /\ Len(t) = n + 1
  <2>1. [msg EXCEPT ![g] = m] \in [Slots -> Mesgs] /\ n + 1 \in 0..msgCount
    BY QueueAssumption
  <2> QED BY <2>1, RingType
<1>5. \A i \in 1..n : t[i + 1] = s[i]
  <2> SUFFICES ASSUME NEW i \in 1..n PROVE t[i + 1] = s[i]
    OBVIOUS
  <2>1. t[i + 1] = [msg EXCEPT ![g] = m][(g + (i + 1) - 1) % msgCount]
    BY QueueAssumption DEF Ring
  <2>2. s[i] = msg[(f + i - 1) % msgCount]
    BY DEF Ring
  <2>3. t[i + 1] = msg[(f + i - 1) % msgCount]
    BY <1>2, <2>1
  <2> QED BY <2>2, <2>3
<1>6. t[1] = m
  <2>1. (g + 1 - 1) % msgCount = g
    BY QueueAssumption, SMT DEF Slots
  <2> QED BY <2>1, QueueAssumption DEF Ring
<1> HIDE DEF s, t
<1>7. t = <<m>> \o s
  BY <1>3, <1>4, <1>5, <1>6, IsPrepend
<1> QED BY <1>7 DEF s, t

LEMMA RingTake ==
    ASSUME NEW f \in Slots, NEW n \in 1..msgCount, NEW msg \in [Slots -> Mesgs],
           NEW g \in Slots, g = (f + 1) % msgCount
    PROVE  /\ Ring(f, n, msg) # <<>> /\ msg[f] = Head(Ring(f, n, msg))
           /\ Ring(g, n - 1, msg) = Tail(Ring(f, n, msg))
<1> DEFINE s == Ring(f, n, msg)
           t == Ring(g, n - 1, msg)
<1>1. g = IF f + 1 < msgCount THEN f + 1 ELSE 0
  BY QueueAssumption, SMT DEF Slots
<1>2. \A i \in 1..(n - 1) : (g + i - 1) % msgCount = (f + (i + 1) - 1) % msgCount
  <2> SUFFICES ASSUME NEW i \in 1..(n - 1)
               PROVE  (g + i - 1) % msgCount = (f + (i + 1) - 1) % msgCount
    OBVIOUS
  <2>1. (f + (i + 1) - 1) % msgCount
          = IF f + i < msgCount THEN f + i ELSE f + i - msgCount
    BY QueueAssumption, SMT DEF Slots
  <2>2. (g + i - 1) % msgCount
          = IF g + i - 1 < msgCount THEN g + i - 1 ELSE g + i - 1 - msgCount
    BY QueueAssumption, SMT DEF Slots
  <2>3. f \in 0..(msgCount - 1) /\ msgCount \in Nat \ {0} /\ i \in Nat \ {0} /\ i < msgCount
    BY QueueAssumption DEF Slots
  <2>4. CASE f + 1 < msgCount
    <3>1. g = f + 1
      BY <2>4, <1>1
    <3> QED BY <3>1, <2>3
  <2>5. CASE ~(f + 1 < msgCount)
    <3>1. f + 1 = msgCount /\ g = 0
      BY <2>3, <2>5, <1>1
    <3>2. (f + (i + 1) - 1) % msgCount = i - 1
      BY <3>1, <2>1, <2>3
    <3>3. (g + i - 1) % msgCount = i - 1
      BY <3>1, <2>2, <2>3
    <3> QED BY <3>1, <3>2, <3>3, <2>3
  <2> QED BY <2>4, <2>5
<1>3. s \in Seq(Mesgs) /\ Len(s) = n /\ n \in Nat \ {0}
  BY RingType, QueueAssumption
<1>4. t \in Seq(Mesgs) /\ Len(t) = n - 1
  BY RingType, QueueAssumption
<1>5. \A i \in 1..(n - 1) : t[i] = s[i + 1]
  BY <1>2, <1>3, QueueAssumption DEF Ring
<1>6. s[1] = msg[f]
  <2>1. (f + 1 - 1) % msgCount = f
    BY QueueAssumption, SMT DEF Slots
  <2> QED BY <2>1, <1>3, QueueAssumption DEF Ring
<1>7. s # <<>>
  <2> HIDE DEF s
  <2> QED BY <1>3, EmptySeq
<1>8. t = Tail(s)
  <2> HIDE DEF s, t
  <2> QED BY <1>3, <1>4, <1>5, <1>7, IsTail
<1>9. Head(s) = s[1]
  BY <1>7
<1> QED BY <1>6, <1>7, <1>8, <1>9

-----------------------------------------------------------------------------
(* The steps.                                                              *)

\* The fields of the queue and the messages in flight have their types: what the ring
\* lemmas need to know of the state.
MqOK ==
    /\ mq \in [first : Slots, validCount : 0..msgCount, msg : [Slots -> Mesgs]]
    /\ call \in [Threads -> CallType \cup {None}]
    /\ last \in Mesgs

LEMMA ContentsIsRing == Contents = Ring(mq.first, mq.validCount, mq.msg)
BY DEF Contents, Ring

LEMMA InitMq == Init => MqOK /\ Contents = <<>>
<1> SUFFICES ASSUME Init PROVE MqOK /\ Contents = <<>>
  OBVIOUS
<1>1. MqOK
  BY QueueAssumption DEF Init, MqOK, Slots
<1>2. mq.validCount = 0
  BY DEF Init
<1>3. Contents = <<>>
  BY <1>2 DEF Contents
<1> QED BY <1>1, <1>3

\* What storing a message does.
LEMMA PutStep ==
    ASSUME MqOK, ~Full, NEW m \in Mesgs, Put(m)
    PROVE  /\ mq' \in [first : Slots, validCount : 0..msgCount, msg : [Slots -> Mesgs]]
           /\ Contents' = Append(Contents, m) /\ Len(Contents) < msgCount
<1>1. mq.validCount \in 0..(msgCount - 1) /\ mq.first \in Slots /\ mq.msg \in [Slots -> Mesgs]
  BY QueueAssumption DEF MqOK, Full
<1>2. /\ mq'.first = mq.first /\ mq'.validCount = mq.validCount + 1
      /\ mq'.msg = [mq.msg EXCEPT ![(mq.first + mq.validCount) % msgCount] = m]
      /\ mq'.validCount \in 0..msgCount
  BY <1>1, QueueAssumption DEF Put
<1>3. mq' \in [first : Slots, validCount : 0..msgCount, msg : [Slots -> Mesgs]]
  <2>1. [mq.msg EXCEPT ![(mq.first + mq.validCount) % msgCount] = m] \in [Slots -> Mesgs]
    BY <1>1
  <2> QED BY <1>1, <1>2, <2>1 DEF Put
<1>4. Contents' = Ring(mq'.first, mq'.validCount, mq'.msg)
  BY DEF Contents, Ring
<1>5. Contents' = Append(Contents, m)
  BY <1>1, <1>2, <1>4, RingPut, ContentsIsRing
<1>6. Len(Contents) = mq.validCount
  BY <1>1, QueueAssumption, RingType, ContentsIsRing
<1> QED BY <1>1, <1>3, <1>5, <1>6, QueueAssumption

LEMMA PutFrontStep ==
    ASSUME MqOK, ~Full, NEW m \in Mesgs, PutFront(m)
    PROVE  /\ mq' \in [first : Slots, validCount : 0..msgCount, msg : [Slots -> Mesgs]]
           /\ Contents' = <<m>> \o Contents /\ Len(Contents) < msgCount
<1> DEFINE g == (mq.first + msgCount - 1) % msgCount
<1>1. mq.validCount \in 0..(msgCount - 1) /\ mq.first \in Slots /\ mq.msg \in [Slots -> Mesgs]
  BY QueueAssumption DEF MqOK, Full
<1>2. /\ mq'.first = g /\ mq'.validCount = mq.validCount + 1
      /\ mq'.msg = [mq.msg EXCEPT ![g] = m]
      /\ mq'.validCount \in 0..msgCount
  BY <1>1, QueueAssumption DEF PutFront
<1>3. g \in Slots
  BY <1>1, QueueAssumption, SMT DEF Slots
<1>4. mq' \in [first : Slots, validCount : 0..msgCount, msg : [Slots -> Mesgs]]
  <2>1. [mq.msg EXCEPT ![g] = m] \in [Slots -> Mesgs]
    BY <1>1
  <2> QED BY <1>1, <1>2, <1>3, <2>1 DEF PutFront
<1>5. Contents' = Ring(mq'.first, mq'.validCount, mq'.msg)
  BY DEF Contents, Ring
<1>6. Contents' = <<m>> \o Contents
  <2>1. g = (mq.first + msgCount - 1) % msgCount
    OBVIOUS
  <2> HIDE DEF g
  <2>2. Ring(g, mq.validCount + 1, [mq.msg EXCEPT ![g] = m])
          = <<m>> \o Ring(mq.first, mq.validCount, mq.msg)
    BY <1>1, <1>3, <2>1, RingPutFront
  <2> QED BY <1>2, <1>5, <2>2, ContentsIsRing
<1>7. Len(Contents) = mq.validCount
  BY <1>1, QueueAssumption, RingType, ContentsIsRing
<1> QED BY <1>1, <1>4, <1>6, <1>7, QueueAssumption

LEMMA TakeStep ==
    ASSUME MqOK, ~Empty, Take
    PROVE  /\ mq' \in [first : Slots, validCount : 0..msgCount, msg : [Slots -> Mesgs]]
           /\ last' \in Mesgs /\ last' = Head(Contents)
           /\ Contents # <<>> /\ Contents' = Tail(Contents)
<1> DEFINE g == (mq.first + 1) % msgCount
<1>1. mq.validCount \in 1..msgCount /\ mq.first \in Slots /\ mq.msg \in [Slots -> Mesgs]
  BY QueueAssumption DEF MqOK, Empty
<1>2. /\ mq'.first = g /\ mq'.validCount = mq.validCount - 1 /\ mq'.msg = mq.msg
      /\ mq'.validCount \in 0..msgCount
  BY <1>1, QueueAssumption DEF Take
<1>3. g \in Slots
  BY <1>1, QueueAssumption, SMT DEF Slots
<1>4. mq' \in [first : Slots, validCount : 0..msgCount, msg : [Slots -> Mesgs]]
  BY <1>1, <1>2, <1>3 DEF Take
<1>5. Contents' = Ring(mq'.first, mq'.validCount, mq'.msg)
  BY DEF Contents, Ring
<1>6. /\ Contents # <<>> /\ mq.msg[mq.first] = Head(Contents)
      /\ Contents' = Tail(Contents)
  BY <1>1, <1>2, <1>3, <1>5, RingTake, ContentsIsRing
<1> QED BY <1>1, <1>4, <1>6 DEF Take

\* osPeekMesg hands out the head and removes nothing.
LEMMA PeekStep ==
    ASSUME MqOK, ~Empty
    PROVE  Contents # <<>> /\ mq.msg[mq.first] = Head(Contents)
<1>1. mq.validCount \in 1..msgCount /\ mq.first \in Slots /\ mq.msg \in [Slots -> Mesgs]
  BY QueueAssumption DEF MqOK, Empty
<1>2. (mq.first + 1) % msgCount \in Slots
  BY <1>1, QueueAssumption, SMT DEF Slots
<1> QED BY <1>1, <1>2, RingTake, ContentsIsRing

\* A step that leaves the queue alone leaves its contents alone.
LEMMA SameMq == ASSUME UNCHANGED mq PROVE Contents' = Contents
BY DEF Contents

FifoStep == Fifo!Next \/ UNCHANGED <<Contents, last>>

\* A turn through a call preserves the types and is a step of the bounded sequence.
LEMMA CallStep ==
    ASSUME MqOK, NEW c \in CallType, MesgCall(c)
    PROVE  MqOK' /\ FifoStep
<1> DEFINE q == [first : Slots, validCount : 0..msgCount, msg : [Slots -> Mesgs]]
<1>1. ASSUME Return PROVE call' \in [Threads -> CallType \cup {None}]
  BY <1>1 DEF Return, MqOK
<1>2. ASSUME NEW w, WaitIn(w, c) PROVE MqOK' /\ FifoStep
  <2>1. call' \in [Threads -> CallType \cup {None}]
    BY <1>1, <1>2 DEF WaitIn, MqOK
  <2>2. UNCHANGED <<mq, last>>
    BY <1>2 DEF WaitIn
  <2> QED BY <2>1, <2>2, SameMq DEF MqOK, FifoStep
<1>3. c.m \in Mesgs
  BY DEF CallType
<1>4. ASSUME SendMesg(c) PROVE MqOK' /\ FifoStep
  <2>1. CASE Full /\ WaitIn("full", c)
    BY <2>1, <1>2
  <2>2. CASE ~Full /\ Put(c.m) /\ WakeOne("mt") /\ Return /\ UNCHANGED last
    BY <2>2, <1>1, <1>3, PutStep DEF MqOK, FifoStep, Fifo!Next, Fifo!Send
  <2> QED BY <1>4, <2>1, <2>2 DEF SendMesg
<1>5. ASSUME JamMesg(c) PROVE MqOK' /\ FifoStep
  <2>1. CASE Full /\ WaitIn("full", c)
    BY <2>1, <1>2
  <2>2. CASE ~Full /\ PutFront(c.m) /\ WakeOne("mt") /\ Return /\ UNCHANGED last
    BY <2>2, <1>1, <1>3, PutFrontStep DEF MqOK, FifoStep, Fifo!Next, Fifo!Jam
  <2> QED BY <1>5, <2>1, <2>2 DEF JamMesg
<1>6. ASSUME RecvMesg(c) PROVE MqOK' /\ FifoStep
  <2>1. CASE Empty /\ WaitIn("mt", c)
    BY <2>1, <1>2
  <2>2. CASE ~Empty /\ Take /\ WakeOne("full") /\ Return
    BY <2>2, <1>1, TakeStep DEF MqOK, FifoStep, Fifo!Next, Fifo!Recv
  <2> QED BY <1>6, <2>1, <2>2 DEF RecvMesg
<1>7. ASSUME PeekMesg(c) PROVE MqOK' /\ FifoStep
  <2>1. CASE Empty /\ WaitIn("mt", c)
    BY <2>1, <1>2
  <2>2. CASE ~Empty /\ last' = mq.msg[mq.first] /\ WakeOne("full") /\ Return /\ UNCHANGED mq
    <3>1. Contents # <<>> /\ last' = Head(Contents) /\ Contents' = Contents
      BY <2>2, PeekStep, SameMq
    <3>2. last' \in Mesgs
      BY <2>2, QueueAssumption DEF MqOK
    <3> QED BY <2>2, <1>1, <3>1, <3>2 DEF MqOK, FifoStep, Fifo!Next, Fifo!Peek
  <2> QED BY <1>7, <2>1, <2>2 DEF PeekMesg
<1> QED BY <1>4, <1>5, <1>6, <1>7 DEF MesgCall, CallType, Kinds

LEMMA NextStep == MqOK /\ [Next]_vars => MqOK' /\ FifoStep
<1> SUFFICES ASSUME MqOK, [Next]_vars PROVE MqOK' /\ FifoStep
  OBVIOUS
<1>1. ASSUME UNCHANGED <<mq, last>>, call' \in [Threads -> CallType \cup {None}]
      PROVE  MqOK' /\ FifoStep
  BY <1>1, SameMq DEF MqOK, FifoStep
<1>2. ASSUME NEW t \in Threads, ThreadStep(t) PROVE MqOK' /\ FifoStep
  <2>1. CASE call[t] # None
    BY <1>2, <2>1, CallStep DEF ThreadStep, MqOK
  <2>2. CASE call[t] = None
    BY <1>2, <2>2, CallStep DEF ThreadStep
  <2> QED BY <2>1, <2>2
<1>3. ASSUME NEW m \in Mesgs, EventMesg(m) PROVE MqOK' /\ FifoStep
  BY <1>3, PutStep DEF EventMesg, MqOK, FifoStep, Fifo!Next, Fifo!Send
<1>4. ASSUME ControlStep PROVE MqOK' /\ FifoStep
  <2>1. UNCHANGED <<mq, last>> /\ call' \in [Threads -> CallType \cup {None}]
    BY <1>4 DEF ControlStep, Create, Start, Stop, Destroy, SetPri, Yield, Control, MqOK
  <2> QED BY <2>1, <1>1
<1>5. CASE UNCHANGED vars
  BY <1>1, <1>5 DEF vars, MqOK
<1> QED BY <1>2, <1>3, <1>4, <1>5 DEF Next

-----------------------------------------------------------------------------
(* The message queue implements the bounded sequence: whatever the threads *)
(* and interrupts do, messages come out in order, and none is lost,        *)
(* duplicated or overwritten, across wraparound, jams and blocked calls.   *)

THEOREM RingImplementsFifo == Spec => ImplementsFifo
<1>1. Init => MqOK /\ Fifo!Init
  BY InitMq DEF Init, Fifo!Init
<1>2. MqOK /\ [Next]_vars => MqOK' /\ [Fifo!Next]_<<Contents, last>>
  BY NextStep DEF FifoStep
<1> QED BY <1>1, <1>2, PTL DEF Spec, ImplementsFifo, Fifo!Spec

-----------------------------------------------------------------------------
(* The threads.  The inductive invariant adds to the types that the thread *)
(* system is in order, and that the idle thread is never inside a call, so *)
(* that a thread that blocks always leaves one to dispatch.                *)

ThreadInv == ThreadsOK(os) /\ call[Idle] = None

LEMMA InitThreads == Init => ThreadInv
<1> SUFFICES ASSUME Init PROVE ThreadInv
  OBVIOUS
<1>1. /\ os \in ThreadSystem /\ os.running = Idle /\ os.active = {Idle}
      /\ os.state[Idle] = "RUNNING" /\ os.priority \in [Threads -> Nat]
      /\ \A q \in Queues : os.threadq[q] = <<>>
      /\ call[Idle] = None
  BY ThreadAssumption DEF Init, ThreadSystem, States, Queues
<1>2. Listed(os) = {}
  BY <1>1 DEF Listed
<1>3. \A q \in Queues : In(os.threadq[q]) = {} /\ Good(os.priority, os.threadq[q])
  <2>1. In(<<>>) = {} /\ \A pri : Good(pri, <<>>)
    BY DEF In, Good, Once, Sorted
  <2> QED BY <1>1, <2>1
<1>4. Linked(os, Listed(os))
  BY <1>1, <1>2, <1>3 DEF Linked
<1>5. LinkedOK(os)
  BY <1>1, <1>2, <1>4 DEF LinkedOK, IdleOK
<1> QED BY <1>1, <1>3, <1>5, RunQueue DEF ThreadInv, ThreadsOK

LEMMA WakeOneOK ==
    ASSUME ThreadsOK(os), NEW q \in WaitQueues, WakeOne(q)
    PROVE  ThreadsOK(os')
<1>1. CASE os.threadq[q] = <<>>
  BY <1>1 DEF WakeOne
<1>2. CASE os.threadq[q] # <<>>
  BY <1>2, WakeOK DEF WakeOne
<1> QED BY <1>1, <1>2

\* A turn of a thread that is not the idle thread through a call.
LEMMA CallThreads ==
    ASSUME MqOK, ThreadInv, os.running # Idle, NEW c \in CallType, MesgCall(c)
    PROVE  ThreadInv'
<1>1. /\ ThreadsOK(os) /\ LinkedOK(os) /\ os.running \in Threads
      /\ call \in [Threads -> CallType \cup {None}] /\ call[Idle] = None
  BY ThreadsType DEF ThreadInv, ThreadsOK, MqOK
<1>2. {"mt", "full"} = WaitQueues
  BY QueueAssumption
<1>3. ASSUME Return PROVE call'[Idle] = None
  BY <1>1, <1>3, ThreadAssumption DEF Return
<1>4. ASSUME NEW q \in WaitQueues, WaitIn(q, c) PROVE ThreadInv'
  <2>1. CASE c.block
    <3>1. ThreadsOK(EnqueueAndYield([os EXCEPT !.state[os.running] = "WAITING"], q))
      BY <1>1, RunQueue, YieldOK
    <3>2. call'[Idle] = None
      BY <1>1, <1>4, <2>1, ThreadAssumption DEF WaitIn
    <3> QED BY <1>4, <2>1, <3>1, <3>2 DEF WaitIn, ThreadInv
  <2>2. CASE ~c.block
    BY <1>1, <1>3, <1>4, <2>2 DEF WaitIn, ThreadInv
  <2> QED BY <2>1, <2>2
<1>5. ASSUME NEW q \in WaitQueues, WakeOne(q), Return PROVE ThreadInv'
  BY <1>1, <1>3, <1>5, WakeOneOK DEF ThreadInv
<1> QED BY <1>2, <1>4, <1>5 DEF MesgCall, CallType, Kinds, SendMesg, JamMesg, RecvMesg, PeekMesg

LEMMA ThreadsNext == MqOK /\ ThreadInv /\ [Next]_vars => ThreadInv'
<1> SUFFICES ASSUME MqOK, ThreadInv, [Next]_vars PROVE ThreadInv'
  OBVIOUS
<1>1. /\ ThreadsOK(os) /\ LinkedOK(os) /\ call[Idle] = None
      /\ os.active \subseteq Threads /\ os.running \in os.active /\ Idle \in os.active
      /\ call \in [Threads -> CallType \cup {None}]
  BY ThreadsType DEF ThreadInv, ThreadsOK, LinkedOK, IdleOK, MqOK
<1>2. ASSUME NEW t \in Threads, ThreadStep(t) PROVE ThreadInv'
  <2>1. CASE call[t] # None
    <3>1. os.running # Idle /\ call[t] \in CallType /\ MesgCall(call[t])
      BY <1>1, <1>2, <2>1 DEF ThreadStep
    <3> QED BY <3>1, CallThreads
  <2>2. CASE call[t] = None
    <3>1. PICK c \in CallType : <<c.kind, c.block>> \in Calls[t] /\ MesgCall(c)
      BY <1>2, <2>2 DEF ThreadStep
    <3>2. os.running # Idle
      BY <1>2, <3>1, IdleAssumption DEF ThreadStep
    <3> QED BY <3>1, <3>2, CallThreads
  <2> QED BY <2>1, <2>2
<1>3. ASSUME NEW m \in Mesgs, EventMesg(m) PROVE ThreadInv'
  <2>1. CASE os.threadq["mt"] = <<>>
    BY <1>1, <1>3, <2>1 DEF EventMesg, ThreadInv
  <2>2. CASE os.threadq["mt"] # <<>>
    <3>1. "mt" \in WaitQueues
      BY QueueAssumption
    <3>2. ThreadsOK(Preempt(EnqueueThread(PopThread(os, "mt"), "run", os.threadq["mt"][1])))
      BY <1>1, <2>2, <3>1, InterruptOK
    <3> QED BY <1>1, <1>3, <2>2, <3>2 DEF EventMesg, ThreadInv
  <2> QED BY <2>1, <2>2
<1>4. ASSUME NEW t \in Threads \ {Idle}, Start(t) PROVE ThreadInv'
  <2>1. Between(os, t) /\ os.state[t] = "STOPPED"
    BY <1>1, <1>4, StoppedBetween DEF Start
  <2> QED BY <1>1, <1>4, <2>1, StartOK DEF Start, Control, ThreadInv
<1>5. ASSUME NEW t \in Threads \ {Idle}, Stop(t) PROVE ThreadInv'
  BY <1>1, <1>5, StopOK DEF Stop, Control, ThreadInv
<1>6. ASSUME NEW t \in Threads \ {Idle}, Destroy(t) PROVE ThreadInv'
  BY <1>1, <1>6, DestroyOK DEF Destroy, Control, ThreadInv
<1>7. ASSUME NEW t \in Threads \ {Idle}, NEW p \in Priorities, Create(t, p) PROVE ThreadInv'
  <2>1. call'[Idle] = None
    BY <1>1, <1>7, ThreadAssumption DEF Create
  <2>2. p \in Nat /\ t \in Threads \ os.active
    BY <1>7, ThreadAssumption DEF Create
  <2>3. ThreadsOK(CreateThread(os, t, p))
    BY <1>1, <2>2, CreateOK
  <2> QED BY <1>7, <2>1, <2>3 DEF Create, Control, ThreadInv
<1>8. ASSUME NEW t \in Threads \ {Idle}, NEW p \in Priorities, SetPri(t, p) PROVE ThreadInv'
  <2>1. p \in Nat
    BY ThreadAssumption
  <2> QED BY <1>1, <1>8, <2>1, SetThreadPriOK DEF SetPri, Control, ThreadInv
<1>9. ASSUME Yield PROVE ThreadInv'
  BY <1>1, <1>9, YieldThreadOK DEF Yield, Control, ThreadInv
<1>10. CASE UNCHANGED vars
  BY <1>10 DEF vars, ThreadInv
<1> QED BY <1>2, <1>3, <1>4, <1>5, <1>6, <1>7, <1>8, <1>9, <1>10 DEF Next, ControlStep

LEMMA Invariant == Spec => [](MqOK /\ ThreadInv)
<1>1. Init => MqOK /\ ThreadInv
  BY InitMq, InitThreads
<1>2. MqOK /\ ThreadInv /\ [Next]_vars => (MqOK /\ ThreadInv)'
  BY NextStep, ThreadsNext
<1> QED BY <1>1, <1>2, PTL DEF Spec

\* The state of the threads, the queue and the pending calls keeps its type, whatever
\* the threads and interrupts do: in particular the lists hold threads only and the
\* count of messages never leaves 0..msgCount.
THEOREM TypeCorrect == Spec => []TypeOK
<1>1. MqOK /\ ThreadInv => TypeOK
  BY ThreadsType DEF MqOK, ThreadInv, ThreadsOK, TypeOK
<1> QED BY <1>1, Invariant, PTL

\* Every thread that is neither running, stopped nor destroyed is in exactly one list,
\* once, whatever stops, restarts, destroys or reprioritises it.
THEOREM NeverLinkedTwice == Spec => []OnOneList
<1>1. ASSUME MqOK, ThreadInv PROVE OnOneList
  <2>1. /\ LinkedOK(os) /\ \A q \in Queues : Good(os.priority, os.threadq[q])
        /\ os.active \subseteq Threads
    BY <1>1, ThreadsType DEF ThreadInv, ThreadsOK, LinkedOK, Linked
  <2>2. ASSUME NEW q \in Queues PROVE Cardinality(Members(q)) = Len(os.threadq[q])
    <3> DEFINE list == os.threadq[q]
               S == Members(q)
    <3>1. list \in Seq(Threads) /\ DOMAIN list = 1..Len(list) /\ Len(list) \in Nat
          /\ \A i, j \in 1..Len(list) : list[i] = list[j] => i = j
      BY <2>1 DEF Good, Once
    <3>2. S = {list[i] : i \in 1..Len(list)}
      BY <3>1 DEF Members
    <3> HIDE DEF list, S
    <3>3. list \in Bijection(1..Len(list), S)
      <4>1. list \in [1..Len(list) -> S]
        BY <3>1, <3>2
      <4> QED BY <3>1, <3>2, <4>1 DEF Bijection, Injection, IsInjective, Surjection
    <3>4. ExistsBijection(1..Len(list), S)
      BY <3>3 DEF ExistsBijection
    <3> QED BY <3>1, <3>4, FS_CountingElements DEF list, S
  <2>3. ASSUME NEW t \in Threads, NEW q \in Queues
        PROVE  t \in Members(q) <=> /\ t \in os.active /\ t # os.running
                                    /\ os.state[t] # "STOPPED" /\ os.queue[t] = q
    <3>1. Members(q) = In(os.threadq[q])
      BY DEF Members, In
    <3>2. t \in In(os.threadq[q]) <=> t \in Listed(os) /\ os.queue[t] = q
      BY <2>1 DEF LinkedOK, Linked
    <3> QED BY <3>1, <3>2 DEF Listed
  <2> QED BY <2>2, <2>3 DEF OnOneList
<1> QED BY <1>1, Invariant, PTL

\* The running thread has the highest priority of those that could run, and every list
\* is in priority order, after every call, interrupt, stop, restart and change of priority.
THEOREM HighestAlwaysRuns == Spec => []HighestRuns
<1>1. ASSUME MqOK, ThreadInv PROVE HighestRuns
  <2>1. \A t \in Members("run") : os.priority[t] <= os.priority[os.running]
    BY <1>1 DEF ThreadInv, ThreadsOK, Members, In
  <2>2. \A q \in Queues : Sorted(os.priority, os.threadq[q])
    BY <1>1 DEF ThreadInv, ThreadsOK, LinkedOK, Linked, Good
  <2> QED BY <2>1, <2>2 DEF HighestRuns, Sorted
<1> QED BY <1>1, Invariant, PTL

-----------------------------------------------------------------------------
(* No wakeup is lost, as long as no thread is stopped or destroyed inside  *)
(* of a call, and none blocks in osPeekMesg, which would use up a wakeup   *)
(* without taking the message (its only caller, fault.c:927, does not).    *)

Steady ==
    /\ "stop" \notin Controls /\ "destroy" \notin Controls
    /\ \A t \in Threads : <<"peek", TRUE>> \notin Calls[t]

At(t) == Place(os, t)
Going(kinds) == {t \in Threads : At(t) = <<"in", "run">> /\ call[t] # None /\ call[t].kind \in kinds}
Senders == {"send", "jam"}
Receivers == {"recv", "peek"}

\* A thread at p with the pending call c: it waits in the list of what it waits for, it
\* has not been stopped, and it has no call before it exists.
ThreadWait(p, c) ==
    /\ p = <<"in", "full">> => c # None /\ c.kind \in Senders
    /\ p = <<"in", "mt">> => c # None /\ c.kind \in Receivers
    /\ c # None => c.block /\ c.kind # "peek"
    /\ \A q \in Queues : p # <<"stopped", q>>
    /\ p = <<"gone", "NULL">> => c = None

WaitInv == \A t \in Threads : ThreadWait(At(t), call[t])

\* NoLostWakeup by the places of the threads.
WakeInv ==
    /\ (\E t \in Threads : At(t) = <<"in", "full">>) =>
          msgCount - mq.validCount <= Cardinality(Going(Senders))
    /\ (\E t \in Threads : At(t) = <<"in", "mt">>) =>
          mq.validCount <= Cardinality(Going(Receivers))

LEMMA GoingFinite ==
    ASSUME NEW K PROVE IsFiniteSet(Going(K)) /\ Cardinality(Going(K)) \in Nat
BY ThreadAssumption, FS_Subset, FS_CardinalityType DEF Going

\* The invariant is about woken threads.
LEMMA WakeInvSuffices ==
    ASSUME MqOK, ThreadInv, WakeInv PROVE NoLostWakeup
<1>1. LinkedOK(os) /\ os.running \in Threads
  BY ThreadsType DEF ThreadInv, ThreadsOK
<1>2. \A q \in Queues : Members(q) = In(os.threadq[q]) /\ Members(q) \subseteq Threads
  BY <1>1, InListed, ThreadsType DEF Members, In
<1>3. ASSUME NEW K PROVE Woken(K) = Going(K)
  <2>1. \A t \in Threads : t \in Members("run") \cup {os.running} <=> At(t) = <<"in", "run">>
    BY <1>1, <1>2, RunQueue, ListPlace, RunsPlace DEF At
  <2>2. Members("run") \cup {os.running} \subseteq Threads
    BY <1>1, <1>2, RunQueue
  <2> QED BY <2>1, <2>2 DEF Woken, Going
<1>4. "full" \in Queues /\ "mt" \in Queues
  BY QueueAssumption, RunQueue
<1>5. ASSUME NEW q \in Queues, os.threadq[q] # <<>> PROVE \E t \in Threads : At(t) = <<"in", q>>
  BY <1>1, <1>5, HeadPlace DEF At
<1> QED BY <1>3, <1>4, <1>5 DEF NoLostWakeup, WakeInv, Senders, Receivers

\* No thread waited in q, or one that did is on its way to the processor.
Woke(q) ==
    \/ /\ \A t \in Threads : At(t) # <<"in", q>>
       /\ \A t \in Threads : At(t)' = At(t)
    \/ \E h \in Threads \ {os.running} :
          /\ At(h) = <<"in", q>>
          /\ \A t \in Threads : At(t)' = IF t = h THEN <<"in", "run">> ELSE At(t)

\* What a call, or an interrupt, that wakes the head of q does to the places.
LEMMA WakeEffect ==
    ASSUME ThreadInv, NEW q \in WaitQueues,
           \/ WakeOne(q)
           \/ os' = IF os.threadq[q] = <<>> THEN os
                    ELSE Preempt(EnqueueThread(PopThread(os, q), "run", os.threadq[q][1]))
    PROVE  Woke(q)
<1>1. ThreadsOK(os) /\ LinkedOK(os) /\ q \in Queues /\ q # "run"
  BY RunQueue DEF ThreadInv, ThreadsOK
<1>2. CASE os.threadq[q] = <<>>
  <2>1. os' = os
    BY <1>2 DEF WakeOne
  <2>2. In(os.threadq[q]) = {}
    BY <1>2 DEF In
  <2>3. \A t \in Threads : At(t) # <<"in", q>>
    BY <1>1, <2>2, ListPlace, RunsPlace DEF At
  <2> QED BY <2>1, <2>3 DEF At, Woke
<1>3. CASE os.threadq[q] # <<>>
  <2> DEFINE h == os.threadq[q][1]
  <2>1. \/ os' = StartThread(PopThread(os, q), h)
        \/ os' = Preempt(EnqueueThread(PopThread(os, q), "run", h))
    BY <1>3 DEF WakeOne
  <2>2. h \in Threads \ {os.running} /\ At(h) = <<"in", q>>
    BY <1>1, <1>3, HeadPlace DEF At
  <2>3. Moves(os, os', h, <<"in", "run">>)
    BY <1>1, <1>3, <2>1, WakeMoves
  <2> HIDE DEF h
  <2>4. \A t \in Threads : At(t)' = IF t = h THEN <<"in", "run">> ELSE At(t)
    BY <2>3 DEF At, Moves
  <2> QED BY <2>2, <2>4 DEF Woke
<1> QED BY <1>2, <1>3

LEMMA RunsAt == ASSUME ThreadInv PROVE os.running \in Threads /\ At(os.running) = <<"in", "run">>
BY ThreadsType, RunsPlace DEF ThreadInv, ThreadsOK, At

\* A call that comes to its end and wakes the head of q.
LEMMA ReturnWaits ==
    ASSUME MqOK, ThreadInv, WaitInv, NEW q \in WaitQueues, Woke(q), Return
    PROVE  WaitInv'
<1> SUFFICES ASSUME NEW t \in Threads PROVE ThreadWait(At(t)', call'[t])
  BY DEF WaitInv
<1>1. call'[t] = IF t = os.running THEN None ELSE call[t]
  BY DEF Return, MqOK
<1>2. ThreadWait(At(t), call[t])
  BY DEF WaitInv
<1>3. At(t)' = At(t) \/ (t # os.running /\ At(t)' = <<"in", "run">>)
  BY DEF Woke
<1>4. ThreadWait(<<"in", "run">>, None)
  BY DEF ThreadWait
<1>5. ThreadWait(<<"in", "run">>, call[t])
  BY <1>2 DEF ThreadWait
<1> QED BY <1>1, <1>2, <1>3, <1>4, <1>5, RunsAt

\* What it does to the woken threads: those of other kinds than the caller's and the
\* waiting threads' stay the same, the caller is no longer one, and a waiting one is added.
LEMMA ReturnGoing ==
    ASSUME MqOK, ThreadInv, WaitInv, NEW q \in WaitQueues, Woke(q), Return, NEW K,
           NEW K2, K \cap K2 = {},
           q = "full" => K2 = Senders, q = "mt" => K2 = Receivers
    PROVE  /\ Going(K)' = Going(K) \ {os.running}
           /\ \/ /\ \A t \in Threads : At(t) # <<"in", q>>
                 /\ Going(K2)' = Going(K2) \ {os.running}
              \/ \E h \in Threads : /\ h \notin Going(K2) /\ At(h) = <<"in", q>>
                                    /\ Going(K2)' = (Going(K2) \ {os.running}) \cup {h}
           /\ \A w \in WaitQueues : (\E t \in Threads : At(t)' = <<"in", w>>)
                                    => \E t \in Threads : At(t) = <<"in", w>>
<1>1. \A t \in Threads : call'[t] = IF t = os.running THEN None ELSE call[t]
  BY DEF Return, MqOK
<1>2. q \in {"full", "mt"} /\ q # "run" /\ \A w \in WaitQueues : w # "run"
  BY QueueAssumption, ThreadAssumption
<1>3. CASE /\ \A t \in Threads : At(t) # <<"in", q>>
           /\ \A t \in Threads : At(t)' = At(t)
  BY <1>1, <1>3 DEF Going
<1>4. ASSUME NEW h \in Threads \ {os.running}, At(h) = <<"in", q>>,
             \A t \in Threads : At(t)' = IF t = h THEN <<"in", "run">> ELSE At(t)
      PROVE  /\ Going(K)' = Going(K) \ {os.running}
             /\ h \notin Going(K2) /\ Going(K2)' = (Going(K2) \ {os.running}) \cup {h}
             /\ \A w \in WaitQueues : (\E t \in Threads : At(t)' = <<"in", w>>)
                                      => \E t \in Threads : At(t) = <<"in", w>>
  <2>1. call[h] # None /\ call[h].kind \in K2 /\ call[h].kind \notin K
    BY <1>2, <1>4 DEF WaitInv, ThreadWait
  <2>2. h \notin Going(K) /\ h \notin Going(K2)
    BY <1>2, <1>4 DEF Going
  <2>3. Going(K)' = Going(K) \ {os.running}
    BY <1>1, <1>4, <2>1, <2>2 DEF Going
  <2>4. Going(K2)' = (Going(K2) \ {os.running}) \cup {h}
    BY <1>1, <1>4, <2>1 DEF Going
  <2> QED BY <1>2, <1>4, <2>2, <2>3, <2>4
<1> QED BY <1>3, <1>4 DEF Woke

LEMMA Counting ==
    ASSUME NEW S, IsFiniteSet(S), NEW r
    PROVE  /\ Cardinality(S \ {r}) \in Nat /\ Cardinality(S) \in Nat
           /\ Cardinality(S \ {r}) >= Cardinality(S) - 1
<1>1. /\ IsFiniteSet(S \ {r})
      /\ Cardinality(S \ {r}) = IF r \in S THEN Cardinality(S) - 1 ELSE Cardinality(S)
  BY FS_RemoveElement
<1>2. Cardinality(S) \in Nat /\ Cardinality(S \ {r}) \in Nat
  BY <1>1, FS_CardinalityType
<1> QED BY <1>1, <1>2

LEMMA KindsDiffer == Senders \cap Receivers = {} /\ Receivers \cap Senders = {}
                     /\ {"mt", "full"} = WaitQueues /\ msgCount \in Nat \ {0}
BY QueueAssumption DEF Senders, Receivers

\* A sender, or one that jams, stores a message and wakes a receiver.
LEMMA PutWakes ==
    ASSUME MqOK, ThreadInv, WaitInv, WakeInv, Woke("mt"), Return,
           call[os.running] = None \/ call[os.running].kind \in Senders,
           mq'.validCount = mq.validCount + 1
    PROVE  WaitInv' /\ WakeInv'
<1> DEFINE r == os.running
           S == Going(Senders)
           R == Going(Receivers)
<1>1. WaitInv'
  BY ReturnWaits, KindsDiffer
<1>2. /\ Going(Senders)' = S \ {r}
      /\ \/ /\ \A t \in Threads : At(t) # <<"in", "mt">>
            /\ Going(Receivers)' = R \ {r}
         \/ \E h \in Threads : h \notin R /\ Going(Receivers)' = (R \ {r}) \cup {h}
      /\ \A w \in WaitQueues : (\E t \in Threads : At(t)' = <<"in", w>>)
                               => \E t \in Threads : At(t) = <<"in", w>>
  BY ReturnGoing, KindsDiffer
<1>3. R \ {r} = R
  BY KindsDiffer DEF Going
<1>4. IsFiniteSet(S) /\ IsFiniteSet(R) /\ Cardinality(R) \in Nat /\ Cardinality(S) \in Nat
      /\ mq.validCount \in Nat
  BY GoingFinite, QueueAssumption DEF MqOK
<1> HIDE DEF S, R, r
<1>5. Cardinality(S \ {r}) \in Nat /\ Cardinality(S \ {r}) >= Cardinality(S) - 1
  BY <1>4, Counting
<1>6. ASSUME \E t \in Threads : At(t)' = <<"in", "full">>
      PROVE  msgCount - mq'.validCount <= Cardinality(Going(Senders)')
  <2>1. msgCount - mq.validCount <= Cardinality(S)
    BY <1>2, <1>6, KindsDiffer DEF WakeInv, S
  <2> QED BY <1>2, <1>4, <1>5, <2>1, KindsDiffer
<1>7. ASSUME \E t \in Threads : At(t)' = <<"in", "mt">>
      PROVE  mq'.validCount <= Cardinality(Going(Receivers)')
  <2>1. (\E t \in Threads : At(t) = <<"in", "mt">>) /\ mq.validCount <= Cardinality(R)
    BY <1>2, <1>7, KindsDiffer DEF WakeInv, R
  <2>2. PICK h \in Threads : h \notin R /\ Going(Receivers)' = R \cup {h}
    BY <1>2, <1>3, <2>1
  <2>3. Cardinality(Going(Receivers)') = Cardinality(R) + 1
    BY <1>4, <2>2, FS_AddElement
  <2> QED BY <1>4, <2>1, <2>3
<1> QED BY <1>1, <1>6, <1>7 DEF WakeInv

\* A receiver takes a message and wakes a sender.
LEMMA TakeWakes ==
    ASSUME MqOK, ThreadInv, WaitInv, WakeInv, Woke("full"), Return,
           call[os.running] = None \/ call[os.running].kind \in Receivers,
           mq'.validCount = mq.validCount - 1
    PROVE  WaitInv' /\ WakeInv'
<1> DEFINE r == os.running
           S == Going(Senders)
           R == Going(Receivers)
<1>1. WaitInv'
  BY ReturnWaits, KindsDiffer
<1>2. /\ Going(Receivers)' = R \ {r}
      /\ \/ /\ \A t \in Threads : At(t) # <<"in", "full">>
            /\ Going(Senders)' = S \ {r}
         \/ \E h \in Threads : h \notin S /\ Going(Senders)' = (S \ {r}) \cup {h}
      /\ \A w \in WaitQueues : (\E t \in Threads : At(t)' = <<"in", w>>)
                               => \E t \in Threads : At(t) = <<"in", w>>
  BY ReturnGoing, KindsDiffer
<1>3. S \ {r} = S
  BY KindsDiffer DEF Going
<1>4. IsFiniteSet(S) /\ IsFiniteSet(R) /\ Cardinality(R) \in Nat /\ Cardinality(S) \in Nat
      /\ mq.validCount \in Nat
  BY GoingFinite, QueueAssumption DEF MqOK
<1> HIDE DEF S, R, r
<1>5. Cardinality(R \ {r}) \in Nat /\ Cardinality(R \ {r}) >= Cardinality(R) - 1
  BY <1>4, Counting
<1>6. ASSUME \E t \in Threads : At(t)' = <<"in", "mt">>
      PROVE  mq'.validCount <= Cardinality(Going(Receivers)')
  <2>1. mq.validCount <= Cardinality(R)
    BY <1>2, <1>6, KindsDiffer DEF WakeInv, R
  <2> QED BY <1>2, <1>4, <1>5, <2>1, KindsDiffer
<1>7. ASSUME \E t \in Threads : At(t)' = <<"in", "full">>
      PROVE  msgCount - mq'.validCount <= Cardinality(Going(Senders)')
  <2>1. (\E t \in Threads : At(t) = <<"in", "full">>) /\ msgCount - mq.validCount <= Cardinality(S)
    BY <1>2, <1>7, KindsDiffer DEF WakeInv, S
  <2>2. PICK h \in Threads : h \notin S /\ Going(Senders)' = S \cup {h}
    BY <1>2, <1>3, <2>1
  <2>3. Cardinality(Going(Senders)') = Cardinality(S) + 1
    BY <1>4, <2>2, FS_AddElement
  <2> QED BY <1>4, <2>1, <2>3, KindsDiffer
<1> QED BY <1>1, <1>6, <1>7 DEF WakeInv

\* A receiver that only looks wakes a sender, for which there is no room.
LEMMA PeekWakes ==
    ASSUME MqOK, ThreadInv, WaitInv, WakeInv, Woke("full"), Return,
           call[os.running] = None, UNCHANGED mq
    PROVE  WaitInv' /\ WakeInv'
<1> DEFINE S == Going(Senders)
           R == Going(Receivers)
<1>1. WaitInv'
  BY ReturnWaits, KindsDiffer
<1>2. /\ Going(Receivers)' = R \ {os.running}
      /\ \/ Going(Senders)' = S \ {os.running}
         \/ \E h \in Threads : h \notin S /\ Going(Senders)' = (S \ {os.running}) \cup {h}
      /\ \A w \in WaitQueues : (\E t \in Threads : At(t)' = <<"in", w>>)
                               => \E t \in Threads : At(t) = <<"in", w>>
  BY ReturnGoing, KindsDiffer
<1>3. S \ {os.running} = S /\ R \ {os.running} = R
  BY DEF Going
<1>4. IsFiniteSet(S) /\ Cardinality(S) \in Nat /\ mq.validCount \in Nat
  BY GoingFinite, QueueAssumption DEF MqOK
<1> HIDE DEF S, R
<1>5. Cardinality(Going(Senders)') \in Nat /\ Cardinality(Going(Senders)') >= Cardinality(S)
  <2>1. CASE Going(Senders)' = S
    BY <1>4, <2>1
  <2>2. CASE \E h \in Threads : h \notin S /\ Going(Senders)' = S \cup {h}
    <3>1. PICK h \in Threads : h \notin S /\ Going(Senders)' = S \cup {h}
      BY <2>2
    <3>2. Cardinality(Going(Senders)') = Cardinality(S) + 1
      BY <1>4, <3>1, FS_AddElement
    <3> QED BY <1>4, <3>2
  <2> QED BY <1>2, <1>3, <2>1, <2>2
<1>6. Going(Receivers)' = R
  BY <1>2, <1>3
<1>7. ASSUME \E t \in Threads : At(t)' = <<"in", "full">>
      PROVE  msgCount - mq'.validCount <= Cardinality(Going(Senders)')
  <2>1. msgCount - mq.validCount <= Cardinality(S)
    BY <1>2, <1>7, KindsDiffer DEF WakeInv, S
  <2> QED BY <1>4, <1>5, <2>1, KindsDiffer
<1>8. ASSUME \E t \in Threads : At(t)' = <<"in", "mt">>
      PROVE  mq'.validCount <= Cardinality(Going(Receivers)')
  <2>1. mq.validCount <= Cardinality(R)
    BY <1>2, <1>8, KindsDiffer DEF WakeInv, R
  <2> QED BY <1>6, <2>1
<1> QED BY <1>1, <1>7, <1>8 DEF WakeInv

\* A thread blocks: the woken threads of the other kind stay the same.
LEMMA BlockEffect ==
    ASSUME MqOK, ThreadInv, os.running # Idle, NEW c \in CallType, NEW q \in WaitQueues,
           WaitIn(q, c), c.block, NEW K, c.kind \notin K, call[os.running] \in {c, None}
    PROVE  /\ \A t \in Threads : At(t)' = IF t = os.running THEN <<"in", q>> ELSE At(t)
           /\ \A t \in Threads : call'[t] = IF t = os.running THEN c ELSE call[t]
           /\ Going(K)' = Going(K) /\ mq' = mq
<1>1. LinkedOK(os) /\ q \in Queues /\ q # "run"
  BY RunQueue DEF ThreadInv, ThreadsOK
<1>2. Moves(os, os', os.running, <<"in", q>>)
  BY <1>1, YieldMoves DEF WaitIn
<1>3. \A t \in Threads : At(t)' = IF t = os.running THEN <<"in", q>> ELSE At(t)
  BY <1>2 DEF Moves, At
<1>4. \A t \in Threads : call'[t] = IF t = os.running THEN c ELSE call[t]
  BY DEF WaitIn, MqOK
<1>5. os.running \notin Going(K) /\ os.running \notin Going(K)'
  BY <1>1, <1>3 DEF Going
<1>6. \A t \in Threads \ {os.running} : t \in Going(K) <=> t \in Going(K)'
  BY <1>3, <1>4 DEF Going
<1>7. Going(K) \subseteq Threads /\ Going(K)' \subseteq Threads
  BY DEF Going
<1> QED BY <1>3, <1>4, <1>5, <1>6, <1>7 DEF WaitIn

\* It waits in the list for its kind, and only while there is nothing for it.
LEMMA BlockWakes ==
    ASSUME MqOK, ThreadInv, WaitInv, WakeInv, os.running # Idle, NEW c \in CallType,
           call[os.running] \in {c, None}, c.block,
           \/ Full /\ WaitIn("full", c) /\ c.kind \in Senders
           \/ Empty /\ WaitIn("mt", c) /\ c.kind = "recv"
    PROVE  WaitInv' /\ WakeInv'
<1>1. /\ mq.validCount \in Nat /\ c # None
      /\ Cardinality(Going(Senders)) \in Nat /\ Cardinality(Going(Receivers)) \in Nat
      /\ IsFiniteSet(Going(Senders)) /\ IsFiniteSet(Going(Receivers))
  BY GoingFinite, QueueAssumption DEF MqOK, CallType, None, Kinds
<1>2. ASSUME NEW q \in WaitQueues,
             \A t \in Threads : At(t)' = IF t = os.running THEN <<"in", q>> ELSE At(t),
             \A t \in Threads : call'[t] = IF t = os.running THEN c ELSE call[t],
             q = "full" => c.kind \in Senders, q = "mt" => c.kind = "recv"
      PROVE  WaitInv'
  <2> SUFFICES ASSUME NEW t \in Threads PROVE ThreadWait(At(t)', call'[t])
    BY DEF WaitInv
  <2>1. q \in {"full", "mt"}
    BY KindsDiffer
  <2>2. ThreadWait(<<"in", q>>, c)
    BY <1>1, <1>2, <2>1 DEF ThreadWait, Senders, Receivers
  <2>3. ThreadWait(At(t), call[t])
    BY DEF WaitInv
  <2> QED BY <1>2, <2>2, <2>3
<1>3. CASE Full /\ WaitIn("full", c) /\ c.kind \in Senders
  <2>1. /\ \A t \in Threads : At(t)' = IF t = os.running THEN <<"in", "full">> ELSE At(t)
        /\ \A t \in Threads : call'[t] = IF t = os.running THEN c ELSE call[t]
        /\ Going(Receivers)' = Going(Receivers) /\ mq' = mq
    BY <1>3, KindsDiffer, BlockEffect
  <2>2. WaitInv'
    BY <1>2, <1>3, <2>1, KindsDiffer
  <2>3. Going(Senders)' \subseteq Going(Senders)
    BY <2>1 DEF Going
  <2>4. Cardinality(Going(Senders)') \in Nat
    BY <1>1, <2>3, FS_Subset, FS_CardinalityType
  <2>5. msgCount - mq'.validCount <= Cardinality(Going(Senders)')
    BY <1>1, <1>3, <2>1, <2>4, KindsDiffer DEF Full
  <2>6. (\E t \in Threads : At(t)' = <<"in", "mt">>) => \E t \in Threads : At(t) = <<"in", "mt">>
    BY <2>1
  <2>7. (\E t \in Threads : At(t)' = <<"in", "mt">>)
        => mq'.validCount <= Cardinality(Going(Receivers)')
    BY <2>1, <2>6 DEF WakeInv
  <2> QED BY <2>2, <2>5, <2>7 DEF WakeInv
<1>4. CASE Empty /\ WaitIn("mt", c) /\ c.kind = "recv"
  <2>1. /\ \A t \in Threads : At(t)' = IF t = os.running THEN <<"in", "mt">> ELSE At(t)
        /\ \A t \in Threads : call'[t] = IF t = os.running THEN c ELSE call[t]
        /\ Going(Senders)' = Going(Senders) /\ mq' = mq
    <3>1. c.kind \notin Senders
      BY <1>4 DEF Senders
    <3> QED BY <1>4, <3>1, KindsDiffer, BlockEffect
  <2>2. WaitInv'
    BY <1>2, <1>4, <2>1, KindsDiffer
  <2>3. Going(Receivers)' \subseteq Going(Receivers)
    BY <2>1 DEF Going
  <2>4. Cardinality(Going(Receivers)') \in Nat
    BY <1>1, <2>3, FS_Subset, FS_CardinalityType
  <2>5. mq'.validCount <= Cardinality(Going(Receivers)')
    BY <1>1, <1>4, <2>1, <2>4 DEF Empty
  <2>6. (\E t \in Threads : At(t)' = <<"in", "full">>) => \E t \in Threads : At(t) = <<"in", "full">>
    BY <2>1
  <2>7. (\E t \in Threads : At(t)' = <<"in", "full">>)
        => msgCount - mq'.validCount <= Cardinality(Going(Senders)')
    BY <2>1, <2>6 DEF WakeInv
  <2> QED BY <2>2, <2>5, <2>7 DEF WakeInv
<1> QED BY <1>3, <1>4

\* A step that leaves the queue alone, blocks no thread and takes none off the processor.
LEMMA OtherSteps ==
    ASSUME MqOK, ThreadInv, WaitInv, WakeInv, mq' = mq,
           \A t \in Threads :
              \/ At(t)' = At(t) /\ call'[t] = call[t]
              \/ /\ At(t) \in {<<"gone", "NULL">>, <<"stopped", "NULL">>}
                 /\ At(t)' \in {<<"in", "run">>, <<"stopped", "NULL">>}
                 /\ call'[t] \in {call[t], None}
    PROVE  WaitInv' /\ WakeInv'
<1>1. WaitInv'
  <2> SUFFICES ASSUME NEW t \in Threads PROVE ThreadWait(At(t)', call'[t])
    BY DEF WaitInv
  <2>1. ThreadWait(At(t), call[t])
    BY DEF WaitInv
  <2>2. CASE At(t)' = At(t) /\ call'[t] = call[t]
    BY <2>1, <2>2
  <2>3. CASE At(t)' \in {<<"in", "run">>, <<"stopped", "NULL">>} /\ call'[t] \in {call[t], None}
    <3>1. \A q \in Queues : q # "NULL"
      BY ThreadAssumption DEF Queues
    <3> QED BY <2>1, <2>3, <3>1 DEF ThreadWait
  <2> QED BY <2>2, <2>3
<1>2. ASSUME NEW K PROVE Going(K) \subseteq Going(K)' /\ Going(K)' \subseteq Threads
  BY DEF Going
<1>3. ASSUME NEW K
      PROVE  /\ Cardinality(Going(K)) \in Nat /\ Cardinality(Going(K)') \in Nat
             /\ Cardinality(Going(K)) <= Cardinality(Going(K)')
  <2>1. IsFiniteSet(Going(K)')
    BY <1>2, ThreadAssumption, FS_Subset
  <2>2. Cardinality(Going(K)) <= Cardinality(Going(K)')
    BY <1>2, <2>1, FS_Subset
  <2>3. Cardinality(Going(K)') \in Nat
    BY <2>1, FS_CardinalityType
  <2> QED BY <2>2, <2>3, GoingFinite
<1>4. ASSUME NEW w \in {"full", "mt"}, \E t \in Threads : At(t)' = <<"in", w>>
      PROVE  \E t \in Threads : At(t) = <<"in", w>>
  BY <1>4
<1>5. mq.validCount \in Nat
  BY QueueAssumption DEF MqOK
<1>6. (\E t \in Threads : At(t)' = <<"in", "full">>)
      => msgCount - mq'.validCount <= Cardinality(Going(Senders)')
  <2>1. Cardinality(Going(Senders)) <= Cardinality(Going(Senders)')
        /\ Cardinality(Going(Senders)) \in Nat /\ Cardinality(Going(Senders)') \in Nat
    BY <1>3
  <2> QED BY <1>4, <1>5, <2>1, KindsDiffer DEF WakeInv
<1>7. (\E t \in Threads : At(t)' = <<"in", "mt">>)
      => mq'.validCount <= Cardinality(Going(Receivers)')
  <2>1. Cardinality(Going(Receivers)) <= Cardinality(Going(Receivers)')
        /\ Cardinality(Going(Receivers)) \in Nat /\ Cardinality(Going(Receivers)') \in Nat
    BY <1>3
  <2> QED BY <1>4, <1>5, <2>1 DEF WakeInv
<1> QED BY <1>1, <1>6, <1>7 DEF WakeInv

\* A turn of the running thread through a call.
LEMMA CallWakes ==
    ASSUME Steady, MqOK, ThreadInv, WaitInv, WakeInv, os.running # Idle,
           NEW c \in CallType, MesgCall(c),
           \/ call[os.running] = c
           \/ call[os.running] = None /\ <<c.kind, c.block>> \in Calls[os.running]
    PROVE  WaitInv' /\ WakeInv'
<1>1. /\ os.running \in Threads /\ call \in [Threads -> CallType \cup {None}]
      /\ c # None /\ c.kind \in Kinds /\ c.block \in BOOLEAN
      /\ mq \in [first : Slots, validCount : 0..msgCount, msg : [Slots -> Mesgs]]
  BY RunsAt DEF CallType, None, Kinds, MqOK
<1>2. c.kind = "peek" => call[os.running] = None /\ ~c.block
  <2>1. ThreadWait(At(os.running), call[os.running])
    BY <1>1 DEF WaitInv
  <2> QED BY <1>1, <2>1 DEF ThreadWait, Steady
<1>3. call[os.running] # None => call[os.running].kind = c.kind /\ c.block
  BY <1>1 DEF WaitInv, ThreadWait
<1>4. ASSUME NEW q \in WaitQueues, WaitIn(q, c), ~c.block PROVE WaitInv' /\ WakeInv'
  <2>1. call[os.running] = None /\ Return /\ os' = os /\ mq' = mq
    BY <1>1, <1>3, <1>4 DEF WaitIn
  <2>2. \A t \in Threads : At(t)' = At(t) /\ call'[t] = call[t]
    BY <1>1, <2>1 DEF Return, At
  <2> QED BY <2>1, <2>2, OtherSteps
<1>5. CASE c.kind \in Senders
  <2>1. \/ Full /\ WaitIn("full", c)
        \/ /\ WakeOne("mt") /\ Return
           /\ mq'.validCount = mq.validCount + 1
    <3>1. SendMesg(c) \/ JamMesg(c)
      BY <1>5 DEF MesgCall, Senders
    <3>2. ASSUME NEW m, Put(m) \/ PutFront(m) PROVE mq'.validCount = mq.validCount + 1
      BY <3>2 DEF Put, PutFront
    <3> QED BY <3>1, <3>2 DEF SendMesg, JamMesg
  <2>2. CASE Full /\ WaitIn("full", c)
    BY <1>1, <1>4, <1>5, <2>2, BlockWakes, KindsDiffer
  <2>3. CASE WakeOne("mt") /\ Return /\ mq'.validCount = mq.validCount + 1
    BY <1>1, <1>3, <1>5, <2>3, PutWakes, WakeEffect, KindsDiffer
  <2> QED BY <2>1, <2>2, <2>3
<1>6. CASE c.kind = "recv"
  <2>1. \/ Empty /\ WaitIn("mt", c)
        \/ /\ WakeOne("full") /\ Return
           /\ mq'.validCount = mq.validCount - 1 /\ ~Empty
    BY <1>6 DEF MesgCall, RecvMesg, Take
  <2>2. CASE Empty /\ WaitIn("mt", c)
    BY <1>1, <1>4, <1>6, <2>2, BlockWakes, KindsDiffer
  <2>3. CASE WakeOne("full") /\ Return /\ mq'.validCount = mq.validCount - 1 /\ ~Empty
    BY <1>1, <1>3, <1>6, <2>3, TakeWakes, WakeEffect, KindsDiffer DEF Receivers, Empty
  <2> QED BY <2>1, <2>2, <2>3
<1>7. CASE c.kind = "peek"
  <2>1. \/ Empty /\ WaitIn("mt", c)
        \/ WakeOne("full") /\ Return /\ UNCHANGED mq
    BY <1>7 DEF MesgCall, PeekMesg
  <2>2. CASE Empty /\ WaitIn("mt", c)
    BY <1>2, <1>4, <1>7, <2>2, KindsDiffer
  <2>3. CASE WakeOne("full") /\ Return /\ UNCHANGED mq
    BY <1>2, <1>7, <2>3, PeekWakes, WakeEffect, KindsDiffer
  <2> QED BY <2>1, <2>2, <2>3
<1> QED BY <1>1, <1>5, <1>6, <1>7 DEF Kinds, Senders

\* An interrupt wakes a receiver like a sender does.
LEMMA EventWakes ==
    ASSUME MqOK, ThreadInv, WaitInv, WakeInv, NEW m \in Mesgs, EventMesg(m)
    PROVE  WaitInv' /\ WakeInv'
<1>1. Woke("mt")
  BY WakeEffect, KindsDiffer DEF EventMesg
<1>2. os.running \in Threads /\ call \in [Threads -> CallType \cup {None}]
  BY RunsAt DEF MqOK
<1>3. Return
  BY <1>2 DEF EventMesg, Return
<1>4. mq'.validCount = mq.validCount + 1
  BY DEF EventMesg, Put
<1> QED BY <1>1, <1>3, <1>4, PutWakes DEF EventMesg

\* What else the running thread may do when no thread is stopped or destroyed.
LEMMA ControlWakes ==
    ASSUME Steady, MqOK, ThreadInv, WaitInv, WakeInv, ControlStep
    PROVE  WaitInv' /\ WakeInv'
<1>1. /\ ThreadsOK(os) /\ os.active \subseteq Threads
      /\ call \in [Threads -> CallType \cup {None}] /\ mq' = mq
  BY ThreadsType DEF ThreadInv, ThreadsOK, MqOK, ControlStep, Start, Stop, Destroy, Create, SetPri,
                     Yield, Control
<1>2. ASSUME Stays(os, os'), call' = call PROVE WaitInv' /\ WakeInv'
  BY <1>1, <1>2, OtherSteps DEF Stays, At
<1>3. ASSUME NEW t \in Threads \ {Idle}, Start(t) PROVE WaitInv' /\ WakeInv'
  <2>1. t \in os.active /\ os.state[t] = "STOPPED" /\ os' = StartThread(os, t) /\ call' = call
    BY <1>3 DEF Start, Control
  <2>2. At(t) = <<"stopped", os.queue[t]>> /\ os.queue[t] \in Queues \cup {"NULL"}
    BY <1>1, <2>1, ThreadsType DEF At, Place, ThreadsOK, ThreadSystem
  <2>3. os.queue[t] = "NULL"
    BY <2>2 DEF WaitInv, ThreadWait
  <2>4. Moves(os, os', t, <<"in", "run">>)
    BY <1>1, <2>1, <2>3, StartMoves
  <2> QED BY <1>1, <2>1, <2>2, <2>3, <2>4, OtherSteps DEF Moves, At
<1>4. ASSUME NEW t \in Threads \ {Idle}, NEW p \in Priorities, Create(t, p)
      PROVE  WaitInv' /\ WakeInv'
  <2>1. /\ t \in Threads \ os.active /\ os' = CreateThread(os, t, p) /\ p \in Nat
        /\ call' = [call EXCEPT ![t] = None]
    BY <1>4, ThreadAssumption DEF Create, Control
  <2>2. Moves(os, os', t, <<"stopped", "NULL">>)
    BY <1>1, <2>1, CreateMoves
  <2>3. At(t) = <<"gone", "NULL">>
    BY <2>1 DEF At, Place
  <2> QED BY <1>1, <2>1, <2>2, <2>3, OtherSteps DEF Moves, At
<1>5. ASSUME NEW t \in Threads \ {Idle}, NEW p \in Priorities, SetPri(t, p)
      PROVE  WaitInv' /\ WakeInv'
  BY <1>1, <1>2, <1>5, ThreadAssumption, SetThreadPriStays DEF SetPri, Control
<1>6. ASSUME Yield PROVE WaitInv' /\ WakeInv'
  BY <1>1, <1>2, <1>6, YieldStays DEF Yield, Control
<1> QED BY <1>3, <1>4, <1>5, <1>6 DEF ControlStep, Steady, Stop, Destroy

LEMMA WakesNext ==
    ASSUME Steady, MqOK, ThreadInv, WaitInv, WakeInv, [Next]_vars PROVE WaitInv' /\ WakeInv'
<1>1. ASSUME NEW t \in Threads, ThreadStep(t) PROVE WaitInv' /\ WakeInv'
  <2>1. t = os.running /\ call[Idle] = None /\ call \in [Threads -> CallType \cup {None}]
    BY <1>1 DEF ThreadStep, ThreadInv, MqOK
  <2>2. CASE call[t] # None
    <3>1. os.running # Idle /\ call[t] \in CallType /\ MesgCall(call[t])
      BY <1>1, <2>1, <2>2 DEF ThreadStep
    <3> QED BY <2>1, <3>1, CallWakes
  <2>3. CASE call[t] = None
    <3>1. PICK c \in CallType : <<c.kind, c.block>> \in Calls[t] /\ MesgCall(c)
      BY <1>1, <2>3 DEF ThreadStep
    <3>2. os.running # Idle
      BY <2>1, <3>1, IdleAssumption
    <3> QED BY <2>1, <2>3, <3>1, <3>2, CallWakes
  <2> QED BY <2>2, <2>3
<1>2. ASSUME NEW m \in Mesgs, EventMesg(m) PROVE WaitInv' /\ WakeInv'
  BY <1>2, EventWakes
<1>3. CASE ControlStep
  BY <1>3, ControlWakes
<1>4. CASE UNCHANGED vars
  BY <1>4, OtherSteps DEF vars, At
<1> QED BY <1>1, <1>2, <1>3, <1>4 DEF Next

LEMMA InitWakes == Init => WaitInv /\ WakeInv
<1> SUFFICES ASSUME Init PROVE WaitInv /\ WakeInv
  OBVIOUS
<1>1. \A t \in Threads : At(t) = IF t = Idle THEN <<"in", "run">> ELSE <<"gone", "NULL">>
  BY ThreadAssumption DEF Init, At, Place
<1>2. \A t \in Threads : call[t] = None
  BY DEF Init
<1>3. WaitInv
  BY <1>1, <1>2 DEF WaitInv, ThreadWait
<1>4. \A t \in Threads : At(t) # <<"in", "full">> /\ At(t) # <<"in", "mt">>
  BY <1>1
<1> QED BY <1>3, <1>4 DEF WakeInv

\* The two osStartThread calls of sendmesg.c and recvmesg.c and their while loops lose no
\* wakeup, for every capacity, every number of threads, and interrupts that post messages:
\* as long as threads wait for room (or for a message), every free slot (every message)
\* has a woken thread on its way to it.
THEOREM WakeupsReach == ASSUME Steady PROVE Spec => []NoLostWakeup
<1>1. Init => WaitInv /\ WakeInv
  BY InitWakes
<1>2. MqOK /\ ThreadInv /\ WaitInv /\ WakeInv /\ [Next]_vars => (WaitInv /\ WakeInv)'
  BY WakesNext
<1>3. MqOK /\ ThreadInv /\ WaitInv /\ WakeInv => NoLostWakeup
  BY WakeInvSuffices
<1> QED BY <1>1, <1>2, <1>3, Invariant, PTL DEF Spec

=============================================================================
