------------------------- MODULE ChaosActorsProofs -------------------------
(***************************************************************************)
(* The object slots and the chaos actors: what ObjectSlots and ChaosActors *)
(* promise, for every set of objects, codes and rooms and every number of  *)
(* slots, requests and actors.                                             *)
(***************************************************************************)
EXTENDS ChaosActors, Lists, TLAPS

-----------------------------------------------------------------------------
(* Ranks: a finite set of numbers in ascending order.                      *)

\* The rank is a number below the size of the set, greater for a greater member.
LEMMA RankGrows ==
  ASSUME NEW S, S \subseteq Nat, IsFiniteSet(S)
  PROVE  /\ Cardinality(S) \in Nat
         /\ \A x \in S : Rank(S, x) \in 0 .. Cardinality(S) - 1
         /\ \A x, y \in S : x < y => Rank(S, x) < Rank(S, y)
<1>1. Cardinality(S) \in Nat
  BY FS_CardinalityType
<1>2. ASSUME NEW x \in S PROVE Rank(S, x) \in 0 .. Cardinality(S) - 1
  <2> DEFINE A == {y \in S : y < x}
  <2>1. A \subseteq S /\ x \notin A
    OBVIOUS
  <2>2. IsFiniteSet(A) /\ Cardinality(A) \in Nat /\ Cardinality(A) <= Cardinality(S)
        /\ (Cardinality(A) = Cardinality(S) => A = S)
    BY <2>1, FS_Subset, FS_CardinalityType
  <2>3. QED BY <2>1, <2>2, <1>1 DEF Rank
<1>3. ASSUME NEW x \in S, NEW y \in S, x < y PROVE Rank(S, x) < Rank(S, y)
  <2> DEFINE A == {z \in S : z < x}
             B == {z \in S : z < y}
  <2>0. ~ (x < x) /\ \A z \in S : z < x => z < y
    <3> SUFFICES ASSUME NEW z \in S PROVE ~ (x < x) /\ (z < x => z < y)
      OBVIOUS
    <3>1. x \in Nat /\ y \in Nat /\ z \in Nat
      OBVIOUS
    <3>2. QED BY <3>1, <1>3
  <2>1. A \subseteq B /\ x \in B /\ x \notin A /\ B \subseteq S
    BY <1>3, <2>0, Zenon
  <2>2. IsFiniteSet(B)
    BY <2>1, FS_Subset
  <2>3. Cardinality(A) \in Nat /\ Cardinality(B) \in Nat /\ Cardinality(A) <= Cardinality(B)
        /\ (Cardinality(A) = Cardinality(B) => A = B)
    BY <2>1, <2>2, FS_Subset, FS_CardinalityType
  <2>4. QED BY <2>1, <2>3 DEF Rank
<1>4. QED BY <1>1, <1>2, <1>3

\* A set has exactly one member of each rank.
LEMMA NthIs ==
  ASSUME NEW S, S \subseteq Nat, IsFiniteSet(S), NEW k \in 0 .. Cardinality(S) - 1
  PROVE  Nth(S, k) \in S /\ Rank(S, Nth(S, k)) = k
<1> DEFINE n == Cardinality(S)
           T == 0 .. n - 1
           f == [x \in S |-> Rank(S, x)]
<1>1. n \in Nat /\ \A x \in S : Rank(S, x) \in T
  BY RankGrows
<1>2. f \in [S -> T]
  BY <1>1
<1>3. \A x, y \in S : f[x] = f[y] => x = y
  <2> TAKE x, y \in S
  <2>1. x \in Nat /\ y \in Nat /\ Rank(S, x) \in Int /\ Rank(S, y) \in Int
    BY <1>1
  <2>2. (x < y => Rank(S, x) < Rank(S, y)) /\ (y < x => Rank(S, y) < Rank(S, x))
    BY RankGrows
  <2>3. QED BY <2>1, <2>2
<1>4. IsFiniteSet(T) /\ Cardinality(T) = n
  <2>1. 0 \in Int /\ n - 1 \in Int
    BY <1>1
  <2>2. IsFiniteSet(T) /\ Cardinality(T) = IF 0 > n - 1 THEN 0 ELSE (n - 1) - 0 + 1
    BY <2>1, FS_Interval
  <2>3. QED BY <2>2, <1>1
<1> DEFINE R == {f[x] : x \in S}
<1> HIDE DEF f, T
<1>5. R \subseteq T
  BY <1>2
<1>6. IsFiniteSet(R) /\ Cardinality(R) = n
  <2>1. f \in Bijection(S, R)
    BY <1>2, <1>3 DEF Bijection, Injection, Surjection, IsInjective
  <2>2. QED BY <2>1, FS_Bijection DEF ExistsBijection
<1>7. R = T
  BY <1>4, <1>5, <1>6, FS_Subset
<1>8. k \in T
  BY DEF T
<1>9. \E x \in S : Rank(S, x) = k
  BY <1>7, <1>8 DEF R, f
<1>10. QED BY <1>9 DEF Nth

\* A rank tells who has it.
LEMMA NthOfRank ==
  ASSUME NEW S, S \subseteq Nat, IsFiniteSet(S), NEW x \in S
  PROVE  /\ Nth(S, Rank(S, x)) = x
         /\ \A y \in S : Rank(S, x) = Rank(S, y) => x = y
<1>1. \A y \in S : Rank(S, x) = Rank(S, y) => x = y
  <2> TAKE y \in S
  <2>0. Rank(S, x) \in 0 .. Cardinality(S) - 1 /\ Rank(S, y) \in 0 .. Cardinality(S) - 1
    BY RankGrows
  <2>1. x \in Nat /\ y \in Nat /\ Rank(S, x) \in Int /\ Rank(S, y) \in Int
    BY <2>0
  <2>2. (x < y => Rank(S, x) < Rank(S, y)) /\ (y < x => Rank(S, y) < Rank(S, x))
    BY RankGrows
  <2>3. QED BY <2>1, <2>2
<1>2. Rank(S, x) \in 0 .. Cardinality(S) - 1
  BY RankGrows
<1>3. Nth(S, Rank(S, x)) \in S /\ Rank(S, Nth(S, Rank(S, x))) = Rank(S, x)
  BY <1>2, NthIs
<1>4. QED BY <1>1, <1>3

-----------------------------------------------------------------------------
(* The ring of requests.                                                   *)

\* Turning a ring of n places once.
Wrap(n, x) == IF x < n THEN x ELSE x - n

LEMMA ModIsWrap ==
  ASSUME NEW n \in Nat \ {0}, NEW x \in 0 .. 2 * n - 1
  PROVE  x % n = Wrap(n, x) /\ x % n \in 0 .. n - 1
<1>1. CASE x < n
  BY <1>1, SMT DEF Wrap
<1>2. CASE x >= n
  <2>1. x - n \in 0 .. n - 1
    BY <1>2
  <2>2. x % n = x - n
    BY <2>1, SMT
  <2>3. QED BY <1>2, <2>1, <2>2 DEF Wrap
<1>3. QED BY <1>1, <1>2

\* The place of the oldest of p requests when n is the next, of the k-th of them, and of the
\* c-th new one after them.
Oldest(n, p) == n - p + (IF n < p THEN MAX_OBJECT_REQUESTS ELSE 0)
At(n, p, k) == (Oldest(n, p) + k - 1) % MAX_OBJECT_REQUESTS
Behind(n, c) == (n + c) % MAX_OBJECT_REQUESTS

LEMMA PlacesAre ==
  ASSUME NEW n \in Requests, NEW p \in 0 .. MAX_OBJECT_REQUESTS
  PROVE  /\ Oldest(n, p) \in Requests
         /\ \A k \in 1 .. p : /\ At(n, p, k) = Wrap(MAX_OBJECT_REQUESTS, Oldest(n, p) + k - 1)
                              /\ At(n, p, k) \in Requests
         /\ \A i, j \in 1 .. p : At(n, p, i) = At(n, p, j) => i = j
         /\ \A c \in 0 .. MAX_OBJECT_REQUESTS : Behind(n, c) = Wrap(MAX_OBJECT_REQUESTS, n + c)
                                                /\ Behind(n, c) \in Requests
<1> DEFINE M == MAX_OBJECT_REQUESTS
<1> USE ObjectsAssumption DEF Requests
<1>1. Oldest(n, p) \in Requests
  BY DEF Oldest
<1>2. ASSUME NEW k \in 1 .. p
      PROVE  At(n, p, k) = Wrap(M, Oldest(n, p) + k - 1) /\ At(n, p, k) \in Requests
  <2>1. Oldest(n, p) + k - 1 \in 0 .. 2 * M - 1
    BY <1>1
  <2>2. QED BY <2>1, ModIsWrap DEF At
<1>3. ASSUME NEW i \in 1 .. p, NEW j \in 1 .. p, At(n, p, i) = At(n, p, j) PROVE i = j
  <2>1. Wrap(M, Oldest(n, p) + i - 1) = Wrap(M, Oldest(n, p) + j - 1)
    BY <1>2, <1>3
  <2>2. QED BY <2>1, <1>1 DEF Wrap
<1>4. ASSUME NEW c \in 0 .. M PROVE Behind(n, c) = Wrap(M, n + c) /\ Behind(n, c) \in Requests
  <2>1. n + c \in 0 .. 2 * M - 1
    OBVIOUS
  <2>2. QED BY <2>1, ModIsWrap DEF Behind
<1>5. QED BY <1>1, <1>2, <1>3, <1>4

\* The first a of p requests are done with and c new ones are made, so that m is the next:
\* the others follow each other as they did, and the new ones come behind them.
Follow(n, p, a, c, m) ==
    /\ m \in Requests
    /\ \A k \in 1 .. p - a : At(m, p - a + c, k) = At(n, p, k + a)
    /\ \A k \in 1 .. c : At(m, p - a + c, p - a + k) = Behind(n, k - 1)

LEMMA RingTurns ==
  ASSUME NEW n \in Requests, NEW p \in 0 .. MAX_OBJECT_REQUESTS, NEW a \in 0 .. p,
         NEW c \in 0 .. MAX_OBJECT_REQUESTS - (p - a), NEW m, m = Behind(n, c)
  PROVE  Follow(n, p, a, c, m)
<1> DEFINE M == MAX_OBJECT_REQUESTS
           q == p - a + c
<1> USE ObjectsAssumption DEF Requests
<1>1. q \in 0 .. M /\ c \in 0 .. M
  OBVIOUS
<1>2. m \in Requests /\ m = Wrap(M, n + c)
  BY <1>1, PlacesAre
<1>3. /\ \A k \in 1 .. q : At(m, q, k) = Wrap(M, Oldest(m, q) + k - 1)
      /\ \A k \in 1 .. p : At(n, p, k) = Wrap(M, Oldest(n, p) + k - 1)
      /\ \A k \in 0 .. M : Behind(n, k) = Wrap(M, n + k)
  BY <1>1, <1>2, PlacesAre
<1>4. ASSUME NEW k \in 1 .. p - a PROVE At(m, q, k) = At(n, p, k + a)
  <2>1. k \in 1 .. q /\ k + a \in 1 .. p
    OBVIOUS
  <2>2. At(m, q, k) = Wrap(M, Oldest(m, q) + k - 1) /\ At(n, p, k + a) = Wrap(M, Oldest(n, p) + (k + a) - 1)
    BY <1>3, <2>1
  <2>3. Wrap(M, Oldest(m, q) + k - 1) = Wrap(M, Oldest(n, p) + (k + a) - 1)
    BY <1>2, <2>1 DEF Wrap, Oldest
  <2>4. QED BY <2>2, <2>3
<1>5. ASSUME NEW k \in 1 .. c PROVE At(m, q, p - a + k) = Behind(n, k - 1)
  <2>1. p - a + k \in 1 .. q /\ k - 1 \in 0 .. M
    OBVIOUS
  <2>2. At(m, q, p - a + k) = Wrap(M, Oldest(m, q) + (p - a + k) - 1) /\ Behind(n, k - 1) = Wrap(M, n + (k - 1))
    BY <1>3, <2>1
  <2>3. Wrap(M, Oldest(m, q) + (p - a + k) - 1) = Wrap(M, n + (k - 1))
    BY <1>2, <2>1 DEF Wrap, Oldest
  <2>4. QED BY <2>2, <2>3
<1>6. QED BY <1>2, <1>4, <1>5 DEF Follow

\* What the ring says of the requests in flight.
LEMMA OutstandingIs ==
  ASSUME ObjectTypeOK
  PROVE  /\ pending_request_count \in Nat /\ DOMAIN Outstanding = 1 .. pending_request_count
         /\ \A k \in 1 .. pending_request_count :
               /\ Outstanding[k] = At(next_available_request, pending_request_count, k)
               /\ Outstanding[k] \in Requests
         /\ \A i, j \in 1 .. pending_request_count : Outstanding[i] = Outstanding[j] => i = j
<1>1. next_available_request \in Requests /\ pending_request_count \in 0 .. MAX_OBJECT_REQUESTS
  BY DEF ObjectTypeOK
<1>2. DOMAIN Outstanding = 1 .. pending_request_count
  BY DEF Outstanding
<1>3. \A k \in 1 .. pending_request_count :
        Outstanding[k] = At(next_available_request, pending_request_count, k)
  BY DEF Outstanding, At, FirstRequest, Oldest
<1>4. pending_request_count \in Nat
  BY <1>1, ObjectsAssumption
<1>5. /\ \A k \in 1 .. pending_request_count :
            At(next_available_request, pending_request_count, k) \in Requests
      /\ \A i, j \in 1 .. pending_request_count :
            At(next_available_request, pending_request_count, i)
               = At(next_available_request, pending_request_count, j) => i = j
  BY <1>1, PlacesAre
<1>6. QED BY <1>2, <1>3, <1>4, <1>5

\* Finished is the number of messages before the first that has not come.
LEMMA FinishedIs ==
  ASSUME ObjectTypeOK
  PROVE  /\ Finished \in 0 .. pending_request_count
         /\ \A k \in 1 .. Finished : load_requests[Outstanding[k]].done
         /\ Finished < pending_request_count => ~load_requests[Outstanding[Finished + 1]].done
<1> DEFINE p == pending_request_count
           D(k) == load_requests[Outstanding[k]].done
           T == {n \in 0 .. p : n < p => ~D(n + 1)}
<1>1. p \in Nat
  BY OutstandingIs
<1>2. p \in T /\ T \subseteq Nat
  BY <1>1
<1> HIDE DEF p, D
<1>3. PICK x \in T : \A y \in T : x <= y
  BY <1>2, LeastNat
<1>4. \A k \in 1 .. x : D(k)
  <2> SUFFICES ASSUME NEW k \in 1 .. x, ~D(k) PROVE FALSE
    OBVIOUS
  <2>1. k - 1 \in 0 .. p /\ k - 1 + 1 = k
    BY <1>1, <1>3
  <2>2. k - 1 \in T
    BY <2>1
  <2>3. x <= k - 1
    BY <2>2, <1>3
  <2>4. QED BY <2>3, <1>3, <1>2
<1>5. x \in 0 .. p /\ (\A k \in 1 .. x : D(k)) /\ (x < p => ~D(x + 1))
  BY <1>3, <1>4
<1>6. QED BY <1>5 DEF Finished, p, D

\* The slots for which requests are issued; the ring has room for them.
Issued == Sized(Served)

LEMMA IssuedAre ==
  ASSUME ObjectTypeOK
  PROVE  /\ Issued \subseteq Slots /\ Issued \subseteq Nat /\ IsFiniteSet(Issued)
         /\ Cardinality(Issued) \in 0 .. MAX_OBJECT_REQUESTS - (pending_request_count - Finished)
         /\ \A s \in Issued : /\ s < numEntries /\ IdAfterLoads(s) < 0
                              /\ ~slots[s].load_pending /\ AbsId(s) \notin Sizeless
<1> DEFINE room == MAX_OBJECT_REQUESTS - (pending_request_count - Finished)
           W == Sized(Wanting)
<1>1. numEntries \in Nat /\ numEntries <= MaxSlots /\ MaxSlots \in Nat
  BY ObjectsAssumption DEF ObjectTypeOK, NumPersistent, ChaosSlot
<1>2. Wanting \subseteq Slots /\ Wanting \subseteq 0 .. numEntries - 1
  BY <1>1 DEF Wanting, Slots
<1>3. IsFiniteSet(0 .. numEntries - 1)
  <2>1. 0 \in Int /\ numEntries - 1 \in Int
    BY <1>1
  <2>2. QED BY <2>1, FS_Interval
<1>4. W \subseteq Wanting /\ Issued \subseteq W /\ Issued \subseteq Served /\ Served \subseteq Wanting
  BY DEF Issued, Sized, Served
<1>5. Issued \subseteq Slots /\ Issued \subseteq Nat /\ IsFiniteSet(Issued) /\ IsFiniteSet(W)
  <2>1. Issued \subseteq Slots /\ Slots \subseteq Nat
    BY <1>2, <1>4 DEF Slots
  <2>2. W \subseteq 0 .. numEntries - 1 /\ Issued \subseteq 0 .. numEntries - 1
    BY <1>2, <1>4
  <2>3. IsFiniteSet(Issued) /\ IsFiniteSet(W)
    BY <2>2, <1>3, FS_Subset
  <2>4. QED BY <2>1, <2>3
<1>6. \A s \in Issued : /\ s < numEntries /\ IdAfterLoads(s) < 0
                        /\ ~slots[s].load_pending /\ AbsId(s) \notin Sizeless
  BY <1>1, <1>4 DEF Wanting, Issued, Sized
<1>7. Cardinality(Issued) \in Nat /\ room \in Nat
  BY <1>5, FinishedIs, FS_CardinalityType, ObjectsAssumption DEF ObjectTypeOK
<1>8. Cardinality(Issued) <= room
  <2>1. CASE Cardinality(Issued) = 0
    BY <2>1, <1>7
  <2>2. CASE Cardinality(Issued) # 0
    <3> DEFINE x == Nth(Issued, Cardinality(Issued) - 1)
               B == {t \in W : t <= x}
    <3>1. x \in Issued /\ Rank(Issued, x) = Cardinality(Issued) - 1
      <4>1. Cardinality(Issued) - 1 \in 0 .. Cardinality(Issued) - 1
        BY <2>2, <1>7
      <4>2. QED BY <4>1, <1>5, NthIs
    <3> HIDE DEF x
    <3>2. \A t \in Issued : t <= x
      <4> SUFFICES ASSUME NEW t \in Issued, x < t PROVE FALSE
        BY <3>1, <1>5
      <4>1. Rank(Issued, x) < Rank(Issued, t) /\ Rank(Issued, t) \in 0 .. Cardinality(Issued) - 1
        BY <1>5, <3>1, RankGrows
      <4>2. QED BY <4>1, <3>1, <1>7
    <3>3. Issued \subseteq B /\ B \subseteq W
      BY <3>2, <1>4
    <3>4. IsFiniteSet(B) /\ Cardinality(Issued) <= Cardinality(B) /\ Cardinality(B) \in Nat
      BY <3>3, <1>5, FS_Subset, FS_CardinalityType
    <3>5. Cardinality(B) <= room
      BY <3>1, <1>4 DEF Served
    <3>6. QED BY <3>4, <3>5, <1>7
  <2>3. QED BY <2>1, <2>2
<1>9. QED BY <1>5, <1>6, <1>7, <1>8

\* What Object_UpdateEntries does to the ring: the finished requests leave it and the new
\* ones, in the order of their slots, come behind the others.
LEMMA RingUpdate ==
  ASSUME ObjectTypeOK, UpdateEntries
  PROVE  /\ next_available_request' \in Requests
         /\ pending_request_count' = pending_request_count - Finished + Cardinality(Issued)
         /\ pending_request_count' \in 0 .. MAX_OBJECT_REQUESTS
         /\ DOMAIN Outstanding' = 1 .. pending_request_count'
         /\ \A k \in 1 .. pending_request_count - Finished :
               Outstanding'[k] = Outstanding[k + Finished]
         /\ \A k \in 1 .. Cardinality(Issued) :
               Outstanding'[pending_request_count - Finished + k] = RequestOf(Nth(Issued, k - 1))
         /\ \A i, j \in 1 .. pending_request_count' : Outstanding'[i] = Outstanding'[j] => i = j
<1> DEFINE p == pending_request_count
           n == next_available_request
           a == Finished
           c == Cardinality(Issued)
<1>1. n \in Requests /\ p \in 0 .. MAX_OBJECT_REQUESTS /\ MAX_OBJECT_REQUESTS \in Nat
  BY ObjectsAssumption DEF ObjectTypeOK
<1>2. a \in 0 .. p /\ c \in 0 .. MAX_OBJECT_REQUESTS - (p - a)
  BY FinishedIs, IssuedAre
<1>3. n' = Behind(n, c) /\ p' = p - a + c
  BY DEF UpdateEntries, NextRequest, Behind, Issued
<1> HIDE DEF a, c
<1>4. p' \in 0 .. MAX_OBJECT_REQUESTS /\ p' \in Nat
  BY <1>1, <1>2, <1>3
<1>5. /\ n' \in Requests
      /\ \A k \in 1 .. p - a : At(n', p - a + c, k) = At(n, p, k + a)
      /\ \A k \in 1 .. c : At(n', p - a + c, p - a + k) = Behind(n, k - 1)
  <2> DEFINE m == n'
  <2>1. m = Behind(n, c)
    BY <1>3
  <2> HIDE DEF n, p, m
  <2>2. Follow(n, p, a, c, m)
    BY <1>1, <1>2, <2>1, RingTurns
  <2>3. QED BY <2>2 DEF m, Follow
<1>6. DOMAIN Outstanding' = 1 .. p' /\ \A k \in 1 .. p' : Outstanding'[k] = At(n', p', k)
  BY DEF Outstanding, At, FirstRequest, Oldest
<1>7. \A k \in 1 .. p : Outstanding[k] = At(n, p, k)
  BY OutstandingIs
<1>8. \A k \in 1 .. p - a : Outstanding'[k] = Outstanding[k + a]
  <2> TAKE k \in 1 .. p - a
  <2>1. k \in 1 .. p' /\ k + a \in 1 .. p
    BY <1>1, <1>2, <1>3
  <2>2. QED BY <2>1, <1>3, <1>5, <1>6, <1>7
<1>9. \A k \in 1 .. c : Outstanding'[p - a + k] = RequestOf(Nth(Issued, k - 1))
  <2> TAKE k \in 1 .. c
  <2>1. p - a + k \in 1 .. p'
    BY <1>1, <1>2, <1>3
  <2>2. Outstanding'[p - a + k] = Behind(n, k - 1)
    BY <2>1, <1>3, <1>5, <1>6
  <2>3. Rank(Issued, Nth(Issued, k - 1)) = k - 1
    <3>1. k - 1 \in 0 .. Cardinality(Issued) - 1
      BY <1>1, <1>2 DEF c
    <3>2. QED BY <3>1, IssuedAre, NthIs
  <2>4. RequestOf(Nth(Issued, k - 1)) = Behind(n, k - 1)
    BY <2>3 DEF RequestOf, NextRequest, Behind, Issued
  <2>5. QED BY <2>2, <2>4
<1>10. \A i, j \in 1 .. p' : Outstanding'[i] = Outstanding'[j] => i = j
  <2>1. \A i, j \in 1 .. p' : At(n', p', i) = At(n', p', j) => i = j
    BY <1>4, <1>5, PlacesAre
  <2>2. QED BY <2>1, <1>6
<1>11. QED BY <1>3, <1>4, <1>5, <1>6, <1>8, <1>9, <1>10 DEF a, c

\* What it does to the requests themselves.
LEMMA RequestsUpdate ==
  ASSUME ObjectTypeOK, UpdateEntries
  PROVE  /\ load_requests' \in [Requests -> [slot : Slots, done : BOOLEAN]]
         /\ \A k \in 1 .. pending_request_count - Finished :
               load_requests'[Outstanding'[k]] = load_requests[Outstanding[k + Finished]]
         /\ \A k \in 1 .. Cardinality(Issued) :
               load_requests'[Outstanding'[pending_request_count - Finished + k]]
                  = [slot |-> Nth(Issued, k - 1), done |-> FALSE]
<1> DEFINE p == pending_request_count
           a == Finished
           c == Cardinality(Issued)
<1>1. p \in Nat /\ a \in 0 .. p /\ c \in Nat
  BY FinishedIs, IssuedAre, OutstandingIs, FS_CardinalityType
<1>2. Issued \subseteq Slots /\ Issued \subseteq Nat /\ IsFiniteSet(Issued)
  BY IssuedAre
<1>3. load_requests' = [r \in Requests |->
                           IF \E s \in Issued : RequestOf(s) = r
                           THEN [slot |-> CHOOSE s \in Issued : RequestOf(s) = r, done |-> FALSE]
                           ELSE load_requests[r]]
  BY DEF UpdateEntries, Issued
<1>4. load_requests' \in [Requests -> [slot : Slots, done : BOOLEAN]]
  <2>1. \A r \in Requests : (\E s \in Issued : RequestOf(s) = r)
                               => (CHOOSE s \in Issued : RequestOf(s) = r) \in Slots
    BY <1>2
  <2>2. \A r \in Requests : load_requests[r] \in [slot : Slots, done : BOOLEAN]
    BY DEF ObjectTypeOK
  <2>3. QED BY <1>3, <2>1, <2>2
\* A request that is issued is known by its place.
<1>5. \A s \in Issued : \E k \in 1 .. c : /\ s = Nth(Issued, k - 1)
                                          /\ RequestOf(s) = Outstanding'[p - a + k]
  <2> TAKE s \in Issued
  <2>1. Rank(Issued, s) \in 0 .. c - 1 /\ Nth(Issued, Rank(Issued, s)) = s
    BY <1>2, RankGrows, NthOfRank
  <2> DEFINE k == Rank(Issued, s) + 1
  <2>2. k \in 1 .. c /\ k - 1 = Rank(Issued, s)
    BY <2>1, <1>1
  <2>3. s = Nth(Issued, k - 1)
    BY <2>1, <2>2
  <2> HIDE DEF k
  <2>4. Outstanding'[p - a + k] = RequestOf(s)
    BY <2>2, <2>3, RingUpdate
  <2>5. QED BY <2>2, <2>3, <2>4
<1>6. p' = p - a + c /\ \A i, j \in 1 .. p' : Outstanding'[i] = Outstanding'[j] => i = j
  BY RingUpdate
<1>7. ASSUME NEW k \in 1 .. p - a
      PROVE  load_requests'[Outstanding'[k]] = load_requests[Outstanding[k + a]]
  <2>1. k + a \in 1 .. p /\ k \in 1 .. p'
    BY <1>1, <1>6
  <2>2. Outstanding'[k] = Outstanding[k + a] /\ Outstanding[k + a] \in Requests
    BY <2>1, OutstandingIs, RingUpdate
  <2>3. ~ \E s \in Issued : RequestOf(s) = Outstanding'[k]
    <3> SUFFICES ASSUME NEW s \in Issued, RequestOf(s) = Outstanding'[k] PROVE FALSE
      OBVIOUS
    <3>1. PICK j \in 1 .. c : Outstanding'[p - a + j] = Outstanding'[k]
      BY <1>5
    <3>2. p - a + j \in 1 .. p' /\ p - a + j # k
      BY <1>1, <1>6
    <3>3. QED BY <3>1, <3>2, <2>1, <1>6
  <2>4. QED BY <1>3, <2>2, <2>3
<1>8. ASSUME NEW k \in 1 .. c
      PROVE  load_requests'[Outstanding'[p - a + k]] = [slot |-> Nth(Issued, k - 1), done |-> FALSE]
  <2> DEFINE x == Nth(Issued, k - 1)
             r == Outstanding'[p - a + k]
  <2>1. p - a + k \in 1 .. p' /\ r = RequestOf(x)
    BY <1>1, <1>6, RingUpdate
  <2>2. x \in Issued
    <3>1. k - 1 \in 0 .. Cardinality(Issued) - 1
      BY <1>1
    <3>2. QED BY <3>1, <1>2, NthIs
  <2>3. \A s \in Issued : RequestOf(s) = r => s = x
    <3> SUFFICES ASSUME NEW s \in Issued, RequestOf(s) = r PROVE s = x
      OBVIOUS
    <3>1. PICK j \in 1 .. c : s = Nth(Issued, j - 1) /\ RequestOf(s) = Outstanding'[p - a + j]
      BY <1>5
    <3>2. p - a + j \in 1 .. p'
      BY <1>1, <1>6
    <3>3. p - a + j = p - a + k
      BY <3>1, <3>2, <2>1, <1>6
    <3>4. j = k
      BY <3>3, <1>1
    <3>5. QED BY <3>1, <3>4
  <2>4. r \in Requests
    <3>1. /\ next_available_request' \in Requests /\ p' \in 0 .. MAX_OBJECT_REQUESTS
          /\ Outstanding'[p - a + k] = At(next_available_request', p', p - a + k)
      BY <2>1, RingUpdate DEF Outstanding, At, FirstRequest, Oldest
    <3>2. QED BY <3>1, <2>1, PlacesAre
  <2> HIDE DEF x, r
  <2>5. (CHOOSE s \in Issued : RequestOf(s) = r) = x
    BY <2>1, <2>2, <2>3
  <2>6. load_requests'[r] = [slot |-> x, done |-> FALSE]
    BY <1>3, <2>1, <2>2, <2>4, <2>5
  <2>7. QED BY <2>6 DEF x, r
<1>9. QED BY <1>4, <1>7, <1>8

\* What an id of a slot can be.
Ids == Objects \cup {-o : o \in Objects} \cup {0}

LEMMA IdsAre ==
  ASSUME ObjectTypeOK, NEW s \in Slots
  PROVE  /\ slots[s].id \in Ids /\ slots[s].id \in Int /\ slots[s].load_pending \in BOOLEAN
         /\ slots[s] = [id |-> slots[s].id, load_pending |-> slots[s].load_pending]
         /\ -slots[s].id \in Ids
         /\ AbsId(s) \in Objects \cup {0} /\ AbsId(s) \in Nat
         /\ slots[s].id # 0 => AbsId(s) \in Objects
         /\ slots[s].id < 0 => AbsId(s) = -slots[s].id
         /\ slots[s].id >= 0 => AbsId(s) = slots[s].id
<1>1. slots[s] \in [id : Ids, load_pending : BOOLEAN]
  BY DEF ObjectTypeOK, Ids
<1>2. slots[s].id \in Ids /\ slots[s].load_pending \in BOOLEAN
      /\ slots[s] = [id |-> slots[s].id, load_pending |-> slots[s].load_pending]
  BY <1>1
<1> DEFINE x == slots[s].id
<1>3. x \in Ids
  BY <1>2
<1> HIDE DEF x
<1>4. /\ x \in Int /\ -x \in Ids
      /\ (IF x < 0 THEN -x ELSE x) \in Objects \cup {0}
      /\ (IF x < 0 THEN -x ELSE x) \in Nat
      /\ x # 0 => (IF x < 0 THEN -x ELSE x) \in Objects
  <2>1. CASE x \in Objects
    <3>1. x \in Nat \ {0}
      BY <2>1, ObjectsAssumption
    <3>2. ~ (x < 0) /\ -x \in Ids
      BY <3>1, <2>1 DEF Ids
    <3>3. QED BY <3>1, <3>2, <2>1
  <2>2. CASE x \in {-o : o \in Objects}
    <3>1. PICK o \in Objects : x = -o
      BY <2>2
    <3>2. o \in Nat \ {0}
      BY <3>1, ObjectsAssumption
    <3>3. x < 0 /\ -x = o /\ x \in Int
      BY <3>1, <3>2
    <3>4. o \in Ids
      BY <3>1 DEF Ids
    <3>5. QED BY <3>2, <3>3, <3>4
  <2>3. CASE x = 0
    <3>1. \A z \in Int : z <= 0 /\ z >= 0 => z \in Nat /\ ~ (z < 0) /\ -z = 0
      OBVIOUS
    <3>2. x \in Int /\ x <= 0 /\ x >= 0
      BY <2>3
    <3>3. x \in Nat /\ ~ (x < 0) /\ -x = 0
      BY <3>1, <3>2, Zenon
    <3>4. QED BY <3>3, <2>3 DEF Ids
  <2>4. QED BY <2>1, <2>2, <2>3, <1>3 DEF Ids
<1>5. AbsId(s) = IF x < 0 THEN -x ELSE x
  BY DEF AbsId, x
<1>6. /\ AbsId(s) \in Objects \cup {0} /\ AbsId(s) \in Nat
      /\ x # 0 => AbsId(s) \in Objects
      /\ x < 0 => AbsId(s) = -x
      /\ x >= 0 => AbsId(s) = x
  BY <1>4, <1>5
<1>7. x \in Int /\ -x \in Ids
  BY <1>4
<1>8. QED BY <1>2, <1>6, <1>7, Zenon DEF x

\* The ids that the type invariant allows are numbers.
LEMMA IdsIn ==
  ASSUME NEW f \in [Slots -> [id : Ids, load_pending : BOOLEAN]], NEW s \in Slots
  PROVE  f[s].id \in Int
<1>1. f[s].id \in Ids
  OBVIOUS
<1>2. Ids \subseteq Int
  <2>1. \A o \in Objects : o \in Int /\ -o \in Int
    BY ObjectsAssumption
  <2>2. QED BY <2>1 DEF Ids
<1>3. QED BY <1>1, <1>2

\* What Object_UpdateEntries does to the slots.
LEMMA SlotsUpdate ==
  ASSUME ObjectTypeOK, UpdateEntries, NEW s \in Slots
  PROVE  /\ slots'[s] \in [id : Ids, load_pending : BOOLEAN]
         /\ slots'[s].id = IF s \in Served \ Issued THEN 0 ELSE IdAfterLoads(s)
         /\ slots'[s].load_pending <=> s \in Issued \/ slots[s].load_pending
         /\ IdAfterLoads(s) \in {slots[s].id, -slots[s].id}
         /\ Turns(s) = {} => IdAfterLoads(s) = slots[s].id
         /\ (\E k \in 1 .. Finished : Turns(s) = {k}) => IdAfterLoads(s) = -slots[s].id
<1> DEFINE y == IdAfterLoads(s)
<1>1. y \in {slots[s].id, -slots[s].id}
  BY DEF IdAfterLoads
<1>2. y \in Ids /\ slots[s].load_pending \in BOOLEAN /\ 0 \in Ids
      /\ slots[s] = [id |-> slots[s].id, load_pending |-> slots[s].load_pending]
  BY <1>1, IdsAre DEF Ids
<1>3. slots'[s] = IF s \in Issued THEN [slots[s] EXCEPT !.id = IdAfterLoads(s), !.load_pending = TRUE]
                  ELSE IF s \in Served THEN [slots[s] EXCEPT !.id = 0]
                  ELSE [slots[s] EXCEPT !.id = IdAfterLoads(s)]
  BY DEF UpdateEntries, Issued
<1> HIDE DEF y
<1>4. slots'[s] = IF s \in Issued THEN [id |-> y, load_pending |-> TRUE]
                  ELSE IF s \in Served THEN [id |-> 0, load_pending |-> slots[s].load_pending]
                  ELSE [id |-> y, load_pending |-> slots[s].load_pending]
  BY <1>2, <1>3 DEF y
<1>5. /\ slots'[s] \in [id : Ids, load_pending : BOOLEAN]
      /\ slots'[s].id = IF s \in Served \ Issued THEN 0 ELSE y
      /\ slots'[s].load_pending <=> s \in Issued \/ slots[s].load_pending
  <2>0. s \in Issued => s \in Served
    BY DEF Issued, Sized
  <2>1. CASE s \in Issued
    BY <2>1, <1>4, <1>2
  <2>2. CASE s \notin Issued /\ s \in Served
    BY <2>2, <1>4, <1>2
  <2>3. CASE s \notin Issued /\ s \notin Served
    BY <2>3, <1>4, <1>2
  <2>4. QED BY <2>1, <2>2, <2>3, Zenon
<1>6. Turns(s) = {} => y = slots[s].id
  <2>1. Cardinality({}) = 0
    BY FS_EmptySet
  <2>2. QED BY <2>1 DEF y, IdAfterLoads
<1>7. (\E k \in 1 .. Finished : Turns(s) = {k}) => y = -slots[s].id
  <2> SUFFICES ASSUME NEW k \in 1 .. Finished, Turns(s) = {k} PROVE y = -slots[s].id
    OBVIOUS
  <2>1. Cardinality({k}) = 1
    BY FS_Singleton
  <2>2. QED BY <2>1 DEF y, IdAfterLoads
<1>8. QED BY <1>1, <1>5, <1>6, <1>7 DEF y

\* What it adds to the work of the DMA manager.
LEMMA DmaUpdate ==
  ASSUME ObjectTypeOK, UpdateEntries
  PROVE  /\ dma' \in Seq(DmaEntries) /\ Len(dma') = Len(dma) + Cardinality(Issued)
         /\ Len(dma) \in Nat
         /\ \A i \in 1 .. Len(dma) : dma'[i] = dma[i]
         /\ \A k \in 1 .. Cardinality(Issued) :
               dma'[Len(dma) + k]
                  = [request |-> Outstanding'[pending_request_count - Finished + k],
                     slot |-> Nth(Issued, k - 1), id |-> AbsId(Nth(Issued, k - 1))]
<1> DEFINE c == Cardinality(Issued)
           e(k) == [request |-> RequestOf(Nth(Issued, k - 1)),
                    slot |-> Nth(Issued, k - 1), id |-> AbsId(Nth(Issued, k - 1))]
           new == [k \in 1 .. c |-> e(k)]
<1>1. c \in Nat /\ dma \in Seq(DmaEntries)
  BY IssuedAre, FS_CardinalityType DEF ObjectTypeOK
<1>2. \A k \in 1 .. c : e(k) \in DmaEntries /\ e(k).request = RequestOf(Nth(Issued, k - 1))
  <2> TAKE k \in 1 .. c
  <2>1. Nth(Issued, k - 1) \in Issued /\ Rank(Issued, Nth(Issued, k - 1)) = k - 1
    <3>1. k - 1 \in 0 .. c - 1
      BY <1>1
    <3>2. QED BY <3>1, IssuedAre, NthIs
  <2> DEFINE x == Nth(Issued, k - 1)
  <2>2. x \in Slots /\ IdAfterLoads(x) < 0
    BY <2>1, IssuedAre
  <2>3. IdAfterLoads(x) \in {slots[x].id, -slots[x].id}
    BY DEF IdAfterLoads
  <2>4. slots[x].id # 0
    <3> HIDE DEF x
    <3>1. QED BY <2>2, <2>3
  <2>5. AbsId(x) \in Objects
    BY <2>2, <2>4, IdsAre
  <2>6. RequestOf(x) \in Requests
    <3>1. k - 1 \in 0 .. MAX_OBJECT_REQUESTS
      <4>1. c <= MAX_OBJECT_REQUESTS
        BY <1>1, IssuedAre, FinishedIs, ObjectsAssumption DEF ObjectTypeOK
      <4>2. QED BY <4>1, <1>1, ObjectsAssumption
    <3>2. Behind(next_available_request, k - 1) \in Requests
      BY <3>1, PlacesAre, ObjectsAssumption DEF ObjectTypeOK
    <3>3. QED BY <3>2, <2>1 DEF RequestOf, NextRequest, Behind, Issued
  <2> HIDE DEF x
  <2>7. [request |-> RequestOf(x), slot |-> x, id |-> AbsId(x)] \in DmaEntries
    BY <2>2, <2>5, <2>6 DEF DmaEntries
  <2>8. QED BY <2>7 DEF x
<1>3. dma' = dma \o new
  BY DEF UpdateEntries, Issued
<1> HIDE DEF e, c
<1>4. new \in Seq(DmaEntries) /\ Len(new) = c /\ \A k \in 1 .. c : new[k] = e(k)
  BY <1>1, <1>2
<1> HIDE DEF new
<1>5. /\ dma' \in Seq(DmaEntries) /\ Len(dma') = Len(dma) + c /\ Len(dma) \in Nat
      /\ \A i \in 1 .. Len(dma) + c : dma'[i] = IF i <= Len(dma) THEN dma[i] ELSE new[i - Len(dma)]
  <2> DEFINE old == dma
             u == old \o new
  <2>1. old \in Seq(DmaEntries)
    BY <1>1
  <2> HIDE DEF old
  <2>2. /\ u \in Seq(DmaEntries) /\ Len(u) = Len(old) + Len(new)
        /\ \A i \in 1 .. Len(old) + Len(new) : u[i] = IF i <= Len(old) THEN old[i] ELSE new[i - Len(old)]
    BY <2>1, <1>4, ConcatProperties, Zenon
  <2>3. Len(old) \in Nat
    BY <2>1, LenProperties
  <2>4. QED BY <2>2, <2>3, <1>3, <1>4 DEF old
<1>6. \A i \in 1 .. Len(dma) : dma'[i] = dma[i]
  BY <1>1, <1>5
<1>7. \A k \in 1 .. c : dma'[Len(dma) + k] = e(k)
  <2> TAKE k \in 1 .. c
  <2>1. Len(dma) + k \in 1 .. Len(dma) + c /\ ~ (Len(dma) + k <= Len(dma)) /\ Len(dma) + k - Len(dma) = k
    BY <1>1, <1>5
  <2>2. QED BY <2>1, <1>5, <1>4
<1>8. \A k \in 1 .. c : RequestOf(Nth(Issued, k - 1)) = Outstanding'[pending_request_count - Finished + k]
  BY RingUpdate DEF c
<1>9. QED BY <1>5, <1>6, <1>7, <1>8 DEF c, e

\* The new requests, and the loads for them, by their parts.
LEMMA NewRequests ==
  ASSUME ObjectTypeOK, UpdateEntries, NEW k \in 1 .. Cardinality(Issued)
  PROVE  LET s == Nth(Issued, k - 1)
             r == Outstanding'[pending_request_count - Finished + k]
             e == dma'[Len(dma) + k]
         IN /\ load_requests'[r].slot = s /\ ~load_requests'[r].done
            /\ e.request = r /\ e.slot = s /\ e.id = AbsId(s)
            /\ s \in Issued
<1> DEFINE s == Nth(Issued, k - 1)
           o == AbsId(s)
           r == Outstanding'[pending_request_count - Finished + k]
           q == load_requests'[r]
           e == dma'[Len(dma) + k]
<1>1. q = [slot |-> s, done |-> FALSE]
  BY RequestsUpdate
<1>2. e = [request |-> r, slot |-> s, id |-> o]
  BY DmaUpdate
<1>3. s \in Issued
  <2>1. Cardinality(Issued) \in Nat
    BY IssuedAre, FS_CardinalityType
  <2>2. k - 1 \in 0 .. Cardinality(Issued) - 1
    BY <2>1
  <2>3. QED BY <2>2, IssuedAre, NthIs
<1> HIDE DEF q, e, r, s, o
<1>4. q.slot = s /\ ~q.done /\ e.request = r /\ e.slot = s /\ e.id = o
  BY <1>1, <1>2
<1>5. QED BY <1>3, <1>4 DEF q, e, r, s, o

\* Object_UpdateEntries keeps the types.
LEMMA UpdateTypes ==
  ASSUME ObjectTypeOK, UpdateEntries
  PROVE  ObjectTypeOK'
<1>1. slots' \in [Slots -> [id : Ids, load_pending : BOOLEAN]]
  <2>1. slots' = [s \in Slots |-> slots'[s]]
    BY DEF UpdateEntries
  <2>2. \A s \in Slots : slots'[s] \in [id : Ids, load_pending : BOOLEAN]
    BY SlotsUpdate
  <2>3. QED BY <2>1, <2>2
<1>2. load_requests' \in [Requests -> [slot : Slots, done : BOOLEAN]]
  BY RequestsUpdate
<1>3. next_available_request' \in Requests /\ pending_request_count' \in 0 .. MAX_OBJECT_REQUESTS
  BY RingUpdate
<1>4. gLoadedObjects' \subseteq Objects \cup {0}
  <2>1. gLoadedObjects' = gLoadedObjects \cup {AbsId(s) : s \in {t \in Slots : Turns(t) # {}}}
    BY DEF UpdateEntries
  <2>2. \A s \in Slots : AbsId(s) \in Objects \cup {0}
    BY IdsAre
  <2>3. gLoadedObjects \subseteq Objects \cup {0}
    BY DEF ObjectTypeOK
  <2>4. QED BY <2>1, <2>2, <2>3
<1>5. dma' \in Seq(DmaEntries)
  BY DmaUpdate
<1>6. UNCHANGED <<numEntries, mem, overtaken>>
  BY DEF UpdateEntries
<1>7. QED BY <1>1, <1>2, <1>3, <1>4, <1>5, <1>6 DEF ObjectTypeOK, Ids

\* A load is for one request.
LEMMA OneRequest ==
  ASSUME ObjectTypeOK, NEW k, NEW i \in Waiting, NEW j \in Waiting, Serves(k, i), Serves(k, j)
  PROVE  i = j
BY OutstandingIs DEF Waiting, Serves

LEMMA UpdateKeepsOrder ==
  ASSUME ObjectTypeOK, RequestsInOrder, UpdateEntries
  PROVE  RequestsInOrder'
<1> DEFINE p == pending_request_count
           a == Finished
           c == Cardinality(Issued)
           q == p - a
           n == Len(dma)
           Serves2(k, j) == /\ dma'[k].request = Outstanding'[j]
                            /\ dma'[k].slot = load_requests'[Outstanding'[j]].slot
<1>1. p \in Nat /\ a \in 0 .. p /\ c \in Nat /\ q \in 0 .. p /\ n \in Nat
  BY FinishedIs, IssuedAre, OutstandingIs, FS_CardinalityType, DmaUpdate
<1>2. /\ p' = q + c /\ DOMAIN Outstanding' = 1 .. q + c
      /\ DOMAIN Outstanding = 1 .. p /\ DOMAIN dma = 1 .. n /\ DOMAIN dma' = 1 .. n + c
  <2>1. dma \in Seq(DmaEntries) /\ dma' \in Seq(DmaEntries) /\ Len(dma') = n + c
    BY DmaUpdate DEF ObjectTypeOK
  <2>2. QED BY <2>1, RingUpdate, OutstandingIs, LenProperties
<1>3. /\ \A k \in 1 .. q : Outstanding'[k] = Outstanding[k + a]
      /\ \A i, j \in 1 .. q + c : Outstanding'[i] = Outstanding'[j] => i = j
  BY RingUpdate
<1>4. /\ \A k \in 1 .. q : load_requests'[Outstanding'[k]] = load_requests[Outstanding[k + a]]
      /\ \A k \in 1 .. c : /\ load_requests'[Outstanding'[q + k]].slot = Nth(Issued, k - 1)
                           /\ ~load_requests'[Outstanding'[q + k]].done
  BY RequestsUpdate, NewRequests
<1>5. /\ \A i \in 1 .. n : dma'[i] = dma[i]
      /\ \A k \in 1 .. c : /\ dma'[n + k].request = Outstanding'[q + k]
                           /\ dma'[n + k].slot = Nth(Issued, k - 1)
  BY DmaUpdate, NewRequests
<1>6. \A j \in Waiting : j \in 1 .. p /\ j > a
  <2> TAKE j \in Waiting
  <2>1. j \in 1 .. p /\ ~load_requests[Outstanding[j]].done
    BY <1>2 DEF Waiting
  <2>2. j \notin 1 .. a
    BY <2>1, FinishedIs
  <2>3. QED BY <2>1, <2>2, <1>1
<1> HIDE DEF p, a, c, q, n, Serves2
<1>7. \A k \in 1 .. q : k \in Waiting' <=> k + a \in Waiting
  <2> TAKE k \in 1 .. q
  <2>1. k + a \in 1 .. p /\ k \in 1 .. q + c
    BY <1>1 DEF q
  <2>2. QED BY <2>1, <1>2, <1>4 DEF Waiting
<1>8. \A k \in 1 .. c : q + k \in Waiting'
  <2> TAKE k \in 1 .. c
  <2>1. q + k \in 1 .. q + c
    BY <1>1
  <2>2. QED BY <2>1, <1>2, <1>4 DEF Waiting
<1>9. \A j \in Waiting : j - a \in 1 .. q /\ j - a + a = j
  BY <1>1, <1>6 DEF q
<1>10. \A j \in Waiting' : j \in 1 .. q \/ \E k \in 1 .. c : j = q + k
  <2> SUFFICES ASSUME NEW j \in Waiting', j \notin 1 .. q PROVE \E k \in 1 .. c : j = q + k
    OBVIOUS
  <2>1. j \in 1 .. q + c
    BY <1>2 DEF Waiting
  <2>2. j - q \in 1 .. c /\ j = q + (j - q)
    BY <2>1, <1>1
  <2>3. QED BY <2>2
<1>11. \A k \in 1 .. n : k \in Loads' <=> k \in Loads
  <2> TAKE k \in 1 .. n
  <2>1. k \in 1 .. n + c
    BY <1>1
  <2>2. QED BY <2>1, <1>2, <1>5 DEF Loads
<1>12. \A k \in 1 .. c : n + k \in Loads'
  <2> TAKE k \in 1 .. c
  <2>1. n + k \in 1 .. n + c /\ q + k \in 1 .. q + c
    BY <1>1
  <2>2. Outstanding'[q + k] \in Requests
    <3>1. /\ next_available_request' \in Requests /\ p' \in 0 .. MAX_OBJECT_REQUESTS
          /\ Outstanding'[q + k] = At(next_available_request', p', q + k)
      BY <2>1, <1>2, RingUpdate DEF Outstanding, At, FirstRequest, Oldest, p
    <3>2. QED BY <3>1, <2>1, <1>2, PlacesAre
  <2>3. dma'[n + k].request # Room
    <3>1. Room \notin Requests
      BY ObjectsAssumption DEF Room, Requests
    <3>2. QED BY <3>1, <2>2, <1>5
  <2>4. QED BY <2>1, <2>3, <1>2 DEF Loads
<1>13. \A k \in Loads' : k \in 1 .. n \/ \E m \in 1 .. c : k = n + m
  <2> SUFFICES ASSUME NEW k \in Loads', k \notin 1 .. n PROVE \E m \in 1 .. c : k = n + m
    OBVIOUS
  <2>1. k \in 1 .. n + c
    BY <1>2 DEF Loads
  <2>2. k - n \in 1 .. c /\ k = n + (k - n)
    BY <2>1, <1>1
  <2>3. QED BY <2>2
<1>14. \A k \in 1 .. n, j \in 1 .. q : Serves2(k, j) <=> Serves(k, j + a)
  BY <1>3, <1>4, <1>5 DEF Serves, Serves2
<1>15. \A k \in 1 .. c : Serves2(n + k, q + k)
  BY <1>4, <1>5 DEF Serves2
<1>16. \A k : \A i, j \in Waiting' : Serves2(k, i) /\ Serves2(k, j) => i = j
  BY <1>2, <1>3 DEF Waiting, Serves2
<1>17. \A i, j \in DOMAIN Outstanding' : i < j /\ i \in Waiting' => j \in Waiting'
  <2> SUFFICES ASSUME NEW i \in 1 .. q + c, NEW j \in 1 .. q + c, i < j, i \in Waiting'
               PROVE  j \in Waiting'
    BY <1>2
  <2>1. CASE j \in 1 .. q
    <3>1. i \in 1 .. q /\ i + a \in 1 .. p /\ j + a \in 1 .. p /\ i + a < j + a
      BY <2>1, <1>1 DEF q
    <3>2. i + a \in Waiting
      BY <3>1, <1>7
    <3>3. j + a \in Waiting
      BY <3>1, <3>2, <1>2 DEF RequestsInOrder
    <3>4. QED BY <3>3, <2>1, <1>7
  <2>2. CASE j \notin 1 .. q
    <3>1. j - q \in 1 .. c /\ q + (j - q) = j
      BY <2>2, <1>1
    <3>2. q + (j - q) \in Waiting'
      BY <3>1, <1>8
    <3>3. QED BY <3>1, <3>2
  <2>3. QED BY <2>1, <2>2
<1>18. \A k \in Loads' : \E j \in Waiting' : Serves2(k, j)
  <2> TAKE k \in Loads'
  <2>1. CASE k \in 1 .. n
    <3>1. PICK j \in Waiting : Serves(k, j)
      BY <2>1, <1>11 DEF RequestsInOrder
    <3>2. j - a \in 1 .. q /\ j - a + a = j
      BY <1>9
    <3>3. Serves2(k, j - a) /\ j - a \in Waiting'
      BY <3>1, <3>2, <2>1, <1>7, <1>14
    <3>4. QED BY <3>3
  <2>2. CASE \E m \in 1 .. c : k = n + m
    BY <2>2, <1>8, <1>15
  <2>3. QED BY <2>1, <2>2, <1>13
<1>19. \A j \in Waiting' : \E k \in Loads' : Serves2(k, j)
  <2> TAKE j \in Waiting'
  <2>1. CASE j \in 1 .. q
    <3>1. j + a \in Waiting
      BY <2>1, <1>7
    <3>2. PICK k \in Loads : Serves(k, j + a)
      BY <3>1 DEF RequestsInOrder
    <3>3. k \in 1 .. n
      BY <1>2 DEF Loads
    <3>4. QED BY <2>1, <3>2, <3>3, <1>11, <1>14
  <2>2. CASE \E k \in 1 .. c : j = q + k
    BY <2>2, <1>12, <1>15
  <2>3. QED BY <2>1, <2>2, <1>10
\* A load that was there stays with its request, which has moved to the front.
<1>20. \A k \in Loads' : \A i \in Waiting' : k \in 1 .. n /\ Serves2(k, i) =>
          k \in Loads /\ i \in 1 .. q /\ i + a \in Waiting /\ Serves(k, i + a)
  <2> SUFFICES ASSUME NEW k \in Loads', NEW i \in Waiting', k \in 1 .. n, Serves2(k, i)
               PROVE  k \in Loads /\ i \in 1 .. q /\ i + a \in Waiting /\ Serves(k, i + a)
    OBVIOUS
  <2>1. PICK j \in Waiting : Serves(k, j)
    BY <1>11 DEF RequestsInOrder
  <2>2. j - a \in 1 .. q /\ j - a + a = j
    BY <1>9
  <2>3. Serves2(k, j - a) /\ j - a \in Waiting'
    BY <2>1, <2>2, <1>7, <1>14
  <2>4. i = j - a
    BY <2>3, <1>16
  <2>5. QED BY <2>1, <2>2, <2>4, <1>11
<1>21. \A m \in 1 .. c : \A i \in Waiting' : Serves2(n + m, i) => i = q + m
  BY <1>8, <1>15, <1>16
<1>22. ASSUME NEW k \in Loads', NEW l \in Loads', NEW i \in Waiting', NEW j \in Waiting',
              k < l, Serves2(k, i), Serves2(l, j)
       PROVE  i < j
  <2>1. CASE k \in 1 .. n /\ l \in 1 .. n
    <3>1. /\ k \in Loads /\ l \in Loads /\ i + a \in Waiting /\ j + a \in Waiting
          /\ i \in 1 .. q /\ j \in 1 .. q /\ Serves(k, i + a) /\ Serves(l, j + a)
      BY <2>1, <1>20, <1>22
    <3>2. i + a < j + a
      BY <3>1, <1>22 DEF RequestsInOrder
    <3>3. QED BY <3>1, <3>2, <1>1
  <2>2. CASE k \in 1 .. n /\ \E m \in 1 .. c : l = n + m
    <3>1. PICK m \in 1 .. c : l = n + m
      BY <2>2
    <3>2. j = q + m /\ i \in 1 .. q
      BY <3>1, <2>2, <1>20, <1>21, <1>22
    <3>3. QED BY <3>2, <1>1
  <2>3. CASE (\E m \in 1 .. c : k = n + m) /\ l \in 1 .. n
    BY <2>3, <1>22, <1>1
  <2>4. CASE (\E m \in 1 .. c : k = n + m) /\ (\E m \in 1 .. c : l = n + m)
    <3>1. PICK m \in 1 .. c : k = n + m
      BY <2>4
    <3>2. PICK o \in 1 .. c : l = n + o
      BY <2>4
    <3>3. i = q + m /\ j = q + o
      BY <3>1, <3>2, <1>21, <1>22
    <3>4. QED BY <3>1, <3>2, <3>3, <1>1, <1>22
  <2>5. QED BY <2>1, <2>2, <2>3, <2>4, <1>13
<1>23. QED BY <1>17, <1>18, <1>19, <1>22 DEF RequestsInOrder, Serves, Serves2

\* What an entry of dma can be.
LEMMA EntriesAre ==
  ASSUME NEW e \in DmaEntries
  PROVE  /\ e.request # Room => e.request \in Requests /\ e.slot \in Slots /\ e.id \in Objects
         /\ e.request = Room => e.slot = 0 /\ e.id = 0
         /\ e.request \in Requests => e.request # Room
<1>1. Room \notin Requests
  BY ObjectsAssumption DEF Room, Requests
<1>2. QED BY <1>1 DEF DmaEntries

\* What the DMA manager does: to its list, to the request and to the memory of the slot.
LEMMA DmaStep ==
  ASSUME ObjectTypeOK, DmaDone
  PROVE  /\ ObjectTypeOK'
         /\ Len(dma) \in Nat \ {0} /\ DOMAIN dma = 1 .. Len(dma) /\ DOMAIN dma' = 1 .. Len(dma) - 1
         /\ \A k \in 1 .. Len(dma) - 1 : dma'[k] = dma[k + 1]
         /\ dma[1] \in DmaEntries
         /\ \A r \in Requests : /\ load_requests'[r].slot = load_requests[r].slot
                                /\ load_requests'[r].done <=> load_requests[r].done \/ r = dma[1].request
         /\ \A s \in Slots : mem'[s] = IF dma[1].request # Room /\ dma[1].slot = s
                                       THEN dma[1].id ELSE mem[s]
<1> DEFINE d == dma
           e == d[1]
<1>1. d \in Seq(DmaEntries) /\ d # <<>> /\ dma' = Tail(d)
  BY DEF ObjectTypeOK, DmaDone
<1>2. mem \in [Slots -> Objects \cup {0}] /\ load_requests \in [Requests -> [slot : Slots, done : BOOLEAN]]
  BY DEF ObjectTypeOK
<1>3. /\ mem' = IF Head(d).request = Room THEN mem ELSE [mem EXCEPT ![Head(d).slot] = Head(d).id]
      /\ load_requests' = IF Head(d).request = Room THEN load_requests
                          ELSE [load_requests EXCEPT ![Head(d).request].done = TRUE]
  BY DEF DmaDone
<1> HIDE DEF d
<1>4. /\ Len(d) \in Nat \ {0} /\ DOMAIN d = 1 .. Len(d) /\ Head(d) = d[1]
      /\ Tail(d) \in Seq(DmaEntries) /\ Len(Tail(d)) = Len(d) - 1
      /\ \A k \in 1 .. Len(d) - 1 : Tail(d)[k] = d[k + 1]
  <2>1. Len(d) \in Nat /\ DOMAIN d = 1 .. Len(d) /\ Len(d) # 0
    BY <1>1, LenProperties, EmptySeq
  <2>2. QED BY <2>1, <1>1, HeadTailProperties
<1>5. e \in DmaEntries
  BY <1>1, <1>4, ElementOfSeq
<1>6. DOMAIN dma' = 1 .. Len(d) - 1
  BY <1>1, <1>4, LenProperties
<1> HIDE DEF e
<1>7. e.request # Room => e.request \in Requests /\ e.slot \in Slots /\ e.id \in Objects
  BY <1>5, EntriesAre
<1>8. /\ load_requests' \in [Requests -> [slot : Slots, done : BOOLEAN]]
      /\ \A r \in Requests : /\ load_requests'[r].slot = load_requests[r].slot
                             /\ load_requests'[r].done <=> load_requests[r].done \/ r = e.request
  <2>1. CASE e.request = Room
    <3>1. load_requests' = load_requests
      BY <2>1, <1>3, <1>4 DEF e
    <3>2. Room \notin Requests
      BY ObjectsAssumption DEF Room, Requests
    <3>3. QED BY <2>1, <3>1, <3>2, <1>2
  <2>2. CASE e.request # Room
    <3> DEFINE q == e.request
    <3>1. load_requests' = [load_requests EXCEPT ![q].done = TRUE] /\ q \in Requests
      BY <2>2, <1>3, <1>4, <1>7 DEF e
    <3> HIDE DEF q
    <3>2. /\ load_requests' \in [Requests -> [slot : Slots, done : BOOLEAN]]
          /\ \A r \in Requests : load_requests'[r] = IF r = q THEN [load_requests[r] EXCEPT !.done = TRUE]
                                                     ELSE load_requests[r]
      BY <3>1, <1>2
    <3>3. \A r \in Requests : /\ load_requests'[r].slot = load_requests[r].slot
                              /\ load_requests'[r].done <=> load_requests[r].done \/ r = q
      <4> TAKE r \in Requests
      <4>1. load_requests[r] \in [slot : Slots, done : BOOLEAN]
        BY <1>2
      <4>2. QED BY <3>2, <4>1
    <3>4. QED BY <3>2, <3>3 DEF q
  <2>3. QED BY <2>1, <2>2
<1>9. /\ mem' \in [Slots -> Objects \cup {0}]
      /\ \A s \in Slots : mem'[s] = IF e.request # Room /\ e.slot = s THEN e.id ELSE mem[s]
  BY <1>2, <1>3, <1>4, <1>7 DEF e
<1>10. UNCHANGED <<slots, numEntries, next_available_request, pending_request_count, gLoadedObjects,
                   overtaken>>
  BY DEF DmaDone
<1>11. ObjectTypeOK'
  BY <1>1, <1>4, <1>8, <1>9, <1>10 DEF ObjectTypeOK, d
<1>12. QED BY <1>4, <1>5, <1>6, <1>8, <1>9, <1>11, <1>1 DEF d, e

\* The ring does not move when its two counters do not.
LEMMA RingStays ==
  ASSUME UNCHANGED <<next_available_request, pending_request_count>>
  PROVE  Outstanding' = Outstanding
BY DEF Outstanding, FirstRequest

\* The oldest load is for the oldest request whose message has not come.
LEMMA DmaKeepsOrder ==
  ASSUME ObjectTypeOK, RequestsInOrder, DmaDone
  PROVE  RequestsInOrder'
<1> DEFINE n == Len(dma)
           O == Outstanding
           p == pending_request_count
           Serves2(k, j) == /\ dma'[k].request = Outstanding'[j]
                            /\ dma'[k].slot = load_requests'[Outstanding'[j]].slot
<1>1. /\ n \in Nat \ {0} /\ DOMAIN dma = 1 .. n /\ DOMAIN dma' = 1 .. n - 1
      /\ \A k \in 1 .. n - 1 : dma'[k] = dma[k + 1]
  BY DmaStep
<1>2. Outstanding' = O
  BY RingStays DEF DmaDone
<1>3. DOMAIN O = 1 .. p /\ (\A j \in 1 .. p : O[j] \in Requests) /\ p \in Nat
      /\ \A i, j \in 1 .. p : O[i] = O[j] => i = j
  BY OutstandingIs
<1>4. \A j \in 1 .. p : /\ load_requests'[O[j]].slot = load_requests[O[j]].slot
                        /\ load_requests'[O[j]].done <=> load_requests[O[j]].done \/ O[j] = dma[1].request
  BY <1>3, DmaStep
<1>5. Waiting \subseteq 1 .. p /\ Waiting' \subseteq 1 .. p
  BY <1>2, <1>3 DEF Waiting
<1>6. \A j \in 1 .. p : j \in Waiting' <=> j \in Waiting /\ O[j] # dma[1].request
  BY <1>2, <1>3, <1>4 DEF Waiting
<1>7. \A k \in 1 .. n - 1, j \in 1 .. p : Serves2(k, j) <=> Serves(k + 1, j)
  BY <1>1, <1>2, <1>4 DEF Serves
<1>8. \A k \in 1 .. n - 1 : k + 1 \in 1 .. n /\ (k \in Loads' <=> k + 1 \in Loads)
  BY <1>1 DEF Loads
<1>9. Loads \subseteq 1 .. n /\ Loads' \subseteq 1 .. n - 1
  BY <1>1 DEF Loads
<1> HIDE DEF n, O, p, Serves2
\* What the head is for is the first that waits.
<1>10. \A i, j \in Waiting : O[i] = dma[1].request /\ j # i => i < j
  <2> SUFFICES ASSUME NEW i \in Waiting, NEW j \in Waiting, O[i] = dma[1].request, j # i
               PROVE  i < j
    OBVIOUS
  <2>1. 1 \in Loads
    <3>1. O[i] \in Requests
      BY <1>3, <1>5
    <3>2. dma[1].request # Room
      BY <3>1, DmaStep, EntriesAre
    <3>3. QED BY <3>2, <1>1 DEF Loads
  <2>2. PICK h \in Waiting : Serves(1, h)
    BY <2>1 DEF RequestsInOrder
  <2>3. h = i
    BY <2>2, <1>3, <1>5 DEF Serves, O
  <2>4. PICK k \in Loads : Serves(k, j)
    BY DEF RequestsInOrder
  <2>5. k # 1
    <3> SUFFICES ASSUME k = 1 PROVE FALSE
      OBVIOUS
    <3>1. O[j] = O[i]
      BY <2>2, <2>3, <2>4 DEF Serves, O
    <3>2. QED BY <3>1, <1>3, <1>5
  <2>6. 1 < k
    BY <2>4, <2>5, <1>9, <1>1
  <2>7. QED BY <2>1, <2>2, <2>3, <2>4, <2>6 DEF RequestsInOrder
<1>11. \A i, j \in 1 .. p : i < j /\ i \in Waiting' => j \in Waiting'
  <2> SUFFICES ASSUME NEW i \in 1 .. p, NEW j \in 1 .. p, i < j, i \in Waiting' PROVE j \in Waiting'
    OBVIOUS
  <2>1. i \in Waiting /\ O[i] # dma[1].request
    BY <1>6
  <2>2. j \in Waiting
    BY <2>1, <1>3 DEF RequestsInOrder, O
  <2>3. O[j] # dma[1].request
    BY <2>1, <2>2, <1>10, <1>3
  <2>4. QED BY <2>2, <2>3, <1>6
<1>12. \A k \in Loads' : \E j \in Waiting' : Serves2(k, j)
  <2> TAKE k \in Loads'
  <2>1. k \in 1 .. n - 1 /\ k + 1 \in Loads
    BY <1>8, <1>9
  <2>2. PICK j \in Waiting : Serves(k + 1, j)
    BY <2>1 DEF RequestsInOrder
  <2>3. O[j] # dma[1].request
    <3> SUFFICES ASSUME O[j] = dma[1].request PROVE FALSE
      OBVIOUS
    <3>1. 1 \in Loads
      <4>1. O[j] \in Requests
        BY <1>3, <1>5
      <4>2. dma[1].request # Room
        BY <4>1, DmaStep, EntriesAre
      <4>3. QED BY <4>2, <1>1 DEF Loads
    <3>2. PICK h \in Waiting : Serves(1, h)
      BY <3>1 DEF RequestsInOrder
    <3>3. h = j
      BY <3>2, <1>3, <1>5 DEF Serves, O
    <3>4. 1 < k + 1
      BY <2>1, <1>1
    <3>5. h < j
      BY <2>1, <2>2, <3>1, <3>2, <3>4 DEF RequestsInOrder
    <3>6. QED BY <3>3, <3>5, <1>3, <1>5
  <2>4. QED BY <2>1, <2>2, <2>3, <1>5, <1>6, <1>7
<1>13. \A j \in Waiting' : \E k \in Loads' : Serves2(k, j)
  <2> TAKE j \in Waiting'
  <2>1. j \in 1 .. p /\ j \in Waiting /\ O[j] # dma[1].request
    BY <1>5, <1>6
  <2>2. PICK k \in Loads : Serves(k, j)
    BY <2>1 DEF RequestsInOrder
  <2>3. k # 1 /\ k \in 1 .. n
    BY <2>1, <2>2, <1>9 DEF Serves, O
  <2>4. k - 1 \in 1 .. n - 1 /\ k - 1 + 1 = k
    BY <2>3, <1>1
  <2>5. k - 1 \in Loads' /\ Serves2(k - 1, j)
    BY <2>1, <2>2, <2>4, <1>7, <1>8
  <2>6. QED BY <2>5
<1>14. ASSUME NEW k \in Loads', NEW l \in Loads', NEW i \in Waiting', NEW j \in Waiting',
              k < l, Serves2(k, i), Serves2(l, j)
       PROVE  i < j
  <2>1. k \in 1 .. n - 1 /\ l \in 1 .. n - 1 /\ k + 1 \in Loads /\ l + 1 \in Loads /\ k + 1 < l + 1
    BY <1>1, <1>8, <1>9, <1>14
  <2>2. i \in Waiting /\ j \in Waiting /\ Serves(k + 1, i) /\ Serves(l + 1, j)
    BY <2>1, <1>5, <1>6, <1>7, <1>14
  <2>3. QED BY <2>1, <2>2 DEF RequestsInOrder
<1>15. DOMAIN Outstanding' = 1 .. p
  BY <1>2, <1>3
<1>16. QED BY <1>11, <1>12, <1>13, <1>14, <1>15 DEF RequestsInOrder, Serves, Serves2

\* A room that is asked for does not touch the loads before it.
LEMMA RoomKeepsOrder ==
  ASSUME ObjectTypeOK, RequestsInOrder, dma' = Append(dma, [request |-> Room, slot |-> 0, id |-> 0]),
         UNCHANGED <<load_requests, next_available_request, pending_request_count>>
  PROVE  RequestsInOrder' /\ dma' \in Seq(DmaEntries) /\ Loads' = Loads
         /\ \A k \in Loads : dma'[k] = dma[k]
<1> DEFINE d == dma
           e == [request |-> Room, slot |-> 0, id |-> 0]
           Serves2(k, j) == /\ dma'[k].request = Outstanding'[j]
                            /\ dma'[k].slot = load_requests'[Outstanding'[j]].slot
<1>1. d \in Seq(DmaEntries)
  BY DEF ObjectTypeOK
<1>2. e \in DmaEntries /\ e.request = Room
  BY DEF DmaEntries
<1> HIDE DEF d, e
<1>3. /\ Append(d, e) \in Seq(DmaEntries) /\ DOMAIN d = 1 .. Len(d) /\ DOMAIN Append(d, e) = 1 .. Len(d) + 1
      /\ \A i \in 1 .. Len(d) : Append(d, e)[i] = d[i]
      /\ Append(d, e)[Len(d) + 1] = e /\ Len(d) \in Nat
  <2>1. /\ Append(d, e) \in Seq(DmaEntries) /\ Len(Append(d, e)) = Len(d) + 1
        /\ \A i \in 1 .. Len(d) : Append(d, e)[i] = d[i]
        /\ Append(d, e)[Len(d) + 1] = e /\ Len(d) \in Nat
    BY <1>1, <1>2, AppendProperties
  <2>2. QED BY <2>1, <1>1, LenProperties
<1>4. dma' = Append(d, e)
  BY DEF d, e
<1>5. Loads' = Loads
  <2>1. \A k \in DOMAIN dma' : k = Len(d) + 1 \/ k \in 1 .. Len(d)
    BY <1>3, <1>4
  <2>2. \A k : k \in Loads' <=> k \in Loads
    BY <2>1, <1>2, <1>3, <1>4 DEF Loads, d
  <2>3. QED BY <2>2
<1>6. \A k \in Loads : dma'[k] = dma[k]
  BY <1>3, <1>4 DEF Loads, d
<1>7. Outstanding' = Outstanding /\ Waiting' = Waiting
  BY RingStays DEF Waiting
<1>8. \A k \in Loads : \A j : Serves2(k, j) <=> Serves(k, j)
  BY <1>6, <1>7 DEF Serves, Serves2
<1> HIDE DEF Serves2
<1>9. /\ \A i, j \in DOMAIN Outstanding' : i < j /\ i \in Waiting' => j \in Waiting'
      /\ \A k \in Loads' : \E j \in Waiting' : Serves2(k, j)
      /\ \A j \in Waiting' : \E k \in Loads' : Serves2(k, j)
      /\ \A k, l \in Loads' : \A i, j \in Waiting' : k < l /\ Serves2(k, i) /\ Serves2(l, j) => i < j
  BY <1>5, <1>7, <1>8 DEF RequestsInOrder
<1>10. RequestsInOrder'
  BY <1>9 DEF RequestsInOrder, Serves, Serves2
<1>11. QED BY <1>3, <1>4, <1>5, <1>6, <1>10

\* With nothing in flight there is no order to keep.
LEMMA NoRequestsInOrder ==
  ASSUME dma = <<>>, pending_request_count = 0
  PROVE  RequestsInOrder
<1>1. DOMAIN Outstanding = {} /\ DOMAIN dma = {}
  BY DEF Outstanding
<1>2. QED BY <1>1 DEF RequestsInOrder, Waiting, Loads

-----------------------------------------------------------------------------
(* The list of spawned actors.                                             *)

\* Chaos_DropActorAtIndex takes one out and leaves the others, in a new order.
LEMMA DropAtIs ==
  ASSUME NEW S, NEW q \in Seq(S), NEW i \in 1 .. Len(q)
  PROVE  /\ DropActorAtIndex(q, i) \in Seq(S) /\ Len(DropActorAtIndex(q, i)) = Len(q) - 1
         /\ ToSet(DropActorAtIndex(q, i)) \subseteq ToSet(q)
         /\ IsInjective(q) => /\ IsInjective(DropActorAtIndex(q, i))
                              /\ ToSet(DropActorAtIndex(q, i)) = ToSet(q) \ {q[i]}
<1> DEFINE n == Len(q)
           d == DropActorAtIndex(q, i)
<1>1. n \in Nat /\ DOMAIN q = 1 .. n /\ \A k \in 1 .. n : q[k] \in S
  BY LenProperties, ElementOfSeq
<1>2. n \in 1 .. n /\ n - 1 \in Nat
  BY <1>1
<1>3. d = [k \in 1 .. n - 1 |-> IF k = i THEN q[n] ELSE q[k]]
  BY DEF DropActorAtIndex
<1> HIDE DEF n, d
<1>4. \A k \in 1 .. n - 1 : k \in 1 .. n /\ k # n
  BY <1>1
<1>5. d \in Seq(S) /\ Len(d) = n - 1 /\ DOMAIN d = 1 .. n - 1
      /\ \A k \in 1 .. n - 1 : d[k] = IF k = i THEN q[n] ELSE q[k]
  BY <1>1, <1>2, <1>3, <1>4
<1>6. ToSet(d) \subseteq ToSet(q)
  BY <1>1, <1>2, <1>4, <1>5 DEF ToSet
<1>7. ASSUME IsInjective(q) PROVE IsInjective(d) /\ ToSet(d) = ToSet(q) \ {q[i]}
  <2>1. \A k, l \in 1 .. n : q[k] = q[l] => k = l
    BY <1>7, <1>1 DEF IsInjective
  <2>2. IsInjective(d)
    BY <2>1, <1>2, <1>4, <1>5 DEF IsInjective
  <2>3. \A k \in 1 .. n - 1 : d[k] # q[i]
    BY <2>1, <1>2, <1>4, <1>5 DEF n
  <2>4. \A k \in 1 .. n : k # i => \E l \in 1 .. n - 1 : d[l] = q[k]
    <3> SUFFICES ASSUME NEW k \in 1 .. n, k # i PROVE \E l \in 1 .. n - 1 : d[l] = q[k]
      OBVIOUS
    <3>1. CASE k = n
      <4>1. i \in 1 .. n - 1
        BY <3>1, <1>1 DEF n
      <4>2. QED BY <3>1, <4>1, <1>5
    <3>2. CASE k # n
      <4>1. k \in 1 .. n - 1
        BY <3>2, <1>1
      <4>2. QED BY <4>1, <1>5
    <3>3. QED BY <3>1, <3>2
  <2>5. ToSet(d) = {d[k] : k \in 1 .. n - 1} /\ ToSet(q) = {q[k] : k \in 1 .. n} /\ i \in 1 .. n
    BY <1>1, <1>5 DEF ToSet, n
  <2>6. q[i] \notin ToSet(d)
    BY <2>3, <2>5
  <2>7. \A k \in 1 .. n : q[k] # q[i] => q[k] \in ToSet(d)
    BY <2>4, <2>5
  <2>8. ToSet(d) = ToSet(q) \ {q[i]}
    BY <2>5, <2>6, <2>7, <1>6
  <2>9. QED BY <2>2, <2>8
<1>8. QED BY <1>5, <1>6, <1>7 DEF n, d

\* Chaos_DestroyFunction takes its actor out, if the list has it.
LEMMA DropIs ==
  ASSUME NEW S, NEW q \in Seq(S), NEW a
  PROVE  /\ DropActor(q, a) \in Seq(S) /\ Len(DropActor(q, a)) <= Len(q)
         /\ ToSet(DropActor(q, a)) \subseteq ToSet(q)
         /\ IsInjective(q) => /\ IsInjective(DropActor(q, a))
                              /\ ToSet(DropActor(q, a)) = ToSet(q) \ {a}
<1>1. Len(q) \in Nat /\ DOMAIN q = 1 .. Len(q)
  BY LenProperties
<1>2. CASE a \in ToSet(q)
  <2> DEFINE i == CHOOSE i \in DOMAIN q : q[i] = a
  <2>1. i \in 1 .. Len(q) /\ q[i] = a
    BY <1>1, <1>2 DEF ToSet
  <2>2. DropActor(q, a) = DropActorAtIndex(q, i)
    BY <1>2 DEF DropActor
  <2> HIDE DEF i
  <2>3. QED BY <2>1, <2>2, <1>1, DropAtIs
<1>3. CASE a \notin ToSet(q)
  <2>1. DropActor(q, a) = q
    BY <1>3 DEF DropActor
  <2>2. QED BY <2>1, <1>1, <1>3
<1>4. QED BY <1>2, <1>3

\* The actors are destroyed one after the other: what is left of the list after each set
\* of them.
Dropped(a, list) == IF WillDestroy(a) /\ actors[a].chaos THEN DropActor(list, a) ELSE list
Drops(D, f) ==
    f = [s \in D |-> IF s = {} THEN spawned
                     ELSE LET x == CHOOSE x \in s : TRUE IN Dropped(x, f[s \ {x}])]

\* A set of actors has a size, and without the one that is chosen it is smaller.
LEMMA ChosenIs ==
  ASSUME NEW s, IsFiniteSet(s)
  PROVE  /\ Cardinality(s) \in Nat /\ (Cardinality(s) = 0 <=> s = {})
         /\ \A t \in SUBSET s : IsFiniteSet(t) /\ Cardinality(t) \in Nat /\ Cardinality(t) <= Cardinality(s)
         /\ s # {} => LET x == CHOOSE x \in s : TRUE
                      IN x \in s /\ Cardinality(s \ {x}) = Cardinality(s) - 1 /\ s \ {x} \subseteq s
<1>1. Cardinality(s) \in Nat /\ (Cardinality(s) = 0 <=> s = {})
  BY FS_CardinalityType, FS_EmptySet
<1>2. \A t \in SUBSET s : IsFiniteSet(t) /\ Cardinality(t) \in Nat /\ Cardinality(t) <= Cardinality(s)
  BY FS_Subset, FS_CardinalityType
<1>3. ASSUME s # {}
      PROVE  LET x == CHOOSE x \in s : TRUE
             IN x \in s /\ Cardinality(s \ {x}) = Cardinality(s) - 1 /\ s \ {x} \subseteq s
  <2> DEFINE x == CHOOSE x \in s : TRUE
  <2>1. x \in s
    BY <1>3
  <2> HIDE DEF x
  <2>2. Cardinality(s \ {x}) = Cardinality(s) - 1
    BY <2>1, FS_RemoveElement
  <2>3. QED BY <2>1, <2>2 DEF x
<1>4. QED BY <1>1, <1>2, <1>3

LEMMA DropsExist ==
  ASSUME NEW S, IsFiniteSet(S)
  PROVE  \E f : Drops(SUBSET S, f)
<1> DEFINE Up(n) == {s \in SUBSET S : Cardinality(s) <= n}
           P == {n \in Nat : \E f : Drops(Up(n), f)}
<1>1. \A s \in SUBSET S : /\ IsFiniteSet(s) /\ Cardinality(s) \in Nat
                          /\ (Cardinality(s) = 0 <=> s = {})
                          /\ Cardinality(s) <= Cardinality(S)
  BY ChosenIs, FS_Subset
<1>2. 0 \in P
  <2> DEFINE f == [s \in Up(0) |-> spawned]
  <2>1. \A s \in Up(0) : s = {}
    BY <1>1
  <2>2. f = [s \in Up(0) |-> IF s = {} THEN spawned
                             ELSE LET x == CHOOSE x \in s : TRUE IN Dropped(x, f[s \ {x}])]
    BY <2>1
  <2>3. Drops(Up(0), f)
    BY <2>2 DEF Drops
  <2>4. QED BY <2>3
<1>3. ASSUME NEW n \in Nat, n \in P PROVE n + 1 \in P
  <2>1. PICK f : Drops(Up(n), f)
    BY <1>3
  <2> DEFINE g == [s \in Up(n + 1) |->
                     IF s = {} THEN spawned
                     ELSE LET x == CHOOSE x \in s : TRUE IN Dropped(x, f[s \ {x}])]
             Value(h, s) == IF s = {} THEN spawned
                            ELSE LET x == CHOOSE x \in s : TRUE IN Dropped(x, h[s \ {x}])
  <2>2. \A s \in Up(n + 1) : s # {} =>
          LET x == CHOOSE x \in s : TRUE IN s \ {x} \in Up(n)
    <3> SUFFICES ASSUME NEW s \in Up(n + 1), s # {}
                 PROVE  LET x == CHOOSE x \in s : TRUE IN s \ {x} \in Up(n)
      OBVIOUS
    <3> DEFINE x == CHOOSE x \in s : TRUE
    <3>1. x \in s /\ Cardinality(s \ {x}) = Cardinality(s) - 1 /\ s \ {x} \subseteq s
      BY <1>1, ChosenIs
    <3> HIDE DEF x
    <3>2. Cardinality(s) \in Nat /\ Cardinality(s) <= n + 1 /\ s \in SUBSET S
      BY <1>1
    <3>3. s \ {x} \in Up(n)
      BY <3>1, <3>2
    <3>4. QED BY <3>3 DEF x
  <2>3. \A s \in Up(n) : s \in Up(n + 1)
    BY <1>1
  <2>4. \A s \in Up(n) : f[s] = Value(f, s)
    BY <2>1 DEF Drops
  <2>5. \A s \in Up(n + 1) : g[s] = Value(f, s)
    OBVIOUS
  <2>6. \A s \in Up(n) : g[s] = f[s]
    BY <2>3, <2>4, <2>5
  <2>7. \A s \in Up(n + 1) : Value(g, s) = Value(f, s)
    <3> SUFFICES ASSUME NEW s \in Up(n + 1), s # {} PROVE Value(g, s) = Value(f, s)
      OBVIOUS
    <3> DEFINE x == CHOOSE x \in s : TRUE
    <3>1. g[s \ {x}] = f[s \ {x}]
      BY <2>2, <2>6
    <3>2. Value(g, s) = Dropped(x, g[s \ {x}]) /\ Value(f, s) = Dropped(x, f[s \ {x}])
      OBVIOUS
    <3> HIDE DEF g, Value, x
    <3>3. QED BY <3>1, <3>2
  <2>8. g = [s \in Up(n + 1) |-> Value(g, s)]
    <3>1. g = [s \in Up(n + 1) |-> g[s]]
      OBVIOUS
    <3> HIDE DEF g, Value, Up
    <3>2. QED BY <3>1, <2>5, <2>7
  <2>9. Drops(Up(n + 1), g)
    BY <2>8 DEF Drops
  <2>10. n + 1 \in Nat
    OBVIOUS
  <2>11. QED BY <2>9, <2>10
<1> HIDE DEF P
<1>4. Nat \subseteq P
  BY <1>2, <1>3, NatInduct
<1>5. Cardinality(S) \in Nat /\ Up(Cardinality(S)) = SUBSET S
  BY <1>1, FS_CardinalityType
<1>6. QED BY <1>4, <1>5 DEF P

\* Destroying actors takes those out of the list whose function runs, and leaves the others.
LEMMA AfterDestroyIs ==
  ASSUME NEW S, IsFiniteSet(S), spawned \in Seq(Actors)
  PROVE  /\ AfterDestroy(S) \in Seq(Actors) /\ Len(AfterDestroy(S)) <= Len(spawned)
         /\ ToSet(AfterDestroy(S)) \subseteq ToSet(spawned)
         /\ IsInjective(spawned) =>
              /\ IsInjective(AfterDestroy(S))
              /\ ToSet(AfterDestroy(S)) = ToSet(spawned) \ {a \in S : WillDestroy(a) /\ actors[a].chaos}
<1> DEFINE f == CHOOSE f : Drops(SUBSET S, f)
           Gone(s) == {a \in s : WillDestroy(a) /\ actors[a].chaos}
           Good(s) == /\ f[s] \in Seq(Actors) /\ Len(f[s]) <= Len(spawned)
                      /\ ToSet(f[s]) \subseteq ToSet(spawned)
                      /\ IsInjective(spawned) => IsInjective(f[s]) /\ ToSet(f[s]) = ToSet(spawned) \ Gone(s)
           P == {n \in Nat : \A s \in SUBSET S : Cardinality(s) = n => Good(s)}
<1>1. AfterDestroy(S) = f[S]
  BY DEF AfterDestroy, FoldSet, MapThenFoldSet, Drops, Dropped
<1>2. Drops(SUBSET S, f)
  BY DropsExist
<1> HIDE DEF f
<1>3. \A s \in SUBSET S : f[s] = IF s = {} THEN spawned
                                 ELSE LET x == CHOOSE x \in s : TRUE IN Dropped(x, f[s \ {x}])
  BY <1>2 DEF Drops
<1>4. \A s \in SUBSET S : IsFiniteSet(s)
  BY FS_Subset
<1>5. Len(spawned) \in Nat
  BY LenProperties
<1>6. 0 \in P
  <2>1. \A s \in SUBSET S : Cardinality(s) = 0 => s = {}
    BY <1>4, ChosenIs
  <2>2. f[{}] = spawned /\ Gone({}) = {}
    BY <1>3
  <2>3. Good({})
    BY <2>2, <1>5
  <2>4. QED BY <2>1, <2>3
<1>7. ASSUME NEW n \in Nat, n \in P PROVE n + 1 \in P
  <2> SUFFICES ASSUME NEW s \in SUBSET S, Cardinality(s) = n + 1 PROVE Good(s)
    OBVIOUS
  <2> DEFINE x == CHOOSE x \in s : TRUE
             t == s \ {x}
             q == f[t]
  <2>1. s # {}
    BY <1>4, ChosenIs
  <2>2. x \in s /\ Cardinality(t) = n /\ t \in SUBSET S
    BY <2>1, <1>4, ChosenIs
  <2>3. f[s] = Dropped(x, q)
    BY <2>1, <1>3
  <2> HIDE DEF x
  <2>4. Good(t)
    BY <2>2, <1>7
  <2> HIDE DEF q, t
  <2>5. /\ q \in Seq(Actors) /\ Len(q) \in Nat /\ Len(q) <= Len(spawned) /\ ToSet(q) \subseteq ToSet(spawned)
        /\ IsInjective(spawned) => IsInjective(q) /\ ToSet(q) = ToSet(spawned) \ Gone(t)
    BY <2>4, LenProperties DEF q
  <2>6. CASE WillDestroy(x) /\ actors[x].chaos
    <3>1. f[s] = DropActor(q, x)
      BY <2>3, <2>6 DEF Dropped
    <3>2. /\ f[s] \in Seq(Actors) /\ Len(f[s]) <= Len(q) /\ ToSet(f[s]) \subseteq ToSet(q)
          /\ IsInjective(q) => IsInjective(f[s]) /\ ToSet(f[s]) = ToSet(q) \ {x}
      BY <3>1, <2>5, DropIs
    <3>3. Len(f[s]) <= Len(spawned)
      <4>1. Len(f[s]) \in Nat
        BY <3>2, LenProperties
      <4>2. QED BY <4>1, <3>2, <2>5, <1>5
    <3>4. Gone(s) = Gone(t) \cup {x}
      BY <2>2, <2>6 DEF t
    <3> HIDE DEF Gone
    <3>5. QED BY <3>2, <3>3, <3>4, <2>5
  <2>7. CASE ~ (WillDestroy(x) /\ actors[x].chaos)
    <3>1. f[s] = q
      BY <2>3, <2>7 DEF Dropped
    <3>2. Gone(s) = Gone(t)
      BY <2>2, <2>7 DEF t
    <3> HIDE DEF Gone
    <3>3. QED BY <3>1, <3>2, <2>5
  <2>8. QED BY <2>6, <2>7
<1> HIDE DEF P
<1>8. Nat \subseteq P
  BY <1>6, <1>7, NatInduct
<1>9. Cardinality(S) \in Nat
  BY FS_CardinalityType
<1>10. Good(S)
  BY <1>8, <1>9 DEF P
<1>11. QED BY <1>1, <1>10

-----------------------------------------------------------------------------
(* The slots when a scene or a room comes.                                 *)

\* The number of slots, of those that are persistent and of those of rooms.
LEMMA NumbersAre ==
  /\ MaxSlots \in Nat /\ Len(Persistent) \in Nat /\ ChaosSlot = Len(Persistent)
  /\ NumPersistent = ChaosSlot + 1 /\ NumPersistent <= MaxSlots
  /\ ChaosSlot \in Slots /\ 0 \in Slots
  /\ \A s \in 1 .. Len(Persistent) : Persistent[s] \in Objects \ Sizeless
<1>1. Persistent \in Seq(Objects \ Sizeless) /\ MaxSlots \in Nat /\ Len(Persistent) < MaxSlots
  BY ObjectsAssumption
<1>2. Len(Persistent) \in Nat /\ \A s \in 1 .. Len(Persistent) : Persistent[s] \in Objects \ Sizeless
  BY <1>1, LenProperties, ElementOfSeq
<1>3. QED BY <1>1, <1>2 DEF ChaosSlot, NumPersistent, Slots

\* Object_InitContext, and the start of the program: the persistent objects are in memory
\* and the object of the chaos effects, if any, is asked for.
LEMMA FreshIs ==
  ASSUME NEW keep \in Objects \cup {0}
  PROVE  /\ FreshSlots(keep) \in [Slots -> [id : Ids, load_pending : BOOLEAN]]
         /\ [s \in Slots |-> IF s < Len(Persistent) THEN Persistent[s + 1] ELSE 0]
               \in [Slots -> Objects \cup {0}]
         /\ ToSet(Persistent) \subseteq Objects
         /\ \A s \in Slots : /\ ~FreshSlots(keep)[s].load_pending
                             /\ s < Len(Persistent) => FreshSlots(keep)[s].id = Persistent[s + 1]
                                                       /\ Persistent[s + 1] \in Objects
                             /\ s = ChaosSlot => FreshSlots(keep)[s].id = -keep
                             /\ s >= NumPersistent => FreshSlots(keep)[s].id = 0
<1>1. ASSUME NEW s \in Slots, s < Len(Persistent) PROVE Persistent[s + 1] \in Objects
  <2>1. s + 1 \in 1 .. Len(Persistent)
    BY <1>1, NumbersAre DEF Slots
  <2>2. QED BY <2>1, NumbersAre
<1>2. -keep \in Ids /\ 0 \in Ids
  <2>1. CASE keep \in Objects
    BY <2>1 DEF Ids
  <2>2. CASE keep = 0
    <3>1. \A z \in Int : z <= 0 /\ z >= 0 => -z = 0
      OBVIOUS
    <3>2. keep \in Int /\ keep <= 0 /\ keep >= 0
      BY <2>2
    <3>3. -keep = 0
      BY <3>1, <3>2, Zenon
    <3>4. QED BY <3>3 DEF Ids
  <2>3. QED BY <2>1, <2>2 DEF Ids
<1> DEFINE m == -keep
<1> HIDE DEF m
<1>3. FreshSlots(keep) = [s \in Slots |->
         [id |-> IF s < Len(Persistent) THEN Persistent[s + 1] ELSE IF s = ChaosSlot THEN m ELSE 0,
          load_pending |-> FALSE]]
  BY DEF FreshSlots, m
<1>4. m \in Ids
  BY <1>2 DEF m
<1>5. \A s \in Slots :
         FreshSlots(keep)[s] =
           [id |-> IF s < Len(Persistent) THEN Persistent[s + 1] ELSE IF s = ChaosSlot THEN m ELSE 0,
            load_pending |-> FALSE]
  BY <1>3
<1>6. ASSUME NEW s \in Slots
      PROVE  /\ FreshSlots(keep)[s] \in [id : Ids, load_pending : BOOLEAN]
             /\ ~FreshSlots(keep)[s].load_pending
             /\ s < Len(Persistent) => FreshSlots(keep)[s].id = Persistent[s + 1]
                                       /\ Persistent[s + 1] \in Objects
             /\ s = ChaosSlot => FreshSlots(keep)[s].id = m
             /\ s >= NumPersistent => FreshSlots(keep)[s].id = 0
  <2> DEFINE x == IF s < Len(Persistent) THEN Persistent[s + 1] ELSE IF s = ChaosSlot THEN m ELSE 0
             r == FreshSlots(keep)[s]
  <2>1. r = [id |-> x, load_pending |-> FALSE]
    BY <1>5
  <2>2. x \in Ids /\ (s < Len(Persistent) => x = Persistent[s + 1] /\ Persistent[s + 1] \in Objects)
    BY <1>1, <1>2, <1>4 DEF Ids
  <2>3. (s = ChaosSlot => x = m) /\ (s >= NumPersistent => x = 0)
    BY NumbersAre DEF Slots
  <2> HIDE DEF x, r
  <2>4. r \in [id : Ids, load_pending : BOOLEAN] /\ ~r.load_pending /\ r.id = x
    BY <2>1, <2>2
  <2>5. QED BY <2>2, <2>3, <2>4 DEF r
<1>7. ToSet(Persistent) \subseteq Objects
  <2>1. DOMAIN Persistent = 1 .. Len(Persistent)
    BY ObjectsAssumption, LenProperties
  <2>2. QED BY <2>1, NumbersAre DEF ToSet
<1>8. FreshSlots(keep) \in [Slots -> [id : Ids, load_pending : BOOLEAN]]
  <2>1. FreshSlots(keep) = [s \in Slots |-> FreshSlots(keep)[s]]
    BY <1>3
  <2>2. QED BY <1>6, <2>1
<1>9. [s \in Slots |-> IF s < Len(Persistent) THEN Persistent[s + 1] ELSE 0] \in [Slots -> Objects \cup {0}]
  BY <1>1
<1>10. QED BY <1>6, <1>7, <1>8, <1>9 DEF m

\* How many slots of a room can stay: none beyond those there are.
LEMMA KeptAre ==
  ASSUME ObjectTypeOK, NEW list \in Seq(Objects), NEW kept \in KeptSlots(list)
  PROVE  kept \in Nat /\ NumPersistent + kept <= numEntries
<1> DEFINE n == Len(list)
           common == {k \in 0 .. n : /\ NumPersistent + k <= numEntries
                                     /\ \A i \in 1 .. k : slots[NumPersistent + i - 1].id = list[i]}
           most == Max(common)
           T == {n - k : k \in common}
<1>1. n \in Nat /\ numEntries \in Nat /\ NumPersistent \in Nat /\ NumPersistent <= numEntries
  BY LenProperties, NumbersAre DEF ObjectTypeOK
<1>2. 0 \in common /\ common \subseteq 0 .. n /\ \A k \in common : NumPersistent + k <= numEntries
  BY <1>1
<1> HIDE DEF n, common
<1>3. T \subseteq Nat /\ n - 0 \in T
  BY <1>1, <1>2
<1>4. PICK t \in T : \A y \in T : t <= y
  BY <1>3, LeastNat
<1>5. PICK k \in common : t = n - k
  BY <1>4
<1>6. \A y \in common : k >= y
  <2> TAKE y \in common
  <2>1. n - y \in T
    OBVIOUS
  <2>2. n - k <= n - y
    BY <2>1, <1>4, <1>5
  <2>3. k \in 0 .. n /\ y \in 0 .. n
    BY <1>2
  <2>4. QED BY <2>2, <2>3, <1>1
<1>7. most \in common
  BY <1>6 DEF Max
<1>8. kept \in (IF most = n THEN most .. numEntries - NumPersistent ELSE {most})
  BY DEF KeptSlots, common, n
<1> HIDE DEF most
<1>9. most \in Nat /\ NumPersistent + most <= numEntries
  BY <1>1, <1>2, <1>7
<1>10. QED BY <1>1, <1>8, <1>9

\* What Scene_CommandObjectList does to the slots: the first stay, those of the objects it
\* asks for follow, and what was behind is cleared.
LEMMA ListStep ==
  ASSUME ObjectTypeOK, NEW list \in Seq(Objects), NumPersistent + Len(list) <= MaxSlots,
         NEW chaosObject, NEW kept \in KeptSlots(list), UNCHANGED dma,
         SceneCommandObjectList(list, chaosObject, kept)
  PROVE  /\ ObjectTypeOK'
         /\ NumPersistent + kept <= numEntries' /\ NumPersistent + kept <= numEntries /\ kept \in Nat
         /\ \A s \in Slots :
               /\ s < NumPersistent + kept => slots'[s] = slots[s]
               /\ NumPersistent + kept <= s /\ s < numEntries' =>
                     slots'[s].id < 0 /\ ~slots'[s].load_pending
               /\ numEntries' <= s /\ s < numEntries => slots'[s].id = 0
               /\ numEntries' <= s /\ numEntries <= s => slots'[s] = slots[s]
               /\ s \in overtaken => s \in overtaken'
               /\ s < NumPersistent + kept /\ s \in overtaken' => s \in overtaken
               /\ NumPersistent + kept <= s /\ s < numEntries' /\ s \in InFlight => s \in overtaken'
<1> DEFINE n == Len(list)
           first == NumPersistent + kept
           cleared == {s \in Slots : first <= s /\ s < numEntries}
           bits == gLoadedObjects \ {AbsId(s) : s \in cleared}
           wanted == {i \in kept + 1 .. n : list[i] \notin bits \/ list[i] = chaosObject}
           c == Cardinality(wanted)
           o(s) == list[Nth(wanted, s - first)]
<1>1. n \in Nat /\ numEntries \in Nat /\ NumPersistent \in Nat /\ NumPersistent <= numEntries
      /\ numEntries <= MaxSlots /\ MaxSlots \in Nat
  BY LenProperties, NumbersAre DEF ObjectTypeOK
<1>2. kept \in Nat /\ first <= numEntries /\ first \in Nat
  BY <1>1, KeptAre
<1>3. wanted \subseteq kept + 1 .. n /\ wanted \subseteq Nat
  BY <1>1, <1>2
<1>4. IsFiniteSet(wanted) /\ c \in Nat /\ first + c <= MaxSlots
  <2> DEFINE W == kept + 1 .. n
  <2>1. kept + 1 \in Int /\ n \in Int
    BY <1>1, <1>2
  <2>2. IsFiniteSet(W) /\ Cardinality(W) = IF kept + 1 > n THEN 0 ELSE n - (kept + 1) + 1
    BY <2>1, FS_Interval
  <2>3. wanted \subseteq W
    BY <1>3
  <2> HIDE DEF W, wanted
  <2>4. IsFiniteSet(wanted) /\ Cardinality(wanted) <= Cardinality(W)
    BY <2>2, <2>3, FS_Subset
  <2>5. c \in Nat
    BY <2>4, FS_CardinalityType
  <2>6. QED BY <1>1, <1>2, <2>2, <2>4, <2>5
<1>5. /\ slots' = [s \in Slots |->
                     IF s \in first .. first + c - 1 THEN [id |-> -o(s), load_pending |-> FALSE]
                     ELSE IF s \in cleared THEN [slots[s] EXCEPT !.id = 0] ELSE slots[s]]
      /\ gLoadedObjects' = bits /\ numEntries' = first + c
      /\ UNCHANGED <<load_requests, next_available_request, pending_request_count, mem, dma>>
      /\ overtaken' = overtaken \cup (IF StrayFrom(first) = {} THEN {} ELSE first .. first + c - 1)
  BY DEF SceneCommandObjectList
<1> HIDE DEF wanted, bits, c, first, n, o
<1>6. \A s \in first .. first + c - 1 : o(s) \in Objects
  <2> TAKE s \in first .. first + c - 1
  <2>1. s - first \in 0 .. c - 1
    BY <1>2, <1>4
  <2>2. Nth(wanted, s - first) \in wanted
    BY <2>1, <1>3, <1>4, NthIs DEF c
  <2>3. Nth(wanted, s - first) \in 1 .. n
    <3>1. \A i \in kept + 1 .. n : i \in 1 .. n
      BY <1>1, <1>2
    <3>2. QED BY <3>1, <2>2, <1>3
  <2>4. QED BY <2>3, ElementOfSeq DEF o, n
<1>7. \A s \in first .. first + c - 1 :
         LET e == [id |-> -o(s), load_pending |-> FALSE]
         IN e \in [id : Ids, load_pending : BOOLEAN] /\ e.id < 0 /\ ~e.load_pending
  <2> TAKE s \in first .. first + c - 1
  <2> DEFINE x == o(s)
             y == -x
             e == [id |-> y, load_pending |-> FALSE]
  <2>1. x \in Objects /\ x \in Nat \ {0}
    BY <1>6, ObjectsAssumption
  <2> HIDE DEF x
  <2>2. y < 0 /\ y \in Ids
    BY <2>1 DEF Ids
  <2> HIDE DEF y
  <2>3. e \in [id : Ids, load_pending : BOOLEAN] /\ e.id < 0 /\ ~e.load_pending
    BY <2>2
  <2>4. QED BY <2>3 DEF e, x, y
<1>8. \A s \in Slots : slots[s] \in [id : Ids, load_pending : BOOLEAN]
                       /\ slots[s] = [id |-> slots[s].id, load_pending |-> slots[s].load_pending]
  BY IdsAre
<1>9. \A s \in Slots :
         LET e == [slots[s] EXCEPT !.id = 0]
         IN e \in [id : Ids, load_pending : BOOLEAN] /\ e.id = 0
  <2> TAKE s \in Slots
  <2> DEFINE r == slots[s]
  <2>1. r \in [id : Ids, load_pending : BOOLEAN] /\ 0 \in Ids
    BY <1>8 DEF Ids
  <2> HIDE DEF r
  <2>2. [r EXCEPT !.id = 0] \in [id : Ids, load_pending : BOOLEAN] /\ [r EXCEPT !.id = 0].id = 0
    BY <2>1
  <2>3. QED BY <2>2 DEF r
<1>10. \A s \in Slots : slots'[s] = IF s \in first .. first + c - 1 THEN [id |-> -o(s), load_pending |-> FALSE]
                                    ELSE IF s \in cleared THEN [slots[s] EXCEPT !.id = 0] ELSE slots[s]
  BY <1>5
<1>11. \A s \in Slots : s \in Int
  BY DEF Slots
<1>12. ASSUME NEW s \in Slots
       PROVE  /\ slots'[s] \in [id : Ids, load_pending : BOOLEAN]
              /\ s < first => slots'[s] = slots[s]
              /\ first <= s /\ s < first + c => slots'[s].id < 0 /\ ~slots'[s].load_pending
              /\ first + c <= s /\ s < numEntries => slots'[s].id = 0
              /\ first + c <= s /\ numEntries <= s => slots'[s] = slots[s]
  <2>1. CASE s < first
    <3>1. s \notin first .. first + c - 1 /\ s \notin cleared
      BY <2>1, <1>2, <1>4, <1>11
    <3>2. slots'[s] = slots[s]
      BY <3>1, <1>10
    <3>3. slots'[s] \in [id : Ids, load_pending : BOOLEAN]
      BY <3>2, <1>8
    <3>4. ~ (first <= s) /\ ~ (first + c <= s)
      BY <2>1, <1>2, <1>4, <1>11
    <3>5. QED BY <3>2, <3>3, <3>4
  <2>2. CASE first <= s /\ s < first + c
    <3>1. s \in first .. first + c - 1
      BY <2>2, <1>2, <1>4, <1>11
    <3>2. slots'[s] = [id |-> -o(s), load_pending |-> FALSE]
      BY <3>1, <1>10
    <3>3. slots'[s] \in [id : Ids, load_pending : BOOLEAN] /\ slots'[s].id < 0 /\ ~slots'[s].load_pending
      BY <3>1, <3>2, <1>7, Zenon
    <3>4. QED BY <3>3, <2>2, <1>2, <1>4, <1>11
  <2>3. CASE first + c <= s /\ s < numEntries
    <3>1. s \notin first .. first + c - 1 /\ s \in cleared
      BY <2>3, <1>1, <1>2, <1>4, <1>11
    <3>2. slots'[s] = [slots[s] EXCEPT !.id = 0]
      BY <3>1, <1>10
    <3>3. slots'[s] \in [id : Ids, load_pending : BOOLEAN] /\ slots'[s].id = 0
      BY <3>2, <1>9, Zenon
    <3>4. QED BY <3>3, <2>3, <1>1, <1>2, <1>4, <1>11
  <2>4. CASE first + c <= s /\ numEntries <= s
    <3>1. s \notin first .. first + c - 1 /\ s \notin cleared
      BY <2>4, <1>1, <1>2, <1>4, <1>11
    <3>2. slots'[s] = slots[s]
      BY <3>1, <1>10
    <3>3. slots'[s] \in [id : Ids, load_pending : BOOLEAN]
      BY <3>2, <1>8
    <3>4. ~ (s < first + c) /\ ~ (s < numEntries)
      BY <2>4, <1>1, <1>2, <1>4, <1>11
    <3>5. QED BY <3>2, <3>3, <3>4
  <2>5. QED BY <2>1, <2>2, <2>3, <2>4, <1>1, <1>2, <1>4, <1>11
<1>13. ObjectTypeOK'
  <2>1. slots' \in [Slots -> [id : Ids, load_pending : BOOLEAN]]
    <3>1. slots' = [s \in Slots |-> slots'[s]]
      BY <1>5
    <3>2. QED BY <3>1, <1>12
  <2>2. numEntries' \in NumPersistent .. MaxSlots
    BY <1>1, <1>2, <1>4, <1>5 DEF first
  <2>3. gLoadedObjects' \subseteq Objects \cup {0}
    BY <1>5 DEF bits, ObjectTypeOK
  <2>4. overtaken' \subseteq Slots
    <3>1. overtaken \subseteq Slots
      BY DEF ObjectTypeOK
    <3>2. first .. first + c - 1 \subseteq Slots
      BY <1>1, <1>2, <1>4 DEF Slots
    <3>3. QED BY <3>1, <3>2, <1>5
  <2>5. QED BY <2>1, <2>2, <2>3, <2>4, <1>5 DEF ObjectTypeOK, Ids
<1>14. first <= numEntries'
  BY <1>2, <1>4, <1>5
<1>15. ASSUME NEW s \in Slots
       PROVE  /\ s \in overtaken => s \in overtaken'
              /\ s < first /\ s \in overtaken' => s \in overtaken
              /\ first <= s /\ s < first + c /\ s \in InFlight => s \in overtaken'
  <2>1. s < first => s \notin first .. first + c - 1
    BY <1>2, <1>4, <1>11
  <2>2. first <= s /\ s < first + c => s \in first .. first + c - 1
    BY <1>2, <1>4, <1>11
  <2>3. first <= s /\ s \in InFlight => StrayFrom(first) # {}
    BY <1>2, <1>11 DEF StrayFrom
  <2>4. QED BY <2>1, <2>2, <2>3, <1>5
<1>16. QED BY <1>2, <1>5, <1>12, <1>13, <1>14, <1>15 DEF first

\* What Object_RequestOverwrite does to the slot of the chaos effects.
LEMMA OverwriteStep ==
  ASSUME ObjectTypeOK, NEW o \in Objects, RequestOverwrite(ChaosSlot, o)
  PROVE  /\ ObjectTypeOK'
         /\ slots'[ChaosSlot].id = -o /\ slots'[ChaosSlot].id < 0 /\ ~slots'[ChaosSlot].load_pending
         /\ \A s \in Slots : s # ChaosSlot => slots'[s] = slots[s]
         /\ overtaken' = overtaken \cup ({ChaosSlot} \cap InFlight)
<1> DEFINE y == -o
<1>1. y \in Ids /\ y < 0
  BY ObjectsAssumption DEF Ids
<1>2. slots' = [slots EXCEPT ![ChaosSlot] = [id |-> y, load_pending |-> FALSE]]
  BY DEF RequestOverwrite, OverwrittenSlots
<1> HIDE DEF y
<1>3. slots \in [Slots -> [id : Ids, load_pending : BOOLEAN]] /\ ChaosSlot \in Slots
  BY NumbersAre DEF ObjectTypeOK, Ids
<1>4. /\ slots' \in [Slots -> [id : Ids, load_pending : BOOLEAN]]
      /\ slots'[ChaosSlot] = [id |-> y, load_pending |-> FALSE]
      /\ \A s \in Slots : s # ChaosSlot => slots'[s] = slots[s]
  BY <1>1, <1>2, <1>3
<1>5. slots'[ChaosSlot].id = y /\ ~slots'[ChaosSlot].load_pending
  BY <1>4
<1>6. gLoadedObjects' \subseteq Objects \cup {0}
  BY DEF RequestOverwrite, ObjectTypeOK
<1>7. UNCHANGED <<numEntries, load_requests, next_available_request, pending_request_count, dma, mem>>
  BY DEF RequestOverwrite
<1>8. overtaken' = overtaken \cup ({ChaosSlot} \cap InFlight)
  BY DEF RequestOverwrite
<1>9. ObjectTypeOK'
  BY <1>3, <1>4, <1>6, <1>7, <1>8 DEF ObjectTypeOK, Ids
<1>10. QED BY <1>1, <1>4, <1>5, <1>8, <1>9 DEF y

\* What the program does to the slots, the requests and the loads: nothing, or one of these.
NewRoomStep == /\ dma' = Append(dma, [request |-> Room, slot |-> 0, id |-> 0])
               /\ UNCHANGED <<slots, numEntries, load_requests, next_available_request,
                              pending_request_count, gLoadedObjects, mem, overtaken>>
RoomStep == \E kept \in KeptSlots(RoomList[roomCtx.cur]) :
               /\ SceneCommandObjectList(RoomList[roomCtx.cur], loaded_object_id, kept)
               /\ UNCHANGED dma
EffectStep == \E c \in Spawners :
               /\ RequestOverwrite(ChaosSlot, CodeObject[c])
               /\ loaded_object_id' = CodeObject[c]
               /\ unnoticed' = (unnoticed \/ slots[ChaosSlot].id < 0)

LEMMA ObjectSteps ==
  ASSUME TypeOK, [Next]_vars
  PROVE  \/ EffectStep
         \/ /\ UNCHANGED loaded_object_id
            /\ UNCHANGED objectVars \/ UpdateEntries \/ RoomStep \/ NewRoomStep
               \/ InitContext(loaded_object_id) \/ DmaDone
<1>1. CASE PerformCode
  BY <1>1 DEF PerformCode
<1>2. CASE PerformChicken
  BY <1>2 DEF PerformChicken, chaosVars
<1>3. CASE UpdateObjects
  BY <1>3 DEF UpdateObjects, chaosVars
<1>4. CASE ProcessRoomRequest
  BY <1>4 DEF ProcessRoomRequest, ProcessRoom, RoomStep, chaosVars
<1>5. CASE ProcessFirstRoom
  BY <1>5 DEF ProcessFirstRoom, ProcessRoom, RoomStep, chaosVars
<1>6. CASE SpawnSetupActors
  BY <1>6 DEF SpawnSetupActors, chaosVars
<1>7. CASE UpdateActor
  BY <1>7 DEF UpdateActor, chaosVars
<1>8. CASE RequestNewRoom
  BY <1>8 DEF RequestNewRoom, NewRoomStep, chaosVars
<1>9. CASE FinishRoomChange
  BY <1>9 DEF FinishRoomChange, chaosVars
<1>10. CASE DoorsStayShut
  BY <1>10 DEF DoorsStayShut, chaosVars
<1>11. CASE KillActorAtIndex
  BY <1>11 DEF KillActorAtIndex, chaosVars
<1>12. CASE DropCode
  BY <1>12 DEF DropCode
<1>13. CASE UpdateChaos
  <2>1. CASE UNCHANGED <<objectVars, chaosVars, unnoticed>>
    BY <2>1 DEF chaosVars
  <2>2. CASE \E c \in Draws : ActivateCode(c)
    BY <2>2 DEF ActivateCode
  <2>3. CASE \E c \in Draws : RequestObject(c)
    BY <2>3 DEF RequestObject, EffectStep
  <2>4. QED BY <1>13, <2>1, <2>2, <2>3 DEF UpdateChaos
<1>14. CASE NewScene
  BY <1>14 DEF NewScene, chaosVars
<1>15. CASE Dma
  BY <1>15 DEF Dma, chaosVars
<1>16. CASE UNCHANGED vars
  BY <1>16 DEF vars, chaosVars
<1>17. QED BY <1>1, <1>2, <1>3, <1>4, <1>5, <1>6, <1>7, <1>8, <1>9, <1>10, <1>11, <1>12, <1>13,
              <1>14, <1>15, <1>16 DEF Next, Frame

\* What is assumed of the room and of the object of the effects.
LEMMA RoomIs ==
  ASSUME TypeOK
  PROVE  /\ RoomList[roomCtx.cur] \in Seq(Objects)
         /\ NumPersistent + Len(RoomList[roomCtx.cur]) <= MaxSlots
         /\ loaded_object_id \in Objects \cup {0} /\ loaded_object_id \notin Sizeless
         /\ \A c \in Codes : CodeObject[c] \in Objects \ Sizeless
         /\ \A c \in Spawners : c \in Codes
<1>1. roomCtx.cur \in Rooms
  BY DEF TypeOK
<1>2. \A c \in Codes : CodeObject[c] \in Objects \ Sizeless
  BY ActorsAssumption
<1>3. 0 \notin Sizeless
  BY ObjectsAssumption
<1>4. QED BY <1>1, <1>2, <1>3, ActorsAssumption DEF TypeOK, Spawners

LEMMA ObjectsKeepTypes ==
  ASSUME TypeOK, [Next]_vars
  PROVE  ObjectTypeOK'
<1>0. ObjectTypeOK
  BY DEF TypeOK
<1>1. CASE EffectStep
  BY <1>0, <1>1, OverwriteStep, RoomIs DEF EffectStep
<1>2. CASE UNCHANGED objectVars
  BY <1>0, <1>2 DEF objectVars, ObjectTypeOK
<1>3. CASE UpdateEntries
  BY <1>0, <1>3, UpdateTypes
<1>4. CASE RoomStep
  BY <1>0, <1>4, ListStep, RoomIs DEF RoomStep
<1>5. CASE NewRoomStep
  <2> DEFINE d == dma
             e == [request |-> Room, slot |-> 0, id |-> 0]
  <2>1. d \in Seq(DmaEntries) /\ e \in DmaEntries
    BY <1>0 DEF ObjectTypeOK, DmaEntries
  <2> HIDE DEF d, e
  <2>2. Append(d, e) \in Seq(DmaEntries)
    BY <2>1, AppendProperties
  <2>3. dma' \in Seq(DmaEntries)
    BY <2>2, <1>5 DEF NewRoomStep, d, e
  <2>4. QED BY <2>3, <1>0, <1>5 DEF NewRoomStep, ObjectTypeOK
<1>6. CASE InitContext(loaded_object_id)
  <2>1. loaded_object_id \in Objects \cup {0}
    BY RoomIs
  <2>2. /\ slots' \in [Slots -> [id : Ids, load_pending : BOOLEAN]]
        /\ mem' \in [Slots -> Objects \cup {0}]
        /\ gLoadedObjects' \subseteq Objects \cup {0}
    BY <2>1, <1>6, FreshIs DEF InitContext
  <2>3. numEntries' \in NumPersistent .. MaxSlots
    BY <1>6, NumbersAre DEF InitContext
  <2>4. next_available_request' \in Requests /\ pending_request_count' \in 0 .. MAX_OBJECT_REQUESTS
    BY <1>6, ObjectsAssumption DEF InitContext, Requests
  <2>5. UNCHANGED <<load_requests, dma>> /\ overtaken' = {}
    BY <1>6 DEF InitContext
  <2>6. QED BY <2>2, <2>3, <2>4, <2>5, <1>0 DEF ObjectTypeOK, Ids
<1>7. CASE DmaDone
  BY <1>0, <1>7, DmaStep
<1>8. QED BY <1>1, <1>2, <1>3, <1>4, <1>5, <1>6, <1>7, ObjectSteps

LEMMA StepKeepsOrder ==
  ASSUME TypeOK, RequestsInOrder, [Next]_vars
  PROVE  RequestsInOrder'
<1>0. ObjectTypeOK
  BY DEF TypeOK
<1>1. ASSUME UNCHANGED <<dma, load_requests, next_available_request, pending_request_count>>
      PROVE  RequestsInOrder'
  BY <1>1, RingStays DEF RequestsInOrder, Loads, Waiting, Serves
<1>2. CASE EffectStep
  BY <1>1, <1>2 DEF EffectStep, RequestOverwrite
<1>3. CASE UNCHANGED objectVars
  BY <1>1, <1>3 DEF objectVars
<1>4. CASE UpdateEntries
  BY <1>0, <1>4, UpdateKeepsOrder
<1>5. CASE RoomStep
  BY <1>1, <1>5 DEF RoomStep, SceneCommandObjectList
<1>6. CASE NewRoomStep
  BY <1>0, <1>6, RoomKeepsOrder DEF NewRoomStep
<1>7. CASE InitContext(loaded_object_id)
  <2>1. dma' = <<>> /\ pending_request_count' = 0
    BY <1>7 DEF InitContext
  <2>2. QED BY <2>1 DEF RequestsInOrder, Waiting, Loads, Outstanding
<1>8. CASE DmaDone
  BY <1>0, <1>8, DmaKeepsOrder
<1>9. QED BY <1>2, <1>3, <1>4, <1>5, <1>6, <1>7, <1>8, ObjectSteps

-----------------------------------------------------------------------------
(* The actors.                                                             *)

ActorSet == [st : {"none", "live", "dead"}, inited : BOOLEAN, object : Objects \cup {0},
             slot : Slots, room : Rooms, chaos : BOOLEAN, destroy : BOOLEAN, isDrawn : BOOLEAN]

\* What of an actor no step changes but the one that makes or deletes it.
SameActor(x, y) == x.object = y.object /\ x.slot = y.slot /\ x.room = y.room /\ x.chaos = y.chaos

LEMMA NoActorIs ==
  /\ NoActor \in ActorSet /\ NoActor.st = "none" /\ ~NoActor.isDrawn /\ ~NoActor.chaos
  /\ NoActor.slot # ChaosSlot
<1>1. 0 \in Slots /\ 0 \in Rooms
  BY NumbersAre, ActorsAssumption
<1>2. 0 # ChaosSlot
  BY ObjectsAssumption DEF ChaosSlot
<1>3. QED BY <1>1, <1>2 DEF NoActor, ActorSet

\* An actor that was deleted, or killed and destroyed.
Gone(x, y) == y.st # "live" /\ (SameActor(x, y) \/ y = NoActor)

\* The changes that there are to an actor: to its place in its life,
LEMMA WithState ==
  ASSUME NEW x \in ActorSet, NEW t \in {"none", "live", "dead"}
  PROVE  LET y == [x EXCEPT !.st = t]
         IN /\ y \in ActorSet /\ SameActor(x, y) /\ y.st = t /\ y.inited = x.inited
            /\ y.destroy = x.destroy /\ y.isDrawn = x.isDrawn
BY DEF ActorSet, SameActor

\* to whether it is initialised,
LEMMA WithInited ==
  ASSUME NEW x \in ActorSet, NEW b \in BOOLEAN
  PROVE  LET y == [x EXCEPT !.inited = b]
         IN /\ y \in ActorSet /\ SameActor(x, y) /\ y.st = x.st /\ y.inited = b
            /\ y.destroy = x.destroy /\ y.isDrawn = x.isDrawn
BY DEF ActorSet, SameActor

\* to whether it is drawn,
LEMMA WithDrawn ==
  ASSUME NEW x \in ActorSet, NEW b \in BOOLEAN
  PROVE  LET y == [x EXCEPT !.isDrawn = b]
         IN /\ y \in ActorSet /\ SameActor(x, y) /\ y.st = x.st /\ y.inited = x.inited
            /\ y.destroy = x.destroy /\ y.isDrawn = b
BY DEF ActorSet, SameActor

\* and what Actor_Destroy does.
LEMMA WithDestroyed ==
  ASSUME NEW a \in Actors, actors[a] \in ActorSet
  PROVE  Destroyed(a) \in ActorSet /\ Gone(actors[a], Destroyed(a))
<1> DEFINE x == actors[a]
           b == x.destroy /\ ~x.inited
<1>1. b \in BOOLEAN /\ x \in ActorSet
  BY DEF ActorSet
<1>2. Destroyed(a) = [x EXCEPT !.st = "dead", !.destroy = b]
  BY DEF Destroyed
<1> HIDE DEF b
<1>3. Destroyed(a) \in ActorSet /\ SameActor(x, Destroyed(a)) /\ Destroyed(a).st = "dead"
  BY <1>1, <1>2 DEF ActorSet, SameActor
<1>4. QED BY <1>3 DEF Gone

\* Chaos_SpawnActor and the others take free memory and make an actor whose object has a
\* slot: initialised if the object is there.
LEMMA SpawnIs ==
  ASSUME ObjectTypeOK, NEW o \in Objects, NEW room \in Rooms, NEW chaos \in BOOLEAN, NEW as, CanSpawn(o, as)
  PROVE  /\ FreeActor(as) \in Actors /\ as[FreeActor(as)] = NoActor
         /\ NewActor(o, room, chaos) \in ActorSet
         /\ LET x == NewActor(o, room, chaos)
            IN /\ x.st = "live" /\ x.object = o /\ x.slot \in Slots /\ x.slot < numEntries
               /\ AbsId(x.slot) = o /\ (x.inited <=> IsLoaded(x.slot))
               /\ x.chaos = chaos /\ x.destroy /\ ~x.isDrawn
<1>1. FreeActor(as) \in Actors /\ as[FreeActor(as)] = NoActor
  BY DEF CanSpawn, FreeActor, Free
<1> DEFINE s == ObjectSlot(o)
           own == {t \in NumPersistent .. numEntries - 1 : AbsId(t) = o}
           all == {t \in 0 .. NumPersistent - 1 : AbsId(t) = o}
<1>2. numEntries \in Nat /\ NumPersistent \in Nat /\ NumPersistent <= numEntries
      /\ numEntries <= MaxSlots /\ MaxSlots \in Nat
  BY NumbersAre DEF ObjectTypeOK
<1>3. \A S : S \subseteq Nat /\ S # {} => Min(S) \in S
  <2> SUFFICES ASSUME NEW S, S \subseteq Nat, S # {} PROVE Min(S) \in S
    OBVIOUS
  <2>1. \E x \in S : \A y \in S : x <= y
    BY LeastNat
  <2>2. QED BY <2>1 DEF Min
<1>4. own \subseteq 0 .. numEntries - 1 /\ all \subseteq 0 .. numEntries - 1
      /\ own \subseteq Nat /\ all \subseteq Nat
  BY <1>2
<1>5. s # MaxSlots /\ s = IF FirstOf(own) # MaxSlots THEN FirstOf(own) ELSE FirstOf(all)
  BY DEF CanSpawn, ObjectSlot, GetSlot, GetPersistentSlot
<1>6. s \in 0 .. numEntries - 1 /\ AbsId(s) = o
  <2>1. CASE FirstOf(own) # MaxSlots
    <3>1. s = Min(own) /\ own # {}
      BY <2>1, <1>5 DEF FirstOf
    <3> HIDE DEF s
    <3>2. s \in own
      BY <3>1, <1>3, <1>4
    <3>3. QED BY <3>2, <1>4
  <2>2. CASE FirstOf(own) = MaxSlots
    <3>1. s = Min(all) /\ all # {}
      BY <2>2, <1>5 DEF FirstOf
    <3> HIDE DEF s
    <3>2. s \in all
      BY <3>1, <1>3, <1>4
    <3>3. QED BY <3>2, <1>4
  <2>3. QED BY <2>1, <2>2
<1> DEFINE x == NewActor(o, room, chaos)
           b == IsLoaded(s)
<1>7. x = [st |-> "live", inited |-> b, object |-> o, slot |-> s,
           room |-> room, chaos |-> chaos, destroy |-> TRUE, isDrawn |-> FALSE]
  BY DEF NewActor
<1>8. b \in BOOLEAN
  BY DEF IsLoaded
<1>9. b <=> IsLoaded(s)
  OBVIOUS
<1> HIDE DEF s, x, b
<1>10. s \in Slots /\ s < numEntries
  BY <1>2, <1>6 DEF Slots
<1>11. /\ x \in ActorSet /\ x.st = "live" /\ x.object = o /\ x.slot = s
       /\ x.inited = b /\ x.chaos = chaos /\ x.destroy = TRUE /\ x.isDrawn = FALSE
  BY <1>7, <1>8, <1>10 DEF ActorSet
<1>12. QED BY <1>1, <1>6, <1>9, <1>10, <1>11 DEF x

\* The list as it is in the type invariant.
LEMMA ListIs ==
  ASSUME NEW q
  PROVE  q \in BoundedSeq(Actors, MAX_SPAWNED_ACTORS)
            <=> q \in Seq(Actors) /\ Len(q) <= MAX_SPAWNED_ACTORS
<1>1. MAX_SPAWNED_ACTORS \in Nat
  BY ActorsAssumption
<1>2. ASSUME q \in Seq(Actors), Len(q) <= MAX_SPAWNED_ACTORS
      PROVE  q \in BoundedSeq(Actors, MAX_SPAWNED_ACTORS)
  <2>1. Len(q) \in 0 .. MAX_SPAWNED_ACTORS /\ q \in [1 .. Len(q) -> Actors]
    BY <1>1, <1>2, LenProperties
  <2>2. QED BY <2>1 DEF BoundedSeq, SeqOf
<1>3. ASSUME q \in BoundedSeq(Actors, MAX_SPAWNED_ACTORS)
      PROVE  q \in Seq(Actors) /\ Len(q) <= MAX_SPAWNED_ACTORS
  <2>1. PICK m \in 0 .. MAX_SPAWNED_ACTORS : q \in [1 .. m -> Actors]
    BY <1>3 DEF BoundedSeq, SeqOf
  <2>2. m \in Nat /\ q \in Seq(Actors) /\ Len(q) = m
    BY <2>1, <1>1
  <2>3. QED BY <2>1, <2>2, <1>1
<1>4. QED BY <1>2, <1>3

\* The actors, the list and the room, by themselves.
ActorTypeOK ==
    /\ turn \subseteq Actors
    /\ spawned \in Seq(Actors) /\ Len(spawned) <= MAX_SPAWNED_ACTORS
    /\ actors \in [Actors -> ActorSet]

\* An actor made for a chaos effect, at the end of the list, or none.
LEMMA SpawnStep ==
  ASSUME TypeOK, NEW c \in Codes, SpawnActor(c)
  PROVE  \/ UNCHANGED <<spawned, actors>>
         \/ /\ Len(spawned) < MAX_SPAWNED_ACTORS
            /\ \E room \in Rooms :
                  /\ CanSpawn(CodeObject[c], actors)
                  /\ spawned' = Append(spawned, FreeActor(actors))
                  /\ actors' = [actors EXCEPT ![FreeActor(actors)] = NewActor(CodeObject[c], room, TRUE)]
<1>1. 0 \in Rooms /\ roomCtx.cur \in Rooms
  BY ActorsAssumption DEF TypeOK
<1>2. QED BY <1>1 DEF SpawnActor

\* The parts of the type invariant that the proofs below use.
LEMMA TypesAre ==
  ASSUME TypeOK
  PROVE  /\ ObjectTypeOK /\ ActorTypeOK
         /\ \A a \in Actors : actors[a] \in ActorSet /\ actors[a].slot \in Slots
                              /\ actors[a].object \in Objects \cup {0}
                              /\ actors[a].inited \in BOOLEAN /\ actors[a].destroy \in BOOLEAN
                              /\ actors[a].chaos \in BOOLEAN
         /\ spawned \in Seq(Actors) /\ ToSet(spawned) \subseteq Actors
         /\ \A S \in SUBSET Actors : IsFiniteSet(S)
<1>1. ObjectTypeOK /\ ActorTypeOK
  BY ListIs DEF TypeOK, ActorTypeOK, ActorSet
<1>2. \A a \in Actors : actors[a] \in ActorSet /\ actors[a].slot \in Slots
                        /\ actors[a].object \in Objects \cup {0}
                        /\ actors[a].inited \in BOOLEAN /\ actors[a].destroy \in BOOLEAN
                        /\ actors[a].chaos \in BOOLEAN
  BY <1>1 DEF ActorTypeOK, ActorSet
<1>3. spawned \in Seq(Actors) /\ ToSet(spawned) \subseteq Actors
  <2>1. spawned \in Seq(Actors)
    BY <1>1 DEF ActorTypeOK
  <2>2. \A i \in 1 .. Len(spawned) : spawned[i] \in Actors
    BY <2>1, ElementOfSeq
  <2>3. DOMAIN spawned = 1 .. Len(spawned)
    BY <2>1, LenProperties
  <2>4. QED BY <2>1, <2>2, <2>3 DEF ToSet
<1>4. \A S \in SUBSET Actors : IsFiniteSet(S)
  BY ActorsAssumption, FS_Subset
<1>5. QED BY <1>1, <1>2, <1>3, <1>4

\* Actor_UpdateActor updates one actor whose turn it is and leaves the others.
LEMMA UpdateActorStep ==
  ASSUME TypeOK, UpdateActor
  PROVE  \E a \in turn :
            LET x == actors[a] IN
            /\ a \in Actors /\ turn' = turn \ {a}
            /\ actors' \in [Actors -> ActorSet]
            /\ \A b \in Actors \ {a} : actors'[b] = actors[b]
            /\ \/ /\ x.st # "none" /\ ~x.inited /\ SameActor(x, actors'[a]) /\ actors'[a].st = x.st
                  /\ actors'[a].destroy = x.destroy
                  /\ (actors'[a].inited <=> IsLoaded(x.slot)) /\ UNCHANGED spawned
               \/ /\ x.st = "dead" /\ x.inited /\ spawned' = AfterDestroy({a})
                  /\ Gone(x, actors'[a])
               \/ /\ x.st = "live" /\ x.inited /\ SameActor(x, actors'[a]) /\ actors'[a].inited
                  /\ actors'[a].destroy = x.destroy /\ actors'[a].st # "none"
                  /\ (actors'[a].st = "live" => IsLoaded(x.slot)) /\ UNCHANGED spawned
               \/ x.st = "none" /\ UNCHANGED <<actors, spawned>>
<1> DEFINE a == Min(turn)
           x == actors[a]
<1>1. a \in turn /\ a \in Actors
  <2>1. turn \subseteq Actors /\ turn # {} /\ Actors \subseteq Nat
    BY ActorsAssumption DEF UpdateActor, TypeOK
  <2>2. \E y \in turn : \A z \in turn : y <= z
    BY <2>1, LeastNat
  <2>3. QED BY <2>1, <2>2 DEF Min
<1>2. actors \in [Actors -> ActorSet]
  BY TypesAre DEF ActorTypeOK
<1>3. /\ turn' = turn \ {a}
      /\ \/ /\ x.st # "none" /\ ~x.inited
            /\ actors' = [actors EXCEPT ![a].inited = IsLoaded(x.slot)]
            /\ UNCHANGED spawned
         \/ /\ x.st = "dead" /\ x.inited
            /\ spawned' = AfterDestroy({a})
            /\ actors' = [actors EXCEPT ![a] = IF x.isDrawn THEN Destroyed(a) ELSE NoActor]
         \/ /\ x.st = "live" /\ x.inited
            /\ \E dies \in BOOLEAN :
                  actors' = [actors EXCEPT ![a].st = IF dies \/ ~IsLoaded(x.slot) THEN "dead" ELSE "live"]
            /\ UNCHANGED spawned
         \/ x.st = "none" /\ UNCHANGED <<actors, spawned>>
  BY DEF UpdateActor
<1> DEFINE y == actors'[a]
           Goal == /\ actors' \in [Actors -> ActorSet]
                   /\ \A b \in Actors \ {a} : actors'[b] = actors[b]
                   /\ \/ /\ x.st # "none" /\ ~x.inited /\ SameActor(x, y) /\ y.st = x.st
                         /\ y.destroy = x.destroy
                         /\ (y.inited <=> IsLoaded(x.slot)) /\ UNCHANGED spawned
                      \/ /\ x.st = "dead" /\ x.inited /\ spawned' = AfterDestroy({a})
                         /\ Gone(x, y)
                      \/ /\ x.st = "live" /\ x.inited /\ SameActor(x, y) /\ y.inited
                         /\ y.destroy = x.destroy /\ y.st # "none"
                         /\ (y.st = "live" => IsLoaded(x.slot)) /\ UNCHANGED spawned
                      \/ x.st = "none" /\ UNCHANGED <<actors, spawned>>
<1> HIDE DEF a
<1>4. x \in ActorSet
  BY <1>1, <1>2
<1>5. ASSUME x.st # "none", ~x.inited, UNCHANGED spawned,
             actors' = [actors EXCEPT ![a].inited = IsLoaded(x.slot)]
      PROVE  Goal
  <2> DEFINE b == IsLoaded(x.slot)
             z == [x EXCEPT !.inited = b]
  <2>1. b \in BOOLEAN
    BY DEF IsLoaded
  <2>2. actors' = [actors EXCEPT ![a] = z]
    BY <1>1, <1>2, <1>5
  <2>3. z \in ActorSet /\ z.inited = b /\ SameActor(x, z) /\ z.st = x.st /\ z.destroy = x.destroy
    BY <1>4, <2>1, WithInited
  <2> HIDE DEF z, b
  <2>4. /\ actors' \in [Actors -> ActorSet] /\ y = z
        /\ \A c \in Actors \ {a} : actors'[c] = actors[c]
    BY <1>1, <1>2, <2>2, <2>3
  <2>5. y.inited <=> IsLoaded(x.slot)
    BY <2>3, <2>4 DEF b
  <2>6. QED BY <1>5, <2>3, <2>4, <2>5
<1>6. ASSUME x.st = "dead", x.inited, spawned' = AfterDestroy({a}),
             actors' = [actors EXCEPT ![a] = IF x.isDrawn THEN Destroyed(a) ELSE NoActor]
      PROVE  Goal
  <2> DEFINE z == IF x.isDrawn THEN Destroyed(a) ELSE NoActor
  <2>1. Destroyed(a) \in ActorSet /\ Gone(x, Destroyed(a))
    BY <1>1, <1>4, WithDestroyed
  <2>2. z \in ActorSet /\ Gone(x, z)
    BY <2>1, NoActorIs DEF Gone
  <2> HIDE DEF z
  <2>3. /\ actors' \in [Actors -> ActorSet] /\ y = z
        /\ \A c \in Actors \ {a} : actors'[c] = actors[c]
    BY <1>1, <1>2, <1>6, <2>2 DEF z
  <2>4. QED BY <1>6, <2>2, <2>3
<1>7. ASSUME x.st = "live", x.inited, UNCHANGED spawned, NEW dies \in BOOLEAN,
             actors' = [actors EXCEPT ![a].st = IF dies \/ ~IsLoaded(x.slot) THEN "dead" ELSE "live"]
      PROVE  Goal
  <2> DEFINE t == IF dies \/ ~IsLoaded(x.slot) THEN "dead" ELSE "live"
             z == [x EXCEPT !.st = t]
  <2>1. t \in {"none", "live", "dead"} /\ t # "none" /\ (t = "live" => IsLoaded(x.slot))
    OBVIOUS
  <2>2. actors' = [actors EXCEPT ![a] = z]
    BY <1>1, <1>2, <1>7
  <2> HIDE DEF t
  <2>3. z \in ActorSet /\ z.inited = x.inited /\ SameActor(x, z) /\ z.st = t /\ z.destroy = x.destroy
    BY <1>4, <2>1, WithState
  <2> HIDE DEF z
  <2>4. /\ actors' \in [Actors -> ActorSet] /\ y = z
        /\ \A c \in Actors \ {a} : actors'[c] = actors[c]
    BY <1>1, <1>2, <2>2, <2>3
  <2>5. QED BY <1>7, <2>1, <2>3, <2>4
<1>8. ASSUME x.st = "none", UNCHANGED <<actors, spawned>> PROVE Goal
  BY <1>8, <1>2
<1>9. Goal
  BY <1>3, <1>5, <1>6, <1>7, <1>8
<1>10. QED BY <1>1, <1>3, <1>9

\* What does not change of an actor that at most dies.
AtMostDies(x, y) ==
    /\ SameActor(x, y) /\ y.inited = x.inited /\ y.destroy = x.destroy
    /\ y.st = x.st \/ (x.st # "none" /\ y.st = "dead")

\* A room that comes kills actors whose slots it takes.
LEMMA RoomKills ==
  ASSUME TypeOK, NEW kept, ProcessRoom(kept)
  PROVE  /\ actors' \in [Actors -> ActorSet]
         /\ \A a \in Actors :
               /\ AtMostDies(actors[a], actors'[a])
               /\ actors'[a].st = "live" =>
                     NumPersistent + kept = numEntries
                     \/ (IsLoaded(actors[a].slot) /\ ~ (actors[a].slot >= NumPersistent + kept))
<1> DEFINE all == NumPersistent + kept = numEntries
           dies(a) == actors[a].st = "live"
                        /\ (~IsLoaded(actors[a].slot) \/ actors[a].slot >= NumPersistent + kept)
<1>1. actors \in [Actors -> ActorSet]
  BY TypesAre DEF ActorTypeOK
<1>2. actors' = IF all THEN actors
                ELSE [a \in Actors |-> IF dies(a) THEN [actors[a] EXCEPT !.st = "dead"] ELSE actors[a]]
  BY DEF ProcessRoom
<1>3. ASSUME NEW a \in Actors
      PROVE  /\ actors'[a] \in ActorSet /\ AtMostDies(actors[a], actors'[a])
             /\ ~all /\ dies(a) => actors'[a].st = "dead"
             /\ all \/ ~dies(a) => actors'[a] = actors[a]
  <2> DEFINE x == actors[a]
             z == [x EXCEPT !.st = "dead"]
  <2>1. x \in ActorSet
    BY <1>1
  <2>2. actors'[a] = IF ~all /\ dies(a) THEN z ELSE x
    BY <1>2
  <2>3. dies(a) => x.st # "none"
    OBVIOUS
  <2> HIDE DEF x, dies, all
  <2>4. z \in ActorSet /\ SameActor(x, z) /\ z.st = "dead" /\ z.inited = x.inited /\ z.destroy = x.destroy
    BY <2>1, WithState
  <2> HIDE DEF z
  <2>5. SameActor(x, x)
    BY DEF SameActor
  <2>6. QED BY <2>1, <2>2, <2>3, <2>4, <2>5 DEF AtMostDies, x
<1>4. actors' \in [Actors -> ActorSet]
  <2>1. actors' = [a \in Actors |-> actors'[a]]
    BY <1>1, <1>2
  <2>2. QED BY <2>1, <1>3
<1>5. ASSUME NEW a \in Actors, actors'[a].st = "live"
      PROVE  all \/ (IsLoaded(actors[a].slot) /\ ~ (actors[a].slot >= NumPersistent + kept))
  <2>1. actors[a].st = "live"
    BY <1>3, <1>5 DEF AtMostDies
  <2>2. all \/ ~dies(a)
    BY <1>3, <1>5
  <2>3. QED BY <2>1, <2>2
<1>6. QED BY <1>3, <1>4, <1>5

\* Room_FinishRoomChange deletes, or kills, the actors of the room that is left.
LEMMA FinishStep ==
  ASSUME TypeOK, FinishRoomChange
  PROVE  \E left \in SUBSET Actors :
            /\ spawned' = AfterDestroy(left)
            /\ actors' \in [Actors -> ActorSet]
            /\ \A a \in Actors : /\ a \notin left => actors'[a] = actors[a]
                                 /\ a \in left => Gone(actors[a], actors'[a])
            /\ forgotten' = (forgotten \/ \E a \in left : ~actors[a].inited /\ a \in ToSet(spawned))
<1>1. actors \in [Actors -> ActorSet]
  BY TypesAre DEF ActorTypeOK
<1>2. PICK left \in SUBSET Actors :
         /\ spawned' = AfterDestroy(left)
         /\ actors' = [a \in Actors |-> IF a \notin left THEN actors[a]
                                        ELSE IF actors[a].isDrawn THEN Destroyed(a) ELSE NoActor]
         /\ forgotten' = (forgotten \/ \E a \in left : ~actors[a].inited /\ a \in ToSet(spawned))
  BY DEF FinishRoomChange
<1>3. ASSUME NEW a \in Actors
      PROVE  /\ actors'[a] \in ActorSet
             /\ a \notin left => actors'[a] = actors[a]
             /\ a \in left => Gone(actors[a], actors'[a])
  <2>1. Destroyed(a) \in ActorSet /\ Gone(actors[a], Destroyed(a))
    BY <1>1, WithDestroyed
  <2>2. NoActor \in ActorSet /\ Gone(actors[a], NoActor)
    BY NoActorIs DEF Gone
  <2>3. QED BY <1>1, <1>2, <2>1, <2>2
<1>4. actors' \in [Actors -> ActorSet]
  <2>1. actors' = [a \in Actors |-> actors'[a]]
    BY <1>2
  <2>2. QED BY <2>1, <1>3
<1>5. QED BY <1>2, <1>3, <1>4

\* Chaos_KillActorAtIndex kills one that it takes out of the list.
LEMMA KillStep ==
  ASSUME TypeOK, KillActorAtIndex
  PROVE  \E i \in 1 .. Len(spawned) :
            /\ spawned' = DropActorAtIndex(spawned, i)
            /\ actors' \in [Actors -> ActorSet]
            /\ \A a \in Actors :
                  /\ SameActor(actors[a], actors'[a]) /\ actors'[a].destroy = actors[a].destroy
                  /\ actors'[a] = actors[a] \/ actors'[a].st = "dead"
<1>1. actors \in [Actors -> ActorSet] /\ spawned \in Seq(Actors)
  BY TypesAre DEF ActorTypeOK
<1>2. PICK i \in 1 .. Len(spawned) :
         /\ spawned' = DropActorAtIndex(spawned, i)
         /\ actors' = [actors EXCEPT ![spawned[i]].st = "dead"]
  <2>1. DOMAIN spawned = 1 .. Len(spawned)
    BY <1>1, LenProperties
  <2>2. QED BY <2>1 DEF KillActorAtIndex
<1> DEFINE b == spawned[i]
           x == actors[b]
           z == [x EXCEPT !.st = "dead"]
<1>3. b \in Actors /\ b \in ToSet(spawned)
  BY <1>1, ElementOfSeq, LenProperties DEF ToSet
<1>4. actors' = [actors EXCEPT ![b] = z]
  BY <1>1, <1>2, <1>3
<1> HIDE DEF b
<1>5. z \in ActorSet /\ SameActor(x, z) /\ z.st = "dead" /\ z.inited = x.inited /\ z.destroy = x.destroy
  BY <1>1, <1>3, WithState
<1> HIDE DEF z
<1>6. actors' \in [Actors -> ActorSet]
  BY <1>1, <1>3, <1>4, <1>5
<1>7. ASSUME NEW a \in Actors
      PROVE  /\ SameActor(actors[a], actors'[a]) /\ actors'[a].destroy = actors[a].destroy
             /\ actors'[a] = actors[a] \/ actors'[a].st = "dead"
  <2>1. CASE a = b
    <3>1. actors'[a] = z /\ actors[a] = x
      BY <2>1, <1>1, <1>3, <1>4
    <3>2. QED BY <3>1, <1>5
  <2>2. CASE a # b
    <3>1. actors'[a] = actors[a]
      BY <2>2, <1>1, <1>4
    <3>2. QED BY <3>1 DEF SameActor
  <2>3. QED BY <2>1, <2>2
<1>8. QED BY <1>2, <1>3, <1>6, <1>7

\* The drawing of a frame changes nothing but who is drawn.
LEMMA DrawStep ==
  ASSUME TypeOK, DrawFrame
  PROVE  /\ actors' \in [Actors -> ActorSet]
         /\ \A a \in Actors :
               /\ actors[a].st = "none" => actors'[a] = NoActor
               /\ actors[a].st # "none" => AtMostDies(actors[a], actors'[a]) /\ actors'[a].st = actors[a].st
               /\ actors'[a].isDrawn => actors[a].st = "live" /\ actors[a].inited
                                        /\ SameActor(actors[a], actors'[a])
<1>1. actors \in [Actors -> ActorSet]
  BY TypesAre DEF ActorTypeOK
<1>2. PICK seen \in BOOLEAN :
         actors' = [a \in Actors |->
                      IF actors[a].st = "none" THEN NoActor
                      ELSE [actors[a] EXCEPT !.isDrawn = seen /\ actors[a].st = "live" /\ actors[a].inited]]
  BY DEF DrawFrame
<1>3. ASSUME NEW a \in Actors
      PROVE  /\ actors'[a] \in ActorSet
             /\ actors[a].st = "none" => actors'[a] = NoActor
             /\ actors[a].st # "none" => AtMostDies(actors[a], actors'[a]) /\ actors'[a].st = actors[a].st
             /\ actors'[a].isDrawn => actors[a].st = "live" /\ actors[a].inited
                                      /\ SameActor(actors[a], actors'[a])
  <2> DEFINE x == actors[a]
             b == seen /\ x.st = "live" /\ x.inited
             z == [x EXCEPT !.isDrawn = b]
  <2>1. x \in ActorSet /\ actors'[a] = IF x.st = "none" THEN NoActor ELSE z
    BY <1>1, <1>2
  <2>2. b \in BOOLEAN /\ (b => x.st = "live" /\ x.inited)
    BY <2>1 DEF ActorSet
  <2> HIDE DEF x, b
  <2>3. z \in ActorSet /\ SameActor(x, z) /\ z.st = x.st /\ z.inited = x.inited /\ z.destroy = x.destroy
        /\ z.isDrawn = b
    BY <2>1, <2>2, WithDrawn
  <2> HIDE DEF z
  <2>4. QED BY <2>1, <2>2, <2>3, NoActorIs DEF AtMostDies, x
<1>4. actors' \in [Actors -> ActorSet]
  <2>1. actors' = [a \in Actors |-> actors'[a]]
    BY <1>2
  <2>2. QED BY <2>1, <1>3
<1>5. QED BY <1>3, <1>4

\* An actor that is made for a chaos effect.
LEMMA SpawnedStep ==
  ASSUME TypeOK, NEW c \in Codes, SpawnActor(c)
  PROVE  /\ actors' \in [Actors -> ActorSet]
         /\ spawned' \in Seq(Actors) /\ Len(spawned') <= MAX_SPAWNED_ACTORS
         /\ \/ UNCHANGED <<spawned, actors>>
            \/ /\ FreeActor(actors) \in Actors /\ actors[FreeActor(actors)] = NoActor
               /\ spawned' = Append(spawned, FreeActor(actors))
               /\ \A a \in Actors \ {FreeActor(actors)} : actors'[a] = actors[a]
               /\ LET x == actors'[FreeActor(actors)]
                  IN /\ x.st = "live" /\ x.object = CodeObject[c] /\ x.slot \in Slots /\ x.slot < numEntries
                     /\ AbsId(x.slot) = x.object /\ (x.inited <=> IsLoaded(x.slot))
                     /\ x.chaos /\ x.destroy /\ ~x.isDrawn
<1>1. actors \in [Actors -> ActorSet] /\ spawned \in Seq(Actors) /\ Len(spawned) <= MAX_SPAWNED_ACTORS
  BY TypesAre DEF ActorTypeOK
<1>2. CASE UNCHANGED <<spawned, actors>>
  BY <1>1, <1>2
<1>3. ASSUME Len(spawned) < MAX_SPAWNED_ACTORS, NEW room \in Rooms, CanSpawn(CodeObject[c], actors),
             spawned' = Append(spawned, FreeActor(actors)),
             actors' = [actors EXCEPT ![FreeActor(actors)] = NewActor(CodeObject[c], room, TRUE)]
      PROVE  /\ actors' \in [Actors -> ActorSet]
             /\ spawned' \in Seq(Actors) /\ Len(spawned') <= MAX_SPAWNED_ACTORS
             /\ FreeActor(actors) \in Actors /\ actors[FreeActor(actors)] = NoActor
             /\ spawned' = Append(spawned, FreeActor(actors))
             /\ \A a \in Actors \ {FreeActor(actors)} : actors'[a] = actors[a]
             /\ LET x == actors'[FreeActor(actors)]
                IN /\ x.st = "live" /\ x.object = CodeObject[c] /\ x.slot \in Slots /\ x.slot < numEntries
                   /\ AbsId(x.slot) = x.object /\ (x.inited <=> IsLoaded(x.slot))
                   /\ x.chaos /\ x.destroy /\ ~x.isDrawn
  <2> DEFINE f == FreeActor(actors)
             o == CodeObject[c]
             y == NewActor(o, room, TRUE)
  <2>1. ObjectTypeOK /\ o \in Objects
    BY TypesAre, RoomIs
  <2>2. /\ f \in Actors /\ actors[f] = NoActor /\ y \in ActorSet
        /\ y.st = "live" /\ y.object = o /\ y.slot \in Slots /\ y.slot < numEntries
        /\ AbsId(y.slot) = o /\ (y.inited <=> IsLoaded(y.slot))
        /\ y.chaos = TRUE /\ y.destroy /\ ~y.isDrawn
    BY <2>1, <1>3, SpawnIs
  <2> HIDE DEF f, y, o
  <2>3. actors' = [actors EXCEPT ![f] = y]
    BY <1>3 DEF f, y, o
  <2>4. actors' \in [Actors -> ActorSet] /\ actors'[f] = y
        /\ \A a \in Actors \ {f} : actors'[a] = actors[a]
    BY <1>1, <2>2, <2>3
  <2>5. spawned' \in Seq(Actors) /\ Len(spawned') = Len(spawned) + 1
    BY <1>1, <1>3, <2>2, AppendProperties DEF f
  <2>6. Len(spawned') <= MAX_SPAWNED_ACTORS
    BY <1>1, <1>3, <2>5, LenProperties, ActorsAssumption
  <2>7. QED BY <1>3, <2>2, <2>4, <2>5, <2>6 DEF f, o
<1>4. QED BY <1>2, <1>3, SpawnStep

\* What an actor is when it is made, for a room or for a chaos effect.
IsNew(x) ==
    /\ x.st = "live" /\ x.object # 0 /\ x.slot \in Slots /\ x.slot < numEntries
    /\ AbsId(x.slot) = x.object /\ (x.inited <=> IsLoaded(x.slot)) /\ ~x.isDrawn

\* Actors of the room, those whose half day is over and one that is made: none that a chaos
\* effect made.
LEMMA SetupStep ==
  ASSUME TypeOK, SpawnSetupActors
  PROVE  /\ actors' \in [Actors -> ActorSet] /\ UNCHANGED spawned
         /\ \A a \in Actors :
               \/ actors'[a] = actors[a]
               \/ ~actors[a].chaos /\ (Gone(actors[a], actors'[a]) \/ IsNew(actors'[a]))
<1>1. actors \in [Actors -> ActorSet] /\ UNCHANGED spawned
  BY TypesAre DEF ActorTypeOK, SpawnSetupActors
<1>2. PICK over \in SUBSET {a \in Actors : actors[a].st # "none" /\ ~actors[a].chaos} :
         \/ actors' = AfterHalfDay(over)
         \/ \E o \in ToSet(RoomList[roomCtx.cur]) :
               /\ CanSpawn(o, AfterHalfDay(over))
               /\ actors' = [AfterHalfDay(over) EXCEPT
                                ![FreeActor(AfterHalfDay(over))] = NewActor(o, roomCtx.cur, FALSE)]
  BY DEF SpawnSetupActors
<1> DEFINE left == AfterHalfDay(over)
<1>3. ASSUME NEW a \in Actors
      PROVE  /\ left[a] \in ActorSet
             /\ left[a] = actors[a] \/ (~actors[a].chaos /\ Gone(actors[a], left[a]))
  <2>1. Destroyed(a) \in ActorSet /\ Gone(actors[a], Destroyed(a))
    BY <1>1, WithDestroyed
  <2>2. left[a] = IF a \notin over THEN actors[a] ELSE IF actors[a].isDrawn THEN Destroyed(a) ELSE NoActor
    BY DEF AfterHalfDay
  <2>3. a \in over => ~actors[a].chaos
    OBVIOUS
  <2>4. NoActor \in ActorSet /\ Gone(actors[a], NoActor)
    BY NoActorIs DEF Gone
  <2>5. QED BY <1>1, <2>1, <2>2, <2>3, <2>4
<1>4. left \in [Actors -> ActorSet]
  <2>1. left = [a \in Actors |-> left[a]]
    BY DEF AfterHalfDay
  <2>2. QED BY <2>1, <1>3
<1> HIDE DEF left
<1>5. CASE actors' = left
  BY <1>1, <1>3, <1>4, <1>5
<1>6. ASSUME NEW o \in ToSet(RoomList[roomCtx.cur]), CanSpawn(o, left),
             actors' = [left EXCEPT ![FreeActor(left)] = NewActor(o, roomCtx.cur, FALSE)]
      PROVE  /\ actors' \in [Actors -> ActorSet]
             /\ \A a \in Actors :
                   \/ actors'[a] = actors[a]
                   \/ ~actors[a].chaos /\ (Gone(actors[a], actors'[a]) \/ IsNew(actors'[a]))
  <2> DEFINE f == FreeActor(left)
             y == NewActor(o, roomCtx.cur, FALSE)
  <2>1. ObjectTypeOK /\ roomCtx.cur \in Rooms
    BY TypesAre DEF TypeOK
  <2>2. o \in Objects /\ o # 0
    <3>1. RoomList[roomCtx.cur] \in Seq(Objects)
      BY RoomIs
    <3>2. o \in Objects
      BY <3>1, LenProperties, ElementOfSeq DEF ToSet
    <3>3. QED BY <3>2, ObjectsAssumption
  <2>3. f \in Actors /\ left[f] = NoActor /\ y \in ActorSet /\ IsNew(y)
    <3>1. /\ f \in Actors /\ left[f] = NoActor /\ y \in ActorSet
          /\ y.st = "live" /\ y.object = o /\ y.slot \in Slots /\ y.slot < numEntries
          /\ AbsId(y.slot) = o /\ (y.inited <=> IsLoaded(y.slot)) /\ ~y.isDrawn
      BY <2>1, <2>2, <1>6, SpawnIs
    <3>2. QED BY <3>1, <2>2 DEF IsNew
  <2>4. ~actors[f].chaos
    <3>1. left[f].st = "none" /\ ~NoActor.chaos
      BY <2>3, NoActorIs DEF NoActor
    <3>2. QED BY <3>1, <2>3, <1>3
  <2> HIDE DEF f, y
  <2>5. actors' = [left EXCEPT ![f] = y]
    BY <1>6 DEF f, y
  <2>6. actors' \in [Actors -> ActorSet] /\ actors'[f] = y
        /\ \A a \in Actors \ {f} : actors'[a] = left[a]
    BY <1>4, <2>3, <2>5
  <2>7. QED BY <2>3, <2>4, <2>6, <1>3
<1>7. QED BY <1>1, <1>2, <1>5, <1>6 DEF left

LEMMA ActorsKeepTypes ==
  ASSUME TypeOK, [Next]_vars
  PROVE  ActorTypeOK'
<1>0. /\ ActorTypeOK /\ turn \subseteq Actors /\ spawned \in Seq(Actors)
      /\ Len(spawned) <= MAX_SPAWNED_ACTORS /\ Len(spawned) \in Nat /\ MAX_SPAWNED_ACTORS \in Nat
  BY TypesAre, LenProperties, ActorsAssumption DEF ActorTypeOK
<1>1. ASSUME UNCHANGED <<turn, spawned, actors>> PROVE ActorTypeOK'
  BY <1>0, <1>1 DEF ActorTypeOK
<1>2. ASSUME NEW S \in SUBSET Actors, spawned' = AfterDestroy(S)
      PROVE  spawned' \in Seq(Actors) /\ Len(spawned') <= MAX_SPAWNED_ACTORS
  <2>1. spawned' \in Seq(Actors) /\ Len(spawned') <= Len(spawned)
    BY <1>0, <1>2, TypesAre, AfterDestroyIs
  <2>2. Len(spawned') \in Nat
    BY <2>1, LenProperties
  <2>3. QED BY <2>1, <2>2, <1>0
<1>3. CASE PerformCode
  <2>1. PICK c \in active : SpawnActor(c)
    BY <1>3 DEF PerformCode
  <2>2. c \in Codes
    BY DEF TypeOK
  <2>3. QED BY <2>1, <2>2, <1>0, <1>3, SpawnedStep DEF PerformCode, ActorTypeOK
<1>4. CASE PerformChicken
  <2>1. CASE SpawnActor(Chicken)
    <3>1. Chicken \in Codes
      BY ActorsAssumption DEF Spawners
    <3>2. QED BY <3>1, <2>1, <1>0, <1>4, SpawnedStep DEF PerformChicken, ActorTypeOK
  <2>2. CASE UNCHANGED <<spawned, actors>>
    BY <2>2, <1>1, <1>4 DEF PerformChicken
  <2>3. QED BY <2>1, <2>2, <1>4 DEF PerformChicken
<1>5. CASE UpdateObjects
  BY <1>1, <1>5 DEF UpdateObjects
<1>6. CASE ProcessRoomRequest
  <2>1. turn' \subseteq Actors
    BY <1>6 DEF ProcessRoomRequest
  <2>2. CASE UNCHANGED <<objectVars, spawned, actors, roomCtx>>
    BY <2>1, <2>2, <1>0 DEF ActorTypeOK
  <2>3. ASSUME NEW kept, ProcessRoom(kept) PROVE ActorTypeOK'
    <3>1. actors' \in [Actors -> ActorSet] /\ spawned' = <<>>
      BY <2>3, RoomKills DEF ProcessRoom
    <3>2. QED BY <2>1, <3>1, <1>0 DEF ActorTypeOK
  <2>4. QED BY <2>2, <2>3, <1>6 DEF ProcessRoomRequest
<1>7. CASE ProcessFirstRoom
  <2>1. PICK kept : ProcessRoom(kept)
    BY <1>7 DEF ProcessFirstRoom
  <2>2. actors' \in [Actors -> ActorSet] /\ spawned' = <<>>
    BY <2>1, RoomKills DEF ProcessRoom
  <2>3. QED BY <2>2, <1>0, <1>7 DEF ProcessFirstRoom, ActorTypeOK
<1>8. CASE SpawnSetupActors
  BY <1>8, <1>0, SetupStep DEF SpawnSetupActors, ActorTypeOK
<1>9. CASE UpdateActor
  <2>1. PICK a \in turn :
           /\ turn' = turn \ {a} /\ actors' \in [Actors -> ActorSet]
           /\ UNCHANGED spawned \/ spawned' = AfterDestroy({a})
    BY <1>9, UpdateActorStep
  <2>2. {a} \in SUBSET Actors
    BY <1>0
  <2>3. QED BY <2>1, <2>2, <1>0, <1>2 DEF ActorTypeOK
<1>10. CASE RequestNewRoom
  BY <1>1, <1>10 DEF RequestNewRoom
<1>11. CASE FinishRoomChange
  <2>1. PICK left \in SUBSET Actors : spawned' = AfterDestroy(left) /\ actors' \in [Actors -> ActorSet]
    BY <1>11, FinishStep
  <2>2. QED BY <2>1, <1>0, <1>2, <1>11 DEF FinishRoomChange, ActorTypeOK
<1>12. CASE DoorsStayShut
  BY <1>1, <1>12 DEF DoorsStayShut
<1>13. CASE KillActorAtIndex
  <2>1. PICK i \in 1 .. Len(spawned) :
           spawned' = DropActorAtIndex(spawned, i) /\ actors' \in [Actors -> ActorSet]
    BY <1>13, KillStep
  <2>2. spawned' \in Seq(Actors) /\ Len(spawned') = Len(spawned) - 1
    BY <2>1, <1>0, DropAtIs
  <2>3. QED BY <2>1, <2>2, <1>0, <1>13 DEF KillActorAtIndex, ActorTypeOK
<1>14. CASE DropCode
  BY <1>1, <1>14 DEF DropCode
<1>15. CASE UpdateChaos
  <2>1. DrawFrame
    BY <1>15 DEF UpdateChaos
  <2>2. QED BY <2>1, <1>0, DrawStep DEF DrawFrame, ActorTypeOK
<1>16. CASE NewScene
  <2>1. spawned' = AfterDestroy({a \in Actors : actors[a].st # "none"})
        /\ actors' = [a \in Actors |-> NoActor] /\ turn' = turn
    BY <1>16 DEF NewScene
  <2>2. actors' \in [Actors -> ActorSet]
    BY <2>1, NoActorIs
  <2>3. QED BY <2>1, <2>2, <1>0, <1>2 DEF ActorTypeOK
<1>17. CASE Dma
  BY <1>1, <1>17 DEF Dma
<1>18. CASE UNCHANGED vars
  BY <1>1, <1>18 DEF vars
<1>19. QED BY <1>3, <1>4, <1>5, <1>6, <1>7, <1>8, <1>9, <1>10, <1>11, <1>12, <1>13, <1>14, <1>15,
              <1>16, <1>17, <1>18 DEF Next, Frame

\* The rest of the type invariant.
Phases == {"play", "entries", "room", "first", "actors", "chaos"}
CodeTypeOK ==
    /\ phase \in Phases
    /\ active \subseteq Codes
    /\ queued_spawn_actor_code \in Spawners \cup {NoCode}
    /\ loaded_object_id \in {CodeObject[c] : c \in Spawners} \cup {0}
    /\ moves \in 0 .. MaxMoves
    /\ forgotten \in BOOLEAN /\ unnoticed \in BOOLEAN
RoomCtxs == [cur : Rooms, prev : Rooms \cup {-1}, status : {0, 1}, setup : BOOLEAN]

LEMMA TypeParts == TypeOK <=> ObjectTypeOK /\ ActorTypeOK /\ CodeTypeOK /\ roomCtx \in RoomCtxs
BY ListIs DEF TypeOK, ActorTypeOK, CodeTypeOK, Phases, RoomCtxs, ActorSet

LEMMA CodesKeepTypes ==
  ASSUME TypeOK, [Next]_vars
  PROVE  CodeTypeOK'
<1> USE DEF CodeTypeOK, Phases, chaosVars, historyVars
<1>0. CodeTypeOK
  BY TypeParts
<1>1. CASE PerformCode
  BY <1>0, <1>1 DEF PerformCode
<1>2. CASE PerformChicken
  BY <1>0, <1>2 DEF PerformChicken, LeftOut, Before
<1>3. CASE UpdateObjects
  BY <1>0, <1>3 DEF UpdateObjects, LeftOut, Before
<1>4. CASE ProcessRoomRequest
  BY <1>0, <1>4 DEF ProcessRoomRequest, Before
<1>5. CASE ProcessFirstRoom
  BY <1>0, <1>5 DEF ProcessFirstRoom
<1>6. CASE SpawnSetupActors
  BY <1>0, <1>6 DEF SpawnSetupActors
<1>7. CASE UpdateActor
  BY <1>0, <1>7 DEF UpdateActor
<1>8. CASE RequestNewRoom
  <2>1. moves' \in 0 .. MaxMoves
    BY <1>0, <1>8, ActorsAssumption DEF RequestNewRoom
  <2>2. QED BY <1>0, <1>8, <2>1 DEF RequestNewRoom
<1>9. CASE FinishRoomChange
  BY <1>0, <1>9 DEF FinishRoomChange
<1>10. CASE DoorsStayShut
  BY <1>0, <1>10 DEF DoorsStayShut
<1>11. CASE KillActorAtIndex
  BY <1>0, <1>11 DEF KillActorAtIndex
<1>12. CASE DropCode
  BY <1>0, <1>12 DEF DropCode
<1>13. CASE UpdateChaos
  <2>1. phase' = "play" /\ UNCHANGED <<moves, forgotten>>
    BY <1>13 DEF UpdateChaos, DrawFrame
  <2>2. CASE UNCHANGED <<objectVars, chaosVars, unnoticed>>
    BY <1>0, <2>1, <2>2
  <2>3. ASSUME NEW c \in Draws, ActivateCode(c) PROVE CodeTypeOK'
    <3>1. c \in Codes
      BY <1>0 DEF Draws, QueueReady, Spawners
    <3>2. QED BY <1>0, <2>1, <2>3, <3>1 DEF ActivateCode
  <2>4. ASSUME NEW c \in Draws, RequestObject(c) PROVE CodeTypeOK'
    BY <1>0, <2>1, <2>4 DEF RequestObject
  <2>5. QED BY <1>13, <2>2, <2>3, <2>4 DEF UpdateChaos
<1>14. CASE NewScene
  <2>1. moves' \in 0 .. MaxMoves
    BY <1>0, <1>14, ActorsAssumption DEF NewScene
  <2>2. QED BY <1>0, <1>14, <2>1 DEF NewScene
<1>15. CASE Dma
  BY <1>0, <1>15 DEF Dma
<1>16. CASE UNCHANGED vars
  BY <1>0, <1>16 DEF vars
<1>17. QED BY <1>1, <1>2, <1>3, <1>4, <1>5, <1>6, <1>7, <1>8, <1>9, <1>10, <1>11, <1>12, <1>13,
              <1>14, <1>15, <1>16 DEF Next, Frame

LEMMA RoomKeepsType ==
  ASSUME TypeOK, [Next]_vars
  PROVE  roomCtx' \in RoomCtxs
<1>0. roomCtx \in RoomCtxs
  BY TypeParts
<1>1. ASSUME UNCHANGED roomCtx PROVE roomCtx' \in RoomCtxs
  BY <1>0, <1>1
<1>2. ASSUME NEW kept, ProcessRoom(kept) PROVE roomCtx' \in RoomCtxs
  BY <1>0, <1>2 DEF ProcessRoom, RoomCtxs
<1>3. CASE PerformCode
  BY <1>1, <1>3 DEF PerformCode
<1>4. CASE PerformChicken
  BY <1>1, <1>4 DEF PerformChicken
<1>5. CASE UpdateObjects
  BY <1>1, <1>5 DEF UpdateObjects
<1>6. CASE ProcessRoomRequest
  BY <1>1, <1>2, <1>6 DEF ProcessRoomRequest
<1>7. CASE ProcessFirstRoom
  BY <1>2, <1>7 DEF ProcessFirstRoom
<1>8. CASE SpawnSetupActors
  BY <1>0, <1>8 DEF SpawnSetupActors, RoomCtxs
<1>9. CASE UpdateActor
  BY <1>1, <1>9 DEF UpdateActor
<1>10. CASE RequestNewRoom
  BY <1>0, <1>10 DEF RequestNewRoom, RoomCtxs
<1>11. CASE FinishRoomChange
  <2>1. PICK stays \in {roomCtx.cur, roomCtx.prev} :
           roomCtx' = [roomCtx EXCEPT !.cur = stays, !.prev = -1] /\ roomCtx.prev >= 0
    BY <1>11 DEF FinishRoomChange
  <2>2. stays \in Rooms
    BY <2>1, <1>0 DEF RoomCtxs
  <2>3. QED BY <1>0, <2>1, <2>2 DEF RoomCtxs
<1>12. CASE DoorsStayShut
  BY <1>1, <1>12 DEF DoorsStayShut
<1>13. CASE KillActorAtIndex
  BY <1>1, <1>13 DEF KillActorAtIndex
<1>14. CASE DropCode
  BY <1>1, <1>14 DEF DropCode
<1>15. CASE UpdateChaos
  BY <1>1, <1>15 DEF UpdateChaos, DrawFrame
<1>16. CASE NewScene
  <2>1. 0 \in Rooms
    BY ActorsAssumption
  <2>2. QED BY <1>16, <2>1 DEF NewScene, FirstRoom, RoomCtxs
<1>17. CASE Dma
  BY <1>1, <1>17 DEF Dma
<1>18. CASE UNCHANGED vars
  BY <1>1, <1>18 DEF vars
<1>19. QED BY <1>3, <1>4, <1>5, <1>6, <1>7, <1>8, <1>9, <1>10, <1>11, <1>12, <1>13, <1>14, <1>15,
              <1>16, <1>17, <1>18 DEF Next, Frame

\* At the start.
LEMMA InitTypes ==
  ASSUME Init
  PROVE  TypeOK /\ RequestsInOrder
<1>1. ObjectTypeOK
  <2>1. 0 \in Objects \cup {0}
    OBVIOUS
  <2>2. /\ FreshSlots(0) \in [Slots -> [id : Ids, load_pending : BOOLEAN]]
        /\ [s \in Slots |-> IF s < Len(Persistent) THEN Persistent[s + 1] ELSE 0]
              \in [Slots -> Objects \cup {0}]
        /\ ToSet(Persistent) \subseteq Objects
    BY <2>1, FreshIs
  <2>3. numEntries \in NumPersistent .. MaxSlots /\ 0 \in Slots
    BY NumbersAre DEF Init, ObjectInit
  <2>4. next_available_request \in Requests /\ pending_request_count \in 0 .. MAX_OBJECT_REQUESTS
    BY ObjectsAssumption DEF Init, ObjectInit, Requests
  <2>5. load_requests \in [Requests -> [slot : Slots, done : BOOLEAN]]
    BY <2>3 DEF Init, ObjectInit
  <2>6. QED BY <2>2, <2>3, <2>4, <2>5 DEF Init, ObjectInit, ObjectTypeOK, Ids
<1>2. ActorTypeOK
  <2>1. actors \in [Actors -> ActorSet]
    BY NoActorIs DEF Init
  <2>2. Len(spawned) <= MAX_SPAWNED_ACTORS /\ spawned \in Seq(Actors)
    BY ActorsAssumption, EmptySeq DEF Init
  <2>3. QED BY <2>1, <2>2 DEF Init, ActorTypeOK
<1>3. CodeTypeOK /\ roomCtx \in RoomCtxs
  <2>1. roomCtx \in RoomCtxs
    BY ActorsAssumption DEF Init, FirstRoom, RoomCtxs
  <2>2. forgotten \in BOOLEAN /\ unnoticed \in BOOLEAN
    BY DEF Init
  <2>3. /\ phase \in Phases /\ active \subseteq Codes
        /\ queued_spawn_actor_code \in Spawners \cup {NoCode}
        /\ loaded_object_id \in {CodeObject[c] : c \in Spawners} \cup {0}
        /\ moves \in 0 .. MaxMoves
    BY ActorsAssumption DEF Init, Phases
  <2>4. QED BY <2>1, <2>2, <2>3 DEF CodeTypeOK
<1>4. RequestsInOrder
  BY NoRequestsInOrder DEF Init, ObjectInit
<1>5. QED BY <1>1, <1>2, <1>3, <1>4, TypeParts

-----------------------------------------------------------------------------

\* Every step keeps the types and the order of the loads.
LEMMA BasicStep ==
  ASSUME TypeOK, RequestsInOrder, [Next]_vars
  PROVE  TypeOK' /\ RequestsInOrder'
<1>1. ObjectTypeOK' /\ ActorTypeOK' /\ CodeTypeOK' /\ roomCtx' \in RoomCtxs
  BY ObjectsKeepTypes, ActorsKeepTypes, CodesKeepTypes, RoomKeepsType
<1>2. TypeOK'
  <2>1. spawned' \in BoundedSeq(Actors, MAX_SPAWNED_ACTORS)
    BY <1>1, ListIs DEF ActorTypeOK
  <2>2. QED BY <1>1, <2>1 DEF TypeOK, ActorTypeOK, CodeTypeOK, Phases, RoomCtxs, ActorSet
<1>3. QED BY <1>2, StepKeepsOrder

\* The state is always one that the types allow: no slot beyond those there are, no request
\* beyond the ring, no more chaos actors than the list has room for (Object_InitContext,
\* Scene_CommandObjectList, Object_UpdateEntries, Chaos_SpawnActor).
THEOREM ObjectTypesAreCorrect == Spec => []TypeOK
<1>1. Init => TypeOK /\ RequestsInOrder
  BY InitTypes
<1>2. TypeOK /\ RequestsInOrder /\ [Next]_vars => (TypeOK /\ RequestsInOrder)'
  BY BasicStep
<1>3. QED BY <1>1, <1>2, PTL DEF Spec

\* The loads in flight are the requests without a message, in their order, however the ring
\* wraps (Object_UpdateEntries).
THEOREM LoadsAreInOrder == Spec => []RequestsInOrder
<1>1. Init => TypeOK /\ RequestsInOrder
  BY InitTypes
<1>2. TypeOK /\ RequestsInOrder /\ [Next]_vars => (TypeOK /\ RequestsInOrder)'
  BY BasicStep
<1>3. QED BY <1>1, <1>2, PTL DEF Spec

-----------------------------------------------------------------------------
(* What a slot says of its memory, unless a load in flight was meant for   *)
(* another object of it.                                                   *)

\* A request is for a slot that waits for it, its object being in memory once the message is
\* there, or that was cleared; requests are for different slots.  A load is of the object of
\* its slot, a slot with a positive id has its object.  The persistent objects are loaded.
SlotInv ==
    /\ \A j \in 1 .. pending_request_count :
          LET r == load_requests[Outstanding[j]] IN
          r.slot \notin overtaken /\ slots[r.slot].id # 0 =>
             /\ r.slot < numEntries /\ slots[r.slot].id < 0 /\ slots[r.slot].load_pending
             /\ r.done => mem[r.slot] = -slots[r.slot].id
    /\ \A i, j \in 1 .. pending_request_count :
          LET r == load_requests[Outstanding[i]] IN
          r.slot \notin overtaken /\ r.slot = load_requests[Outstanding[j]].slot => i = j
    /\ \A k \in Loads :
          dma[k].slot \notin overtaken /\ slots[dma[k].slot].id # 0 =>
             dma[k].id = -slots[dma[k].slot].id
    /\ \A s \in Slots \ overtaken : slots[s].id > 0 => mem[s] = slots[s].id
    /\ \A s \in Slots : s < Len(Persistent) => slots[s].id > 0 /\ s \notin overtaken

\* What Object_UpdateEntries makes of each slot, whatever its loads were meant for.
LEMMA AnySlotMoves ==
  ASSUME ObjectTypeOK, UpdateEntries, NEW s \in Slots
  PROVE  /\ \/ slots'[s].id = slots[s].id
            \/ slots'[s].id = -slots[s].id
            \/ slots'[s].id = 0 /\ AbsId(s) \in Sizeless
         /\ slots'[s].load_pending <=> s \in Issued \/ slots[s].load_pending
         /\ UNCHANGED overtaken
<1>1. /\ slots'[s].id = IF s \in Served \ Issued THEN 0 ELSE IdAfterLoads(s)
      /\ slots'[s].load_pending <=> s \in Issued \/ slots[s].load_pending
  BY SlotsUpdate
<1>2. s \in Served \ Issued => AbsId(s) \in Sizeless
  BY DEF Issued, Sized
<1>3. IdAfterLoads(s) = slots[s].id \/ IdAfterLoads(s) = -slots[s].id
  BY DEF IdAfterLoads
<1>4. UNCHANGED overtaken
  BY DEF UpdateEntries
<1>5. QED BY <1>1, <1>2, <1>3, <1>4

\* What it makes of the others.
LEMMA SlotMoves ==
  ASSUME ObjectTypeOK, SlotInv, UpdateEntries, NEW s \in Slots, s \notin overtaken
  PROVE  /\ \/ /\ \E k \in 1 .. Finished : s = load_requests[Outstanding[k]].slot
               /\ slots[s].id <= 0 /\ slots'[s].id = -slots[s].id
            \/ /\ \A k \in 1 .. Finished : s # load_requests[Outstanding[k]].slot
               /\ slots'[s].id = slots[s].id
            \/ /\ \A k \in 1 .. Finished : s # load_requests[Outstanding[k]].slot
               /\ slots'[s].id = 0 /\ slots[s].id < 0 /\ ~slots[s].load_pending
               /\ AbsId(s) \in Sizeless
         /\ s \in Issued => slots'[s].id = slots[s].id /\ slots[s].id < 0 /\ ~slots[s].load_pending
                            /\ s < numEntries /\ AbsId(s) = -slots[s].id
<1> DEFINE R(k) == load_requests[Outstanding[k]]
           y == IdAfterLoads(s)
           x == slots[s].id
<1>1. Finished \in 0 .. pending_request_count /\ pending_request_count \in Nat
  BY FinishedIs, OutstandingIs
<1>2. x \in Int /\ slots[s].load_pending \in BOOLEAN /\ (x < 0 => AbsId(s) = -x)
  BY IdsAre
<1>3. /\ slots'[s].id = IF s \in Served \ Issued THEN 0 ELSE y
      /\ Turns(s) = {} => y = x
      /\ (\E k \in 1 .. Finished : Turns(s) = {k}) => y = -x
  BY SlotsUpdate
<1>4. s \in Served => s < numEntries /\ y < 0 /\ ~slots[s].load_pending
  <2>1. numEntries \in Nat
    BY NumbersAre DEF ObjectTypeOK
  <2>2. QED BY <2>1 DEF Served, Wanting
<1>5. s \in Served \ Issued => AbsId(s) \in Sizeless
  BY DEF Issued, Sized
<1>6. s \in Issued => s \in Served
  BY DEF Issued, Sized
<1>7. Turns(s) = {k \in 1 .. Finished : R(k).slot = s}
  BY DEF Turns
<1>8. \A k \in 1 .. Finished : R(k).slot = s =>
         x <= 0 /\ \A i \in 1 .. Finished : R(i).slot = s => i = k
  <2> SUFFICES ASSUME NEW k \in 1 .. Finished, R(k).slot = s
               PROVE  x <= 0 /\ \A i \in 1 .. Finished : R(i).slot = s => i = k
    OBVIOUS
  <2>1. k \in 1 .. pending_request_count /\ \A i \in 1 .. Finished : i \in 1 .. pending_request_count
    BY <1>1
  <2>2. x # 0 => x < 0
    BY <2>1 DEF SlotInv
  <2>3. \A i \in 1 .. Finished : R(i).slot = s => i = k
    BY <2>1 DEF SlotInv
  <2> HIDE DEF x
  <2>4. QED BY <2>2, <2>3, <1>2
<1> HIDE DEF y, x, R
<1>9. CASE \E k \in 1 .. Finished : s = R(k).slot
  <2>1. PICK k \in 1 .. Finished : s = R(k).slot
    BY <1>9
  <2>2. Turns(s) = {k}
    BY <2>1, <1>7, <1>8
  <2>3. y = -x /\ x <= 0
    BY <2>1, <2>2, <1>3, <1>8
  <2>4. s \notin Served
    BY <2>3, <1>2, <1>4
  <2>5. slots'[s].id = -x
    BY <2>3, <2>4, <1>3
  <2>6. QED BY <2>1, <2>3, <2>4, <2>5, <1>3, <1>6 DEF x, R
<1>10. CASE \A k \in 1 .. Finished : s # R(k).slot
  <2>1. Turns(s) = {}
    BY <1>7, <1>10
  <2>2. y = x
    BY <2>1, <1>3
  <2>3. CASE s \in Served \ Issued
    BY <2>2, <2>3, <1>3, <1>4, <1>5, <1>10 DEF x, R
  <2>4. CASE s \notin Served \ Issued
    BY <2>2, <2>4, <1>2, <1>3, <1>4, <1>6, <1>10 DEF x, R
  <2>5. QED BY <2>3, <2>4
<1>11. QED BY <1>9, <1>10

LEMMA UpdateKeepsSlots ==
  ASSUME ObjectTypeOK, RequestsInOrder, SlotInv, UpdateEntries
  PROVE  SlotInv'
<1> DEFINE p == pending_request_count
           a == Finished
           c == Cardinality(Issued)
           q == p - a
           n == Len(dma)
           R(j) == load_requests[Outstanding[j]]
           R2(j) == load_requests'[Outstanding'[j]]
<1>1. p \in Nat /\ a \in 0 .. p /\ c \in Nat /\ q \in 0 .. p /\ n \in Nat
  BY FinishedIs, IssuedAre, OutstandingIs, FS_CardinalityType, DmaUpdate
<1>2. /\ p' = q + c /\ DOMAIN dma = 1 .. n /\ DOMAIN dma' = 1 .. n + c
      /\ DOMAIN Outstanding = 1 .. p
  <2>1. dma \in Seq(DmaEntries) /\ dma' \in Seq(DmaEntries) /\ Len(dma') = n + c
    BY DmaUpdate DEF ObjectTypeOK
  <2>2. QED BY <2>1, RingUpdate, OutstandingIs, LenProperties
<1>3. /\ \A k \in 1 .. q : R2(k) = R(k + a)
      /\ \A k \in 1 .. c : R2(q + k).slot = Nth(Issued, k - 1) /\ ~R2(q + k).done
  BY RequestsUpdate, NewRequests
<1>4. \A k \in 1 .. c : Nth(Issued, k - 1) \in Issued
  BY NewRequests
<1>5. \A k, l \in 1 .. c : Nth(Issued, k - 1) = Nth(Issued, l - 1) => k = l
  <2> TAKE k, l \in 1 .. c
  <2>1. k - 1 \in 0 .. c - 1 /\ l - 1 \in 0 .. c - 1
    BY <1>1
  <2>2. Rank(Issued, Nth(Issued, k - 1)) = k - 1 /\ Rank(Issued, Nth(Issued, l - 1)) = l - 1
    BY <2>1, IssuedAre, NthIs
  <2>3. Nth(Issued, k - 1) = Nth(Issued, l - 1) => k - 1 = l - 1
    BY <2>2
  <2>4. QED BY <2>1, <2>3
<1>6. \A j \in 1 .. p : R(j) \in [slot : Slots, done : BOOLEAN] /\ R(j).slot \in Slots
  <2>1. load_requests \in [Requests -> [slot : Slots, done : BOOLEAN]]
    BY DEF ObjectTypeOK
  <2>2. \A j \in 1 .. p : R(j) \in [slot : Slots, done : BOOLEAN]
    BY <2>1, OutstandingIs
  <2>3. QED BY <2>2
<1>7. \A j \in 1 .. p : R(j).slot \notin overtaken /\ slots[R(j).slot].id # 0 =>
         /\ R(j).slot < numEntries /\ slots[R(j).slot].id < 0 /\ slots[R(j).slot].load_pending
         /\ R(j).done => mem[R(j).slot] = -slots[R(j).slot].id
  BY DEF SlotInv
<1>8. \A i, j \in 1 .. p : R(i).slot \notin overtaken /\ R(i).slot = R(j).slot => i = j
  BY DEF SlotInv
<1>9. \A k \in 1 .. q : k + a \in 1 .. p /\ k + a \notin 1 .. a
  BY <1>1 DEF q
<1>10. \A j \in 1 .. p' : j \in 1 .. q \/ \E k \in 1 .. c : j = q + k
  <2> SUFFICES ASSUME NEW j \in 1 .. q + c, j \notin 1 .. q PROVE \E k \in 1 .. c : j = q + k
    BY <1>2
  <2>1. j - q \in 1 .. c /\ j = q + (j - q)
    BY <1>1
  <2>2. QED BY <2>1
<1>11. /\ \A k \in 1 .. a : k \in 1 .. p
       /\ numEntries' = numEntries /\ mem' = mem /\ overtaken' = overtaken
  <2>1. numEntries' = numEntries /\ mem' = mem /\ overtaken' = overtaken
    BY DEF UpdateEntries
  <2> HIDE DEF a, p
  <2>2. \A k \in 1 .. a : k \in 1 .. p
    BY <1>1
  <2>3. QED BY <2>1, <2>2
<1>12. Issued \subseteq Slots
  BY IssuedAre
<1>13. \A s \in Slots : slots[s].id \in Int /\ slots[s].load_pending \in BOOLEAN
  BY IdsAre
<1>14. \A s \in Slots \ overtaken :
         /\ \/ /\ \E k \in 1 .. a : s = R(k).slot
               /\ slots[s].id <= 0 /\ slots'[s].id = -slots[s].id
            \/ /\ \A k \in 1 .. a : s # R(k).slot
               /\ slots'[s].id = slots[s].id
            \/ /\ \A k \in 1 .. a : s # R(k).slot
               /\ slots'[s].id = 0 /\ slots[s].id < 0 /\ ~slots[s].load_pending
         /\ slots'[s].load_pending <=> s \in Issued \/ slots[s].load_pending
         /\ s \in Issued => slots'[s].id = slots[s].id /\ slots[s].id < 0 /\ ~slots[s].load_pending
                            /\ s < numEntries /\ AbsId(s) = -slots[s].id
  <2> SUFFICES ASSUME NEW s \in Slots, s \notin overtaken
               PROVE  /\ \/ /\ \E k \in 1 .. a : s = R(k).slot
                            /\ slots[s].id <= 0 /\ slots'[s].id = -slots[s].id
                         \/ /\ \A k \in 1 .. a : s # R(k).slot
                            /\ slots'[s].id = slots[s].id
                         \/ /\ \A k \in 1 .. a : s # R(k).slot
                            /\ slots'[s].id = 0 /\ slots[s].id < 0 /\ ~slots[s].load_pending
                      /\ slots'[s].load_pending <=> s \in Issued \/ slots[s].load_pending
                      /\ s \in Issued => /\ slots'[s].id = slots[s].id /\ slots[s].id < 0
                                         /\ ~slots[s].load_pending /\ s < numEntries
                                         /\ AbsId(s) = -slots[s].id
    OBVIOUS
  <2>1. QED BY SlotMoves, AnySlotMoves
<1>15. \A k \in 1 .. a : R(k).done
  BY FinishedIs
<1>16. \A k \in Loads : \E j \in Waiting : dma[k].slot = R(j).slot
  BY DEF RequestsInOrder, Serves
<1>17. \A j \in Waiting : j \in 1 .. p /\ ~R(j).done
  BY <1>2 DEF Waiting
<1>18. /\ \A i \in 1 .. n : dma'[i] = dma[i]
       /\ \A k \in 1 .. c : /\ dma'[n + k].slot = Nth(Issued, k - 1)
                            /\ dma'[n + k].id = AbsId(Nth(Issued, k - 1))
  BY DmaUpdate, NewRequests
<1>19. \A k \in Loads : dma[k].slot \notin overtaken /\ slots[dma[k].slot].id # 0 =>
          dma[k].id = -slots[dma[k].slot].id
  BY DEF SlotInv
<1>20. \A s \in Slots : /\ s \notin overtaken /\ slots[s].id > 0 => mem[s] = slots[s].id
                        /\ s < Len(Persistent) => slots[s].id > 0 /\ s \notin overtaken
  BY DEF SlotInv
<1> HIDE DEF p, a, c, q, n, R, R2
\* A request that stays leaves its slot as it is.
<1>21. \A j \in 1 .. p : j \notin 1 .. a /\ R(j).slot \notin overtaken =>
          /\ slots'[R(j).slot].id = slots[R(j).slot].id
          /\ slots[R(j).slot].id # 0 => slots'[R(j).slot].load_pending
  <2> SUFFICES ASSUME NEW j \in 1 .. p, j \notin 1 .. a, R(j).slot \notin overtaken
               PROVE  /\ slots'[R(j).slot].id = slots[R(j).slot].id
                      /\ slots[R(j).slot].id # 0 => slots'[R(j).slot].load_pending
    OBVIOUS
  <2> DEFINE s == R(j).slot
  <2>1. s \in Slots \ overtaken /\ (slots[s].id # 0 => slots[s].load_pending)
    BY <1>6, <1>7
  <2>2. \A k \in 1 .. a : s # R(k).slot
    BY <1>8, <1>11
  <2> HIDE DEF s
  <2>3. slots'[s].id = slots[s].id /\ (slots[s].id # 0 => slots'[s].load_pending)
    BY <2>1, <2>2, <1>13, <1>14
  <2>4. QED BY <2>3 DEF s
<1>22. ASSUME NEW j \in 1 .. p', R2(j).slot \notin overtaken', slots'[R2(j).slot].id # 0
       PROVE  /\ R2(j).slot < numEntries' /\ slots'[R2(j).slot].id < 0 /\ slots'[R2(j).slot].load_pending
              /\ R2(j).done => mem'[R2(j).slot] = -slots'[R2(j).slot].id
  <2>1. CASE j \in 1 .. q
    <3>1. R2(j) = R(j + a) /\ j + a \in 1 .. p /\ j + a \notin 1 .. a
      BY <2>1, <1>3, <1>9
    <3>2. QED BY <3>1, <1>7, <1>11, <1>21, <1>22
  <2>2. CASE \E k \in 1 .. c : j = q + k
    <3>1. PICK k \in 1 .. c : j = q + k
      BY <2>2
    <3>2. R2(j).slot \in Issued /\ ~R2(j).done
      BY <3>1, <1>3, <1>4
    <3> DEFINE s == R2(j).slot
    <3>3. s \in Slots \ overtaken /\ s \in Issued
      BY <3>2, <1>11, <1>12, <1>22
    <3> HIDE DEF s
    <3>4. s < numEntries' /\ slots'[s].id < 0 /\ slots'[s].load_pending
      BY <3>3, <1>11, <1>14
    <3>5. QED BY <3>2, <3>4 DEF s
  <2>3. QED BY <2>1, <2>2, <1>10
<1>23. \A k \in 1 .. c, j \in 1 .. p : R(j).slot \notin overtaken => R(j).slot # Nth(Issued, k - 1)
  <2> SUFFICES ASSUME NEW k \in 1 .. c, NEW j \in 1 .. p, R(j).slot \notin overtaken,
                      R(j).slot = Nth(Issued, k - 1)
               PROVE  FALSE
    OBVIOUS
  <2> DEFINE s == R(j).slot
  <2>1. s \in Slots \ overtaken /\ s \in Issued /\ (slots[s].id # 0 => slots[s].load_pending)
    BY <1>4, <1>6, <1>7
  <2> HIDE DEF s
  <2>2. QED BY <2>1, <1>14
<1>24. ASSUME NEW i \in 1 .. p', NEW j \in 1 .. p', R2(i).slot \notin overtaken', R2(i).slot = R2(j).slot
       PROVE  i = j
  <2>1. CASE i \in 1 .. q /\ j \in 1 .. q
    <3>1. R2(i) = R(i + a) /\ R2(j) = R(j + a) /\ i + a \in 1 .. p /\ j + a \in 1 .. p
      BY <2>1, <1>3, <1>9
    <3>2. i + a = j + a
      BY <3>1, <1>8, <1>11, <1>24
    <3>3. QED BY <3>2, <2>1, <1>1
  <2>2. CASE i \in 1 .. q /\ \E k \in 1 .. c : j = q + k
    <3>1. R2(i) = R(i + a) /\ i + a \in 1 .. p
      BY <2>2, <1>3, <1>9
    <3>2. QED BY <3>1, <2>2, <1>3, <1>11, <1>23, <1>24
  <2>3. CASE (\E k \in 1 .. c : i = q + k) /\ j \in 1 .. q
    <3>1. R2(j) = R(j + a) /\ j + a \in 1 .. p
      BY <2>3, <1>3, <1>9
    <3>2. QED BY <3>1, <2>3, <1>3, <1>11, <1>23, <1>24
  <2>4. CASE (\E k \in 1 .. c : i = q + k) /\ (\E k \in 1 .. c : j = q + k)
    BY <2>4, <1>3, <1>5, <1>24
  <2>5. QED BY <2>1, <2>2, <2>3, <2>4, <1>10
<1>25. ASSUME NEW k \in Loads', dma'[k].slot \notin overtaken', slots'[dma'[k].slot].id # 0
       PROVE  dma'[k].id = -slots'[dma'[k].slot].id
  <2>1. k \in 1 .. n + c /\ dma'[k].request # Room
    BY <1>2 DEF Loads
  <2>2. CASE k \in 1 .. n
    <3>1. k \in Loads /\ dma'[k] = dma[k]
      BY <2>1, <2>2, <1>2, <1>18 DEF Loads
    <3>2. PICK j \in Waiting : dma[k].slot = R(j).slot
      BY <3>1, <1>16
    <3>3. j \in 1 .. p /\ j \notin 1 .. a
      BY <1>15, <1>17
    <3>4. QED BY <3>1, <3>2, <3>3, <1>11, <1>19, <1>21, <1>25
  <2>3. CASE k \notin 1 .. n
    <3>1. k - n \in 1 .. c /\ n + (k - n) = k
      BY <2>1, <2>3, <1>1
    <3> DEFINE s == Nth(Issued, (k - n) - 1)
    <3>2. s \in Issued /\ s \in Slots /\ dma'[k].slot = s /\ dma'[k].id = AbsId(s)
      BY <3>1, <1>4, <1>12, <1>18
    <3> HIDE DEF s
    <3>3. QED BY <3>2, <1>11, <1>14, <1>25
  <2>4. QED BY <2>2, <2>3
<1>26. ASSUME NEW s \in Slots \ overtaken', slots'[s].id > 0 PROVE mem'[s] = slots'[s].id
  <2>0. s \in Slots /\ s \notin overtaken
    BY <1>11
  <2>1. CASE \E k \in 1 .. a : s = R(k).slot
    <3>1. PICK k \in 1 .. a : s = R(k).slot
      BY <2>1
    <3>2. k \in 1 .. p /\ R(k).done
      BY <1>11, <1>15
    <3>3. slots'[s].id = -slots[s].id
      BY <2>0, <2>1, <1>14
    <3>4. slots[s].id # 0
      BY <3>3, <1>26
    <3>5. mem[s] = -slots[s].id
      BY <2>0, <3>1, <3>2, <3>4, <1>7
    <3>6. QED BY <3>3, <3>5, <1>11
  <2>2. CASE \A k \in 1 .. a : s # R(k).slot
    <3>1. slots'[s].id = slots[s].id
      BY <2>0, <2>2, <1>14, <1>26
    <3>2. QED BY <2>0, <3>1, <1>11, <1>20, <1>26
  <2>3. QED BY <2>1, <2>2
<1>27. ASSUME NEW s \in Slots, s < Len(Persistent) PROVE slots'[s].id > 0 /\ s \notin overtaken'
  BY <1>11, <1>13, <1>14, <1>20, <1>27
<1>28. QED BY <1>22, <1>24, <1>25, <1>26, <1>27 DEF SlotInv, R2, p

\* The DMA manager brings the object of the head to the slot that waits for it.
LEMMA DmaKeepsSlots ==
  ASSUME ObjectTypeOK, RequestsInOrder, SlotInv, DmaDone
  PROVE  SlotInv'
<1> DEFINE n == Len(dma)
           p == pending_request_count
           O == Outstanding
           e == dma[1]
           R(j) == load_requests[O[j]]
           R2(j) == load_requests'[Outstanding'[j]]
<1>1. /\ n \in Nat \ {0} /\ DOMAIN dma = 1 .. n /\ DOMAIN dma' = 1 .. n - 1
      /\ \A k \in 1 .. n - 1 : dma'[k] = dma[k + 1]
      /\ e \in DmaEntries
      /\ \A s \in Slots : mem'[s] = IF e.request # Room /\ e.slot = s THEN e.id ELSE mem[s]
  BY DmaStep
<1>2. Outstanding' = O /\ p' = p /\ slots' = slots /\ numEntries' = numEntries
      /\ overtaken' = overtaken
  BY RingStays DEF DmaDone
<1>3. DOMAIN O = 1 .. p /\ \A j \in 1 .. p : O[j] \in Requests
  BY OutstandingIs
<1>4. \A j \in 1 .. p : /\ R2(j).slot = R(j).slot
                        /\ R2(j).done <=> R(j).done \/ O[j] = e.request
  BY <1>2, <1>3, DmaStep
<1>5. \A j \in 1 .. p : R(j).slot \in Slots
  <2>1. load_requests \in [Requests -> [slot : Slots, done : BOOLEAN]]
    BY DEF ObjectTypeOK
  <2>2. \A j \in 1 .. p : R(j) \in [slot : Slots, done : BOOLEAN]
    BY <2>1, <1>3
  <2>3. QED BY <2>2
<1>6. \A j \in 1 .. p : R(j).slot \notin overtaken /\ slots[R(j).slot].id # 0 =>
         /\ R(j).slot < numEntries /\ slots[R(j).slot].id < 0 /\ slots[R(j).slot].load_pending
         /\ R(j).done => mem[R(j).slot] = -slots[R(j).slot].id
  BY DEF SlotInv
<1>7. \A i, j \in 1 .. p : R(i).slot \notin overtaken /\ R(i).slot = R(j).slot => i = j
  BY DEF SlotInv
<1>8. \A k \in Loads :
         /\ dma[k].slot \notin overtaken /\ slots[dma[k].slot].id # 0 =>
               dma[k].id = -slots[dma[k].slot].id
         /\ \E j \in 1 .. p : O[j] = dma[k].request /\ R(j).slot = dma[k].slot /\ ~R(j).done
  <2>1. \A j \in Waiting : j \in 1 .. p /\ ~R(j).done
    BY <1>3 DEF Waiting
  <2>2. QED BY <2>1 DEF SlotInv, RequestsInOrder, Serves
<1>9. \A s \in Slots : /\ s \notin overtaken /\ slots[s].id > 0 => mem[s] = slots[s].id
                       /\ s < Len(Persistent) => slots[s].id > 0 /\ s \notin overtaken
  BY DEF SlotInv
<1>10. e.request # Room => 1 \in Loads
  BY <1>1 DEF Loads
<1>11. \A k \in Loads' : k + 1 \in Loads /\ dma'[k] = dma[k + 1]
  BY <1>1 DEF Loads
<1>12. \A s \in Slots : slots[s].id \in Int
  BY IdsAre
<1>13. \A i, j \in 1 .. p : O[i] = O[j] => i = j
  BY OutstandingIs
<1> HIDE DEF n, p, O, R, R2
\* The head is for a request whose slot waits.
<1>14. e.request # Room =>
         /\ e.slot \notin overtaken /\ slots[e.slot].id # 0 =>
               slots[e.slot].id < 0 /\ e.id = -slots[e.slot].id
         /\ \E j \in 1 .. p : O[j] = e.request /\ R(j).slot = e.slot
  BY <1>6, <1>8, <1>10
<1>15. ASSUME NEW j \in 1 .. p, R2(j).done, R(j).slot \notin overtaken, slots[R(j).slot].id # 0
       PROVE  mem'[R(j).slot] = -slots[R(j).slot].id
  <2>0. R(j).slot \in Slots
    BY <1>5
  <2>1. CASE O[j] = e.request
    <3>1. e.request # Room
      BY <2>1, <1>1, <1>3, EntriesAre
    <3>2. R(j).slot = e.slot
      BY <2>1, <3>1, <1>13, <1>14
    <3>3. QED BY <2>0, <3>1, <3>2, <1>1, <1>14, <1>15
  <2>2. CASE O[j] # e.request
    <3>1. mem[R(j).slot] = -slots[R(j).slot].id
      BY <2>2, <1>4, <1>6, <1>15
    <3>2. ~ (e.request # Room /\ e.slot = R(j).slot)
      BY <2>2, <1>7, <1>14, <1>15
    <3>3. QED BY <2>0, <3>1, <3>2, <1>1
  <2>3. QED BY <2>1, <2>2
<1>16. ASSUME NEW s \in Slots, s \notin overtaken, slots[s].id > 0 PROVE mem'[s] = slots[s].id
  <2>1. ~ (e.request # Room /\ e.slot = s)
    BY <1>12, <1>14, <1>16
  <2>2. QED BY <2>1, <1>1, <1>9, <1>16
<1>17. \A k \in Loads' : dma'[k].slot \notin overtaken /\ slots[dma'[k].slot].id # 0 =>
          dma'[k].id = -slots[dma'[k].slot].id
  BY <1>8, <1>11
<1>18. \A j \in 1 .. p : R2(j).slot \notin overtaken /\ slots[R2(j).slot].id # 0 =>
          /\ R2(j).slot < numEntries' /\ slots'[R2(j).slot].id < 0 /\ slots'[R2(j).slot].load_pending
          /\ R2(j).done => mem'[R2(j).slot] = -slots'[R2(j).slot].id
  BY <1>2, <1>4, <1>6, <1>15
<1>19. \A i, j \in 1 .. p : R2(i).slot \notin overtaken /\ R2(i).slot = R2(j).slot => i = j
  BY <1>4, <1>7
<1>20. /\ \A j \in 1 .. pending_request_count' :
             LET r == load_requests'[Outstanding'[j]] IN
             r.slot \notin overtaken' /\ slots'[r.slot].id # 0 =>
                /\ r.slot < numEntries' /\ slots'[r.slot].id < 0 /\ slots'[r.slot].load_pending
                /\ r.done => mem'[r.slot] = -slots'[r.slot].id
       /\ \A i, j \in 1 .. pending_request_count' :
             LET r == load_requests'[Outstanding'[i]] IN
             r.slot \notin overtaken' /\ r.slot = load_requests'[Outstanding'[j]].slot => i = j
  BY <1>2, <1>18, <1>19 DEF R2, p
<1>21. QED BY <1>2, <1>9, <1>16, <1>17, <1>20 DEF SlotInv

\* A load in flight was meant for what its slot says.
LEMMA LoadsAreInFlight ==
  ASSUME ObjectTypeOK, RequestsInOrder
  PROVE  /\ \A j \in 1 .. pending_request_count :
               /\ load_requests[Outstanding[j]].slot \in Slots
               /\ load_requests[Outstanding[j]].slot \in InFlight
         /\ \A k \in Loads : dma[k].slot \in InFlight /\ dma[k].slot \in Slots
<1>1. DOMAIN Outstanding = 1 .. pending_request_count
      /\ \A j \in 1 .. pending_request_count : Outstanding[j] \in Requests
  BY OutstandingIs
<1>2. \A j \in 1 .. pending_request_count : load_requests[Outstanding[j]].slot \in Slots
  <2>1. load_requests \in [Requests -> [slot : Slots, done : BOOLEAN]]
    BY DEF ObjectTypeOK
  <2>2. \A j \in 1 .. pending_request_count :
           load_requests[Outstanding[j]] \in [slot : Slots, done : BOOLEAN]
    BY <2>1, <1>1
  <2>3. QED BY <2>2
<1>3. \A j \in 1 .. pending_request_count : load_requests[Outstanding[j]].slot \in InFlight
  BY <1>1 DEF InFlight
<1>4. \A k \in Loads : \E j \in 1 .. pending_request_count :
         dma[k].slot = load_requests[Outstanding[j]].slot
  BY <1>1 DEF RequestsInOrder, Serves, Waiting
<1>5. QED BY <1>2, <1>3, <1>4

\* A room clears slots whose load is in flight, and gives out no such slot that is not
\* overtaken then.
LEMMA RoomKeepsSlots ==
  ASSUME TypeOK, RequestsInOrder, SlotInv, RoomStep
  PROVE  SlotInv'
<1> DEFINE p == pending_request_count
           O == Outstanding
           R(j) == load_requests[O[j]]
<1>1. PICK kept \in KeptSlots(RoomList[roomCtx.cur]) :
         /\ SceneCommandObjectList(RoomList[roomCtx.cur], loaded_object_id, kept)
         /\ UNCHANGED dma
  BY DEF RoomStep
<1> DEFINE first == NumPersistent + kept
<1>2. ObjectTypeOK
  BY TypesAre
<1>3. /\ first <= numEntries' /\ kept \in Nat /\ numEntries' \in Nat
      /\ \A s \in Slots :
            /\ s < first => slots'[s] = slots[s]
            /\ first <= s /\ s < numEntries' => slots'[s].id < 0
            /\ numEntries' <= s /\ s < numEntries => slots'[s].id = 0
            /\ numEntries' <= s /\ numEntries <= s => slots'[s] = slots[s]
            /\ s \notin overtaken' => s \notin overtaken
            /\ s < first /\ s \in overtaken' => s \in overtaken
            /\ first <= s /\ s < numEntries' /\ s \in InFlight => s \in overtaken'
      /\ slots' \in [Slots -> [id : Ids, load_pending : BOOLEAN]]
  <2>1. ObjectTypeOK' => /\ numEntries' \in Nat
                         /\ slots' \in [Slots -> [id : Ids, load_pending : BOOLEAN]]
    BY NumbersAre DEF ObjectTypeOK, Ids
  <2>2. QED BY <1>1, <1>2, <2>1, RoomIs, ListStep
<1>4. UNCHANGED <<load_requests, next_available_request, pending_request_count, mem, dma>>
  BY <1>1 DEF SceneCommandObjectList
<1>5. Outstanding' = O /\ p' = p /\ Loads' = Loads
  BY <1>4, RingStays DEF Loads
<1>6. /\ \A j \in 1 .. p : R(j).slot \in Slots /\ R(j).slot \in InFlight
      /\ \A k \in Loads : dma[k].slot \in InFlight /\ dma[k].slot \in Slots
  BY <1>2, LoadsAreInFlight
<1>7. /\ \A j \in 1 .. p : R(j).slot \notin overtaken /\ slots[R(j).slot].id # 0 =>
            /\ R(j).slot < numEntries /\ slots[R(j).slot].id < 0 /\ slots[R(j).slot].load_pending
            /\ R(j).done => mem[R(j).slot] = -slots[R(j).slot].id
      /\ \A i, j \in 1 .. p : R(i).slot \notin overtaken /\ R(i).slot = R(j).slot => i = j
      /\ \A k \in Loads : dma[k].slot \notin overtaken /\ slots[dma[k].slot].id # 0 =>
            dma[k].id = -slots[dma[k].slot].id
      /\ \A s \in Slots : /\ s \notin overtaken /\ slots[s].id > 0 => mem[s] = slots[s].id
                          /\ s < Len(Persistent) => slots[s].id > 0 /\ s \notin overtaken
  BY DEF SlotInv
<1>8. /\ NumPersistent \in Nat /\ numEntries \in Nat /\ Len(Persistent) < NumPersistent
      /\ Len(Persistent) \in Nat /\ first \in Nat /\ NumPersistent <= first
      /\ \A s \in Slots : s \in Nat /\ slots'[s].id \in Int
  <2>1. NumPersistent \in Nat /\ Len(Persistent) < NumPersistent /\ Len(Persistent) \in Nat
    BY NumbersAre
  <2>2. numEntries \in Nat
    BY <1>2, <2>1, NumbersAre DEF ObjectTypeOK
  <2>3. \A s \in Slots : s \in Nat
    BY DEF Slots
  <2>4. \A s \in Slots : slots'[s].id \in Int
    BY <1>3, IdsIn
  <2>5. first \in Nat /\ NumPersistent <= first
    BY <2>1, <1>3
  <2>6. QED BY <2>1, <2>2, <2>3, <2>4, <2>5
<1> HIDE DEF p, O, R, first
\* A slot that has an object in memory or on its way is one that stays.
<1>9. ASSUME NEW s \in Slots, s \notin overtaken', s \in InFlight, slots'[s].id # 0
      PROVE  slots'[s] = slots[s] /\ s \notin overtaken /\ (s < numEntries => s < first)
  BY <1>3, <1>8, <1>9
<1>10. ASSUME NEW s \in Slots, slots'[s].id > 0
       PROVE  slots'[s] = slots[s]
  BY <1>3, <1>8, <1>10
<1>11. ASSUME NEW j \in 1 .. p, R(j).slot \notin overtaken', slots'[R(j).slot].id # 0
       PROVE  /\ R(j).slot < numEntries' /\ slots'[R(j).slot].id < 0 /\ slots'[R(j).slot].load_pending
              /\ R(j).done => mem[R(j).slot] = -slots'[R(j).slot].id
  <2> DEFINE s == R(j).slot
  <2>1. s \in Slots /\ s \in InFlight
    BY <1>6
  <2>2. slots'[s] = slots[s] /\ s \notin overtaken /\ (s < numEntries => s < first)
    BY <2>1, <1>9, <1>11
  <2>3. s < numEntries /\ slots'[s].id < 0 /\ slots'[s].load_pending /\ (R(j).done => mem[s] = -slots'[s].id)
    BY <2>2, <1>7, <1>11
  <2> HIDE DEF s
  <2>4. s < numEntries'
    BY <2>1, <2>2, <2>3, <1>3, <1>8
  <2>5. QED BY <2>3, <2>4 DEF s
<1>12. ASSUME NEW k \in Loads, dma[k].slot \notin overtaken', slots'[dma[k].slot].id # 0
       PROVE  dma[k].id = -slots'[dma[k].slot].id
  BY <1>6, <1>7, <1>9, <1>12
<1>13. \A s \in Slots \ overtaken' : slots'[s].id > 0 => mem[s] = slots'[s].id
  BY <1>3, <1>7, <1>10
<1>14. \A s \in Slots : s < Len(Persistent) => slots'[s].id > 0 /\ s \notin overtaken'
  BY <1>3, <1>7, <1>8
<1>15. \A i, j \in 1 .. p : R(i).slot \notin overtaken' /\ R(i).slot = R(j).slot => i = j
  BY <1>3, <1>6, <1>7
<1>16. QED BY <1>4, <1>5, <1>11, <1>12, <1>13, <1>14, <1>15 DEF SlotInv, R, p, O

\* Before the first room nothing is in flight and there are no actors.
FirstInv == phase = "first" =>
    /\ dma = <<>> /\ pending_request_count = 0
    /\ \A a \in Actors : actors[a] = NoActor

\* The slot of the chaos effects is for the object that they have asked for last.
KeepInv == AbsId(ChaosSlot) = loaded_object_id

\* The object of the effects goes to a slot without a load, or to one that is overtaken then.
LEMMA EffectKeepsSlots ==
  ASSUME TypeOK, RequestsInOrder, SlotInv, EffectStep
  PROVE  SlotInv'
<1> DEFINE p == pending_request_count
           O == Outstanding
           R(j) == load_requests[O[j]]
<1>1. PICK c \in Spawners : RequestOverwrite(ChaosSlot, CodeObject[c])
  BY DEF EffectStep
<1>2. ObjectTypeOK /\ CodeObject[c] \in Objects
  BY TypesAre, RoomIs
<1>3. /\ slots'[ChaosSlot].id < 0
      /\ \A s \in Slots : s # ChaosSlot => slots'[s] = slots[s]
      /\ overtaken' = overtaken \cup ({ChaosSlot} \cap InFlight)
  BY <1>1, <1>2, OverwriteStep
<1>4. UNCHANGED <<numEntries, load_requests, next_available_request, pending_request_count, dma, mem>>
  BY <1>1 DEF RequestOverwrite
<1>5. Outstanding' = O /\ p' = p /\ Loads' = Loads
  BY <1>4, RingStays DEF Loads
<1>6. /\ \A j \in 1 .. p : R(j).slot \in Slots /\ R(j).slot \in InFlight
      /\ \A k \in Loads : dma[k].slot \in InFlight /\ dma[k].slot \in Slots
  BY <1>2, LoadsAreInFlight
<1>7. /\ \A j \in 1 .. p : R(j).slot \notin overtaken /\ slots[R(j).slot].id # 0 =>
            /\ R(j).slot < numEntries /\ slots[R(j).slot].id < 0 /\ slots[R(j).slot].load_pending
            /\ R(j).done => mem[R(j).slot] = -slots[R(j).slot].id
      /\ \A i, j \in 1 .. p : R(i).slot \notin overtaken /\ R(i).slot = R(j).slot => i = j
      /\ \A k \in Loads : dma[k].slot \notin overtaken /\ slots[dma[k].slot].id # 0 =>
            dma[k].id = -slots[dma[k].slot].id
      /\ \A s \in Slots : /\ s \notin overtaken /\ slots[s].id > 0 => mem[s] = slots[s].id
                          /\ s < Len(Persistent) => slots[s].id > 0 /\ s \notin overtaken
  BY DEF SlotInv
<1>8. ChaosSlot \in Slots /\ ChaosSlot = Len(Persistent) /\ Len(Persistent) \in Nat
  BY NumbersAre
<1> HIDE DEF p, O, R
<1>9. \A s \in InFlight : s \notin overtaken' => s # ChaosSlot /\ s \notin overtaken
  BY <1>3
<1>10. \A s \in Slots : s < Len(Persistent) => s # ChaosSlot
  BY <1>8
<1>11. slots'[ChaosSlot].id \in Int
  <2>1. slots' \in [Slots -> [id : Ids, load_pending : BOOLEAN]]
    BY <1>1, <1>2, OverwriteStep DEF ObjectTypeOK, Ids
  <2>2. QED BY <2>1, <1>8, IdsIn
<1>12. \A s \in Slots \ overtaken' : slots'[s].id > 0 => mem[s] = slots'[s].id
  BY <1>3, <1>7, <1>11
<1>13. \A j \in 1 .. p : R(j).slot \notin overtaken' /\ slots'[R(j).slot].id # 0 =>
          /\ R(j).slot < numEntries /\ slots'[R(j).slot].id < 0 /\ slots'[R(j).slot].load_pending
          /\ R(j).done => mem[R(j).slot] = -slots'[R(j).slot].id
  <2> SUFFICES ASSUME NEW j \in 1 .. p, R(j).slot \notin overtaken', slots'[R(j).slot].id # 0
               PROVE  /\ R(j).slot < numEntries /\ slots'[R(j).slot].id < 0 /\ slots'[R(j).slot].load_pending
                      /\ R(j).done => mem[R(j).slot] = -slots'[R(j).slot].id
    OBVIOUS
  <2>1. slots'[R(j).slot] = slots[R(j).slot] /\ R(j).slot \notin overtaken
    BY <1>3, <1>6, <1>9
  <2>2. QED BY <2>1, <1>7
<1>14. \A i, j \in 1 .. p : R(i).slot \notin overtaken' /\ R(i).slot = R(j).slot => i = j
  BY <1>6, <1>7, <1>9
<1>15. \A k \in Loads : dma[k].slot \notin overtaken' /\ slots'[dma[k].slot].id # 0 =>
          dma[k].id = -slots'[dma[k].slot].id
  BY <1>3, <1>6, <1>7, <1>9
<1>16. \A s \in Slots : s < Len(Persistent) => slots'[s].id > 0 /\ s \notin overtaken'
  BY <1>3, <1>7, <1>10
<1>17. QED BY <1>4, <1>5, <1>12, <1>13, <1>14, <1>15, <1>16 DEF SlotInv, R, p, O

LEMMA FreshKeepsSlots ==
  ASSUME NEW keep \in Objects \cup {0}, slots = FreshSlots(keep), pending_request_count = 0, dma = <<>>,
         overtaken = {},
         mem = [s \in Slots |-> IF s < Len(Persistent) THEN Persistent[s + 1] ELSE 0]
  PROVE  SlotInv
<1>1. Loads = {}
  BY DEF Loads
<1>2. \A s \in Slots : /\ s < Len(Persistent) => slots[s].id = Persistent[s + 1]
                                                 /\ Persistent[s + 1] \in Objects
                       /\ s = ChaosSlot => slots[s].id = -keep
                       /\ s >= NumPersistent => slots[s].id = 0
  BY FreshIs
<1>3. \A s \in Slots : s < Len(Persistent) \/ s = ChaosSlot \/ s >= NumPersistent
  BY NumbersAre DEF Slots
<1>4. keep \in Nat /\ -keep \in Int /\ -keep <= 0
  BY ObjectsAssumption
<1>5. ASSUME NEW s \in Slots, slots[s].id > 0 PROVE mem[s] = slots[s].id
  <2>1. s < Len(Persistent)
    BY <1>2, <1>3, <1>4, <1>5
  <2>2. QED BY <2>1, <1>2
<1>6. \A s \in Slots : s < Len(Persistent) => slots[s].id > 0
  <2>1. \A x \in Objects : x > 0
    BY ObjectsAssumption
  <2>2. QED BY <1>2, <2>1
<1>7. QED BY <1>1, <1>5, <1>6 DEF SlotInv

LEMMA StepKeepsSlots ==
  ASSUME TypeOK, RequestsInOrder, SlotInv, [Next]_vars
  PROVE  SlotInv'
<1>0. ObjectTypeOK /\ loaded_object_id \in Objects \cup {0}
  BY TypesAre, RoomIs
<1>1. CASE EffectStep
  BY <1>1, EffectKeepsSlots
<1>2. CASE UNCHANGED objectVars
  BY <1>2, RingStays DEF objectVars, SlotInv, Loads
<1>3. CASE UpdateEntries
  BY <1>0, <1>3, UpdateKeepsSlots
<1>4. CASE RoomStep
  BY <1>4, RoomKeepsSlots
<1>5. CASE NewRoomStep
  <2>1. Loads' = Loads /\ \A k \in Loads : dma'[k] = dma[k]
    BY <1>0, <1>5, RoomKeepsOrder DEF NewRoomStep
  <2>2. /\ Outstanding' = Outstanding
        /\ UNCHANGED <<slots, numEntries, load_requests, pending_request_count, mem, overtaken>>
    BY <1>5, RingStays DEF NewRoomStep
  <2>3. \A k \in Loads' : dma'[k].slot \notin overtaken' /\ slots'[dma'[k].slot].id # 0 =>
           dma'[k].id = -slots'[dma'[k].slot].id
    BY <2>1, <2>2 DEF SlotInv
  <2>4. QED BY <2>2, <2>3 DEF SlotInv
<1>6. CASE InitContext(loaded_object_id)
  <2> DEFINE keep == loaded_object_id
  <2>1. Loads' = {} /\ pending_request_count' = 0 /\ overtaken' = {}
    BY <1>6 DEF InitContext, Loads
  <2>2. slots' = FreshSlots(keep)
        /\ mem' = [s \in Slots |-> IF s < Len(Persistent) THEN Persistent[s + 1] ELSE 0]
    BY <1>6 DEF InitContext
  <2>3. \A s \in Slots : /\ s < Len(Persistent) => slots'[s].id = Persistent[s + 1]
                                                   /\ Persistent[s + 1] \in Objects
                         /\ s = ChaosSlot => slots'[s].id = -keep
                         /\ s >= NumPersistent => slots'[s].id = 0
    BY <1>0, <2>2, FreshIs
  <2>4. \A s \in Slots : s < Len(Persistent) \/ s = ChaosSlot \/ s >= NumPersistent
    BY NumbersAre DEF Slots
  <2>5. keep \in Nat /\ -keep \in Int /\ -keep <= 0
    BY <1>0, ObjectsAssumption
  <2> HIDE DEF keep
  <2>6. ASSUME NEW s \in Slots, slots'[s].id > 0 PROVE mem'[s] = slots'[s].id
    <3>1. s < Len(Persistent)
      BY <2>3, <2>4, <2>5, <2>6
    <3>2. QED BY <3>1, <2>2, <2>3
  <2>7. \A s \in Slots : s < Len(Persistent) => slots'[s].id > 0
    <3>1. \A x \in Objects : x > 0
      BY ObjectsAssumption
    <3>2. QED BY <2>3, <3>1
  <2>8. QED BY <2>1, <2>6, <2>7 DEF SlotInv
<1>7. CASE DmaDone
  BY <1>0, <1>7, DmaKeepsSlots
<1>8. QED BY <1>1, <1>2, <1>3, <1>4, <1>5, <1>6, <1>7, ObjectSteps

LEMMA StepKeepsFirst ==
  ASSUME TypeOK, FirstInv, [Next]_vars
  PROVE  FirstInv'
<1> USE DEF FirstInv
<1>1. CASE PerformCode
  BY <1>1 DEF PerformCode
<1>2. CASE PerformChicken
  BY <1>2 DEF PerformChicken, LeftOut, Before
<1>3. CASE UpdateObjects
  BY <1>3 DEF UpdateObjects, LeftOut, Before
<1>4. CASE ProcessRoomRequest
  BY <1>4 DEF ProcessRoomRequest, Before
<1>5. CASE ProcessFirstRoom
  BY <1>5 DEF ProcessFirstRoom
<1>6. CASE SpawnSetupActors
  BY <1>6 DEF SpawnSetupActors
<1>7. CASE UpdateActor
  BY <1>7 DEF UpdateActor
<1>8. CASE RequestNewRoom
  BY <1>8 DEF RequestNewRoom
<1>9. CASE FinishRoomChange
  BY <1>9 DEF FinishRoomChange
<1>10. CASE DoorsStayShut
  BY <1>10 DEF DoorsStayShut
<1>11. CASE KillActorAtIndex
  BY <1>11 DEF KillActorAtIndex
<1>12. CASE DropCode
  BY <1>12 DEF DropCode
<1>13. CASE UpdateChaos
  BY <1>13 DEF UpdateChaos, DrawFrame
<1>14. CASE NewScene
  BY <1>14 DEF NewScene, InitContext
<1>15. CASE Dma
  BY <1>15 DEF Dma, DmaDone
<1>16. CASE UNCHANGED vars
  BY <1>16 DEF vars, objectVars
<1>17. QED BY <1>1, <1>2, <1>3, <1>4, <1>5, <1>6, <1>7, <1>8, <1>9, <1>10, <1>11, <1>12, <1>13,
              <1>14, <1>15, <1>16 DEF Next, Frame

\* The slots of the persistent objects and of the effects are not touched by a room.
LEMMA StepKeepsKeep ==
  ASSUME TypeOK, KeepInv, [Next]_vars
  PROVE  KeepInv'
<1> DEFINE s == ChaosSlot
           o == loaded_object_id
<1>0. ObjectTypeOK /\ o \in Objects \cup {0} /\ o \notin Sizeless /\ o \in Nat
  <2>1. ObjectTypeOK
    BY TypesAre
  <2>2. o \in Objects \cup {0} /\ o \notin Sizeless
    BY RoomIs
  <2> HIDE DEF o
  <2>3. o \in Nat
    BY <2>2, ObjectsAssumption
  <2>4. QED BY <2>1, <2>2, <2>3
<1>1. s \in Slots /\ slots[s].id \in Int /\ s < NumPersistent
  <2>1. s \in Slots /\ s \in Nat /\ NumPersistent = s + 1
    BY NumbersAre
  <2> HIDE DEF s
  <2>2. slots[s].id \in Int
    BY <1>0, <2>1, IdsAre
  <2>3. QED BY <2>1, <2>2
<1>2. AbsId(s) = o /\ AbsId(s) = IF slots[s].id < 0 THEN -slots[s].id ELSE slots[s].id
  BY DEF KeepInv, AbsId
<1>3. KeepInv' <=> (IF slots'[s].id < 0 THEN -slots'[s].id ELSE slots'[s].id) = loaded_object_id'
  BY DEF KeepInv, AbsId
<1>4. ASSUME slots'[s].id = slots[s].id, UNCHANGED loaded_object_id PROVE KeepInv'
  BY <1>2, <1>3, <1>4
<1>5. CASE EffectStep
  <2>1. PICK c \in Spawners : RequestOverwrite(ChaosSlot, CodeObject[c]) /\ loaded_object_id' = CodeObject[c]
    BY <1>5 DEF EffectStep
  <2> DEFINE x == CodeObject[c]
  <2>2. x \in Objects /\ x \in Nat \ {0}
    BY RoomIs, ObjectsAssumption
  <2>3. slots'[s].id = -x
    BY <2>1, <2>2, <1>0, OverwriteStep
  <2> HIDE DEF x
  <2>4. (IF slots'[s].id < 0 THEN -slots'[s].id ELSE slots'[s].id) = x
    BY <2>2, <2>3
  <2>5. QED BY <2>1, <2>4, <1>3 DEF x
<1>6. CASE UNCHANGED objectVars /\ UNCHANGED loaded_object_id
  BY <1>4, <1>6 DEF objectVars
<1>7. CASE UpdateEntries /\ UNCHANGED loaded_object_id
  <2>1. \/ slots'[s].id = slots[s].id
        \/ slots'[s].id = -slots[s].id
        \/ AbsId(s) \in Sizeless
    BY <1>0, <1>1, <1>7, AnySlotMoves
  <2> HIDE DEF s
  <2>2. CASE slots'[s].id = -slots[s].id
    <3>1. \A z \in Int : (IF -z < 0 THEN -(-z) ELSE -z) = IF z < 0 THEN -z ELSE z
      OBVIOUS
    <3>2. (IF slots'[s].id < 0 THEN -slots'[s].id ELSE slots'[s].id)
            = IF slots[s].id < 0 THEN -slots[s].id ELSE slots[s].id
      BY <2>2, <1>1, <3>1, Zenon
    <3>3. (IF slots'[s].id < 0 THEN -slots'[s].id ELSE slots'[s].id) = o
      BY <3>2, <1>2, Zenon
    <3>4. QED BY <3>3, <1>3, <1>7
  <2>3. QED BY <2>1, <2>2, <1>0, <1>2, <1>4, <1>7
<1>8. CASE RoomStep /\ UNCHANGED loaded_object_id
  <2>1. PICK kept \in KeptSlots(RoomList[roomCtx.cur]) :
           SceneCommandObjectList(RoomList[roomCtx.cur], loaded_object_id, kept) /\ UNCHANGED dma
    BY <1>8 DEF RoomStep
  <2>2. kept \in Nat /\ (s < NumPersistent + kept => slots'[s] = slots[s])
    BY <2>1, <1>0, <1>1, RoomIs, ListStep
  <2>3. s < NumPersistent + kept
    BY <2>2, NumbersAre
  <2>4. QED BY <2>2, <2>3, <1>4, <1>8
<1>9. CASE NewRoomStep /\ UNCHANGED loaded_object_id
  BY <1>4, <1>9 DEF NewRoomStep
<1>10. CASE InitContext(loaded_object_id) /\ UNCHANGED loaded_object_id
  <2>1. slots' = FreshSlots(o)
    BY <1>10 DEF InitContext
  <2>2. slots'[s].id = -o
    BY <2>1, <1>0, <1>1, FreshIs
  <2>3. \A z \in Nat : (IF -z < 0 THEN -(-z) ELSE -z) = z
    OBVIOUS
  <2>4. (IF slots'[s].id < 0 THEN -slots'[s].id ELSE slots'[s].id) = o
    BY <2>2, <2>3, <1>0, Zenon
  <2>5. QED BY <2>4, <1>3, <1>10
<1>11. CASE DmaDone /\ UNCHANGED loaded_object_id
  BY <1>4, <1>11 DEF DmaDone
<1>12. QED BY <1>5, <1>6, <1>7, <1>8, <1>9, <1>10, <1>11, ObjectSteps

\* A slot that says its object is loaded is not the slot of a load in flight.
LEMMA LoadedFollows ==
  ASSUME TypeOK, SlotInv
  PROVE  LoadedIsThere
<1>0. ObjectTypeOK
  BY TypesAre
<1>1. \A s \in Slots \ overtaken : slots[s].id > 0 => mem[s] = slots[s].id
  BY DEF SlotInv
<1>2. \A s \in Slots : slots[s].id \in Int
  BY <1>0, IdsAre
<1>3. \A k \in Loads :
         /\ dma[k].id \in Nat \ {0}
         /\ dma[k].slot \notin overtaken /\ slots[dma[k].slot].id # 0 => dma[k].id = -slots[dma[k].slot].id
  <2> TAKE k \in Loads
  <2>1. k \in DOMAIN dma /\ dma[k].request # Room
    BY DEF Loads
  <2>2. dma[k] \in DmaEntries
    BY <2>1, <1>0, LenProperties, ElementOfSeq DEF ObjectTypeOK
  <2>3. dma[k].id \in Nat \ {0}
    BY <2>1, <2>2, EntriesAre, ObjectsAssumption
  <2>4. QED BY <2>3 DEF SlotInv
<1>4. ASSUME NEW s \in Slots \ overtaken, slots[s].id > 0, NEW k \in Loads, dma[k].slot = s PROVE FALSE
  <2>1. dma[k].id \in Nat \ {0} /\ dma[k].id = -slots[s].id /\ slots[s].id \in Int
    BY <1>2, <1>3, <1>4
  <2>2. QED BY <2>1, <1>4
<1>5. QED BY <1>1, <1>4 DEF LoadedIsThere, IsLoaded

\* All that holds of the slots alone.
SlotsInv == TypeOK /\ RequestsInOrder /\ SlotInv /\ FirstInv /\ KeepInv

LEMMA SlotsInvHolds == Spec => []SlotsInv
<1>1. Init => SlotsInv
  <2> SUFFICES ASSUME Init PROVE SlotsInv
    OBVIOUS
  <2>1. ObjectInit /\ TypeOK /\ loaded_object_id = 0
    BY InitTypes DEF Init
  <2>2. SlotInv /\ RequestsInOrder
    BY <2>1, FreshKeepsSlots, NoRequestsInOrder DEF ObjectInit
  <2>3. FirstInv
    BY DEF Init, ObjectInit, FirstInv
  <2>4. slots[ChaosSlot].id = -0
    BY <2>1, FreshIs, NumbersAre DEF ObjectInit
  <2>5. AbsId(ChaosSlot) = 0
    <3>1. \A z \in Nat : (IF -z < 0 THEN -(-z) ELSE -z) = z
      OBVIOUS
    <3>2. 0 \in Nat
      OBVIOUS
    <3>3. QED BY <2>4, <3>1, <3>2, Zenon DEF AbsId
  <2>6. QED BY <2>1, <2>2, <2>3, <2>5 DEF SlotsInv, KeepInv
<1>2. SlotsInv /\ [Next]_vars => SlotsInv'
  BY BasicStep, StepKeepsOrder, StepKeepsSlots, StepKeepsFirst, StepKeepsKeep DEF SlotsInv
<1>3. QED BY <1>1, <1>2, PTL DEF Spec

\* An object that a slot says is loaded is in the slot's memory, and no load is about to
\* overwrite it (Object_UpdateEntries, Object_RequestOverwrite), however the loads, the rooms
\* and the frames interleave, in every slot that was not given another object in this scene
\* while a load in flight was about to fill it.
THEOREM LoadedObjectsAreThere == Spec => []LoadedIsThere
<1>1. SlotsInv => LoadedIsThere
  BY LoadedFollows DEF SlotsInv
<1>2. QED BY <1>1, SlotsInvHolds, PTL

-----------------------------------------------------------------------------
(* The list of the chaos actors.                                           *)

AbsOf(y) == IF y < 0 THEN -y ELSE y

\* No actor is listed twice.  A listed one is there, was made for an effect and has not been
\* destroyed.
ListIsGood ==
    /\ IsInjective(spawned)
    /\ \A a \in ToSet(spawned) : actors[a].st # "none" /\ actors[a].chaos /\ actors[a].destroy

ListInv == phase # "first" /\ ~forgotten => ListIsGood

LEMMA AbsIs ==
  ASSUME ObjectTypeOK, NEW s \in Slots
  PROVE  /\ AbsOf(slots[s].id) = AbsId(s) /\ slots[s].id \in Int
         /\ slots[s].id > 0 => AbsOf(slots[s].id) = slots[s].id
<1>1. slots[s].id \in Int
  BY IdsAre
<1>2. QED BY <1>1 DEF AbsId, AbsOf

\* The list stays good for the actors that stay listed.
LEMMA ListStays ==
  ASSUME ListIsGood, IsInjective(spawned'), ToSet(spawned') \subseteq ToSet(spawned),
         \A a \in ToSet(spawned') :
            actors'[a].st # "none" /\ actors'[a].chaos = actors[a].chaos /\ actors'[a].destroy
  PROVE  ListIsGood'
BY DEF ListIsGood

\* An actor that is made is listed once, at the end.
LEMMA AppendedIs ==
  ASSUME NEW q \in Seq(Actors), NEW f \in Actors
  PROVE  /\ ToSet(Append(q, f)) = ToSet(q) \cup {f}
         /\ IsInjective(q) /\ f \notin ToSet(q) => IsInjective(Append(q, f))
<1> DEFINE n == Len(q)
<1>1. /\ n \in Nat /\ DOMAIN q = 1 .. n /\ DOMAIN Append(q, f) = 1 .. n + 1
      /\ \A i \in 1 .. n : Append(q, f)[i] = q[i]
      /\ Append(q, f)[n + 1] = f
  BY AppendProperties, LenProperties
<1>2. \A i \in 1 .. n + 1 : i = n + 1 \/ i \in 1 .. n
  BY <1>1
<1>3. n + 1 \in 1 .. n + 1 /\ \A i \in 1 .. n : i \in 1 .. n + 1
  BY <1>1
<1> HIDE DEF n
<1>4. ToSet(Append(q, f)) = ToSet(q) \cup {f}
  BY <1>1, <1>2, <1>3 DEF ToSet
<1>5. ASSUME IsInjective(q), f \notin ToSet(q) PROVE IsInjective(Append(q, f))
  <2>1. \A i \in 1 .. n : q[i] # f
    BY <1>1, <1>5 DEF ToSet
  <2>2. \A i, j \in 1 .. n : q[i] = q[j] => i = j
    BY <1>1, <1>5 DEF IsInjective
  <2>3. QED BY <1>1, <1>2, <2>1, <2>2 DEF IsInjective
<1>6. QED BY <1>4, <1>5

LEMMA SpawnKeepsList ==
  ASSUME TypeOK, ListIsGood, NEW c \in Codes, SpawnActor(c)
  PROVE  ListIsGood'
<1> DEFINE f == FreeActor(actors)
<1>1. CASE UNCHANGED <<spawned, actors>>
  BY <1>1 DEF ListIsGood
<1>2. CASE ~UNCHANGED <<spawned, actors>>
  <2>1. /\ f \in Actors /\ actors[f] = NoActor
        /\ spawned' = Append(spawned, f)
        /\ \A a \in Actors \ {f} : actors'[a] = actors[a]
        /\ actors'[f].st = "live" /\ actors'[f].chaos /\ actors'[f].destroy
    BY <1>2, SpawnedStep
  <2>2. spawned \in Seq(Actors) /\ ToSet(spawned) \subseteq Actors
    BY TypesAre
  <2> HIDE DEF f
  <2>3. f \notin ToSet(spawned)
    BY <2>1, NoActorIs DEF ListIsGood
  <2>4. IsInjective(spawned') /\ ToSet(spawned') = ToSet(spawned) \cup {f}
    BY <2>1, <2>2, <2>3, AppendedIs DEF ListIsGood
  <2>5. \A a \in ToSet(spawned') : actors'[a].st # "none" /\ actors'[a].chaos /\ actors'[a].destroy
    BY <2>1, <2>2, <2>4 DEF ListIsGood
  <2>6. QED BY <2>4, <2>5 DEF ListIsGood
<1>3. QED BY <1>1, <1>2

\* The initialisation, the death and the destruction of a listed actor.
LEMMA UpdateActorKeepsList ==
  ASSUME TypeOK, ListIsGood, UpdateActor
  PROVE  ListIsGood'
<1>1. PICK a \in turn :
        LET x == actors[a] IN
        /\ a \in Actors
        /\ \A b \in Actors \ {a} : actors'[b] = actors[b]
        /\ \/ /\ x.st # "none" /\ SameActor(x, actors'[a]) /\ actors'[a].st = x.st
              /\ actors'[a].destroy = x.destroy /\ UNCHANGED spawned
           \/ /\ x.st = "dead" /\ x.inited /\ spawned' = AfterDestroy({a})
           \/ /\ x.st = "live" /\ SameActor(x, actors'[a])
              /\ actors'[a].destroy = x.destroy /\ actors'[a].st # "none" /\ UNCHANGED spawned
           \/ x.st = "none" /\ UNCHANGED <<actors, spawned>>
  BY UpdateActorStep
<1>2. ToSet(spawned) \subseteq Actors /\ spawned \in Seq(Actors) /\ IsFiniteSet({a})
  BY TypesAre, FS_Singleton
<1>3. CASE actors[a].st = "dead" /\ actors[a].inited /\ spawned' = AfterDestroy({a})
  <2>1. /\ IsInjective(spawned')
        /\ ToSet(spawned') = ToSet(spawned) \ {b \in {a} : WillDestroy(b) /\ actors[b].chaos}
    BY <1>2, <1>3, AfterDestroyIs DEF ListIsGood
  <2>2. a \in ToSet(spawned) => WillDestroy(a) /\ actors[a].chaos
    BY <1>3 DEF ListIsGood, WillDestroy
  <2>3. \A b \in ToSet(spawned') : b \in ToSet(spawned) /\ b # a
    BY <2>1, <2>2
  <2>4. \A b \in ToSet(spawned') : b \in ToSet(spawned) /\ actors'[b] = actors[b]
    BY <2>3, <1>1, <1>2
  <2>5. QED BY <2>1, <2>4 DEF ListIsGood
<1>4. CASE UNCHANGED spawned /\ (a \in ToSet(spawned) => /\ SameActor(actors[a], actors'[a])
                                                        /\ actors'[a].destroy = actors[a].destroy
                                                        /\ actors'[a].st # "none")
  <2>1. \A b \in ToSet(spawned) : b = a \/ actors'[b] = actors[b]
    BY <1>1, <1>2
  <2>2. QED BY <1>4, <2>1 DEF ListIsGood, SameActor
<1>5. CASE actors[a].st = "none" /\ UNCHANGED <<actors, spawned>>
  BY <1>5 DEF ListIsGood
<1>6. QED BY <1>1, <1>3, <1>4, <1>5

\* A room that is left takes its actors along: listed ones that are initialised are taken out.
LEMMA FinishKeepsList ==
  ASSUME TypeOK, ListIsGood, FinishRoomChange, ~forgotten'
  PROVE  ListIsGood'
<1>1. PICK left \in SUBSET Actors :
         /\ spawned' = AfterDestroy(left)
         /\ \A a \in Actors : a \notin left => actors'[a] = actors[a]
         /\ \A a \in left : a \in ToSet(spawned) => actors[a].inited
  BY FinishStep
<1>2. spawned \in Seq(Actors) /\ ToSet(spawned) \subseteq Actors /\ IsFiniteSet(left)
  BY TypesAre
<1>3. /\ IsInjective(spawned')
      /\ ToSet(spawned') = ToSet(spawned) \ {a \in left : WillDestroy(a) /\ actors[a].chaos}
  BY <1>1, <1>2, AfterDestroyIs DEF ListIsGood
<1>4. \A a \in left : a \in ToSet(spawned) => WillDestroy(a) /\ actors[a].chaos
  BY <1>1 DEF ListIsGood, WillDestroy
<1>5. \A a \in ToSet(spawned') : a \in ToSet(spawned) /\ a \notin left
  BY <1>3, <1>4
<1>6. \A a \in ToSet(spawned') : a \in ToSet(spawned) /\ actors'[a] = actors[a]
  BY <1>1, <1>2, <1>5
<1>7. QED BY <1>3, <1>6 DEF ListIsGood

LEMMA KillKeepsList ==
  ASSUME TypeOK, ListIsGood, KillActorAtIndex
  PROVE  ListIsGood'
<1>1. PICK i \in 1 .. Len(spawned) :
         /\ spawned' = DropActorAtIndex(spawned, i)
         /\ \A a \in Actors :
               /\ SameActor(actors[a], actors'[a]) /\ actors'[a].destroy = actors[a].destroy
               /\ actors'[a] = actors[a] \/ actors'[a].st = "dead"
  BY KillStep
<1>2. spawned \in Seq(Actors) /\ ToSet(spawned) \subseteq Actors
  BY TypesAre
<1>3. IsInjective(spawned') /\ ToSet(spawned') \subseteq ToSet(spawned)
  BY <1>1, <1>2, DropAtIs DEF ListIsGood
<1>4. \A a \in ToSet(spawned') :
         actors'[a].st # "none" /\ actors'[a].chaos = actors[a].chaos /\ actors'[a].destroy
  BY <1>1, <1>2, <1>3 DEF ListIsGood, SameActor
<1>5. QED BY <1>3, <1>4, ListStays

LEMMA StepKeepsList ==
  ASSUME TypeOK, ListInv, [Next]_vars
  PROVE  ListInv'
<1>1. SUFFICES ASSUME phase' # "first", ~forgotten' PROVE ListIsGood'
  BY DEF ListInv
<1>2. ASSUME phase # "first", UNCHANGED <<spawned, actors, forgotten>> PROVE ListIsGood'
  BY <1>1, <1>2 DEF ListInv, ListIsGood
<1>3. ASSUME spawned' = <<>> PROVE ListIsGood'
  BY <1>3 DEF ListIsGood, IsInjective, ToSet
<1>4. ASSUME NEW c \in Codes, SpawnActor(c), phase = "play", UNCHANGED forgotten PROVE ListIsGood'
  BY <1>1, <1>4, SpawnKeepsList DEF ListInv
<1>5. CASE PerformCode
  <2>1. PICK c \in active : SpawnActor(c)
    BY <1>5 DEF PerformCode
  <2>2. c \in Codes
    BY DEF TypeOK
  <2>3. QED BY <2>1, <2>2, <1>4, <1>5 DEF PerformCode, historyVars
<1>6. CASE PerformChicken
  <2>1. phase = "play" /\ UNCHANGED forgotten
    BY <1>6 DEF PerformChicken, LeftOut
  <2>2. CASE SpawnActor(Chicken)
    BY <2>1, <2>2, <1>4, ActorsAssumption, RoomIs
  <2>3. CASE UNCHANGED <<spawned, actors>>
    BY <2>1, <2>3, <1>2
  <2>4. QED BY <1>6, <2>2, <2>3 DEF PerformChicken
<1>7. CASE UpdateObjects
  BY <1>2, <1>7 DEF UpdateObjects, LeftOut
<1>8. CASE ProcessRoomRequest
  <2>1. CASE \E kept \in KeptSlots(RoomList[roomCtx.cur]) : ProcessRoom(kept)
    BY <1>3, <2>1 DEF ProcessRoom
  <2>2. CASE UNCHANGED <<objectVars, spawned, actors, roomCtx, forgotten>>
    BY <1>2, <1>8, <2>2 DEF ProcessRoomRequest
  <2>3. QED BY <1>8, <2>1, <2>2 DEF ProcessRoomRequest
<1>9. CASE ProcessFirstRoom
  BY <1>3, <1>9 DEF ProcessFirstRoom, ProcessRoom
<1>10. CASE SpawnSetupActors
  <2>1. phase = "actors" /\ UNCHANGED <<spawned, forgotten>>
    BY <1>10 DEF SpawnSetupActors, historyVars
  <2>2. ListIsGood /\ ToSet(spawned) \subseteq Actors
    BY <2>1, <1>1, TypesAre DEF ListInv
  <2>3. \A a \in ToSet(spawned) : actors'[a] = actors[a]
    BY <2>2, <1>10, SetupStep DEF ListIsGood
  <2>4. QED BY <2>1, <2>2, <2>3 DEF ListIsGood
<1>11. CASE UpdateActor
  <2>1. ListIsGood
    BY <1>1, <1>11 DEF UpdateActor, historyVars, ListInv
  <2>2. QED BY <2>1, <1>11, UpdateActorKeepsList
<1>12. CASE RequestNewRoom
  BY <1>2, <1>12 DEF RequestNewRoom, historyVars
<1>13. CASE FinishRoomChange
  <2>1. ~forgotten /\ phase # "first"
    BY <1>1, <1>13 DEF FinishRoomChange
  <2>2. QED BY <2>1, <1>1, <1>13, FinishKeepsList DEF ListInv
<1>14. CASE DoorsStayShut
  BY <1>2, <1>14 DEF DoorsStayShut, historyVars
<1>15. CASE KillActorAtIndex
  <2>1. ListIsGood
    BY <1>1, <1>15 DEF KillActorAtIndex, historyVars, ListInv
  <2>2. QED BY <2>1, <1>15, KillKeepsList
<1>16. CASE DropCode
  BY <1>2, <1>16 DEF DropCode, historyVars
<1>17. CASE UpdateChaos
  <2>1. ListIsGood /\ DrawFrame /\ UNCHANGED spawned /\ ToSet(spawned) \subseteq Actors
    BY <1>1, <1>17, TypesAre DEF UpdateChaos, DrawFrame, ListInv
  <2>2. \A a \in Actors : actors[a].st # "none" =>
           AtMostDies(actors[a], actors'[a]) /\ actors'[a].st = actors[a].st
    BY <2>1, DrawStep
  <2>3. QED BY <2>1, <2>2 DEF ListIsGood, AtMostDies, SameActor
<1>18. CASE NewScene
  BY <1>1, <1>18 DEF NewScene
<1>19. CASE Dma
  BY <1>1, <1>2, <1>19 DEF Dma, historyVars
<1>20. CASE UNCHANGED vars
  BY <1>1, <1>2, <1>20 DEF vars, historyVars
<1>21. QED BY <1>5, <1>6, <1>7, <1>8, <1>9, <1>10, <1>11, <1>12, <1>13, <1>14, <1>15, <1>16, <1>17,
              <1>18, <1>19, <1>20 DEF Next, Frame

\* The list of the chaos actors has no actor twice and none whose memory was freed: whoever
\* kills them, an actor is taken out of it when it is destroyed (Chaos_DestroyFunction),
\* unless a room that is left deletes one that is not initialised yet.
THEOREM NoActorDangles == Spec => []NoDangling
<1>1. Init => ListInv
  BY DEF Init, ListInv
<1>2. TypeOK /\ ListInv /\ [Next]_vars => ListInv'
  BY StepKeepsList
<1>3. Spec => []TypeOK
  BY ObjectTypesAreCorrect
<1>4. ListInv => NoDangling
  BY DEF ListInv, ListIsGood, NoDangling
<1>5. QED BY <1>1, <1>2, <1>3, <1>4, PTL DEF Spec

-----------------------------------------------------------------------------
(* The object of the listed actors.                                        *)

\* A listed actor with its object in the slot of the effects was made for the object that
\* they asked for last.
KeptInv == phase # "first" =>
    \A a \in ToSet(spawned) : actors[a].slot = ChaosSlot => actors[a].object = loaded_object_id

\* An actor that is made for an effect has what the slots say its object is.
LEMMA SpawnKeepsKept ==
  ASSUME TypeOK, KeepInv, KeptInv, phase = "play", NEW c \in Codes, SpawnActor(c),
         UNCHANGED loaded_object_id
  PROVE  KeptInv'
<1> DEFINE f == FreeActor(actors)
<1>1. CASE UNCHANGED <<spawned, actors>>
  BY <1>1 DEF KeptInv
<1>2. CASE ~UNCHANGED <<spawned, actors>>
  <2>1. /\ f \in Actors /\ spawned' = Append(spawned, f)
        /\ \A a \in Actors \ {f} : actors'[a] = actors[a]
        /\ AbsId(actors'[f].slot) = actors'[f].object
    BY <1>2, SpawnedStep
  <2>2. spawned \in Seq(Actors) /\ ToSet(spawned) \subseteq Actors
    BY TypesAre
  <2> HIDE DEF f
  <2>3. ToSet(spawned') = ToSet(spawned) \cup {f}
    BY <2>1, <2>2, AppendedIs
  <2>4. QED BY <2>1, <2>2, <2>3 DEF KeptInv, KeepInv
<1>3. QED BY <1>1, <1>2

LEMMA StepKeepsKept ==
  ASSUME TypeOK, KeepInv, KeptInv, [Next]_vars
  PROVE  KeptInv'
<1>0. /\ ToSet(spawned) \subseteq Actors /\ spawned \in Seq(Actors)
      /\ \A S \in SUBSET Actors : IsFiniteSet(S)
  BY TypesAre
<1>1. SUFFICES ASSUME phase' # "first" PROVE KeptInv'
  BY DEF KeptInv
<1>2. ASSUME phase # "first", UNCHANGED loaded_object_id, ToSet(spawned') \subseteq ToSet(spawned),
             \A a \in Actors : SameActor(actors[a], actors'[a]) \/ actors'[a] = NoActor
      PROVE  KeptInv'
  BY <1>0, <1>2, NoActorIs DEF KeptInv, SameActor
<1>3. ASSUME phase # "first", UNCHANGED <<loaded_object_id, spawned, actors>> PROVE KeptInv'
  BY <1>2, <1>3 DEF SameActor
<1>4. CASE PerformCode
  <2>1. PICK c \in active : SpawnActor(c)
    BY <1>4 DEF PerformCode
  <2>2. c \in Codes
    BY DEF TypeOK
  <2>3. QED BY <2>1, <2>2, <1>4, SpawnKeepsKept DEF PerformCode
<1>5. CASE PerformChicken
  <2>1. phase = "play" /\ UNCHANGED loaded_object_id
    BY <1>5 DEF PerformChicken, chaosVars
  <2>2. CASE SpawnActor(Chicken)
    BY <2>1, <2>2, SpawnKeepsKept, ActorsAssumption, RoomIs
  <2>3. CASE UNCHANGED <<spawned, actors>>
    BY <2>1, <2>3, <1>3
  <2>4. QED BY <1>5, <2>2, <2>3 DEF PerformChicken
<1>6. CASE UpdateObjects
  BY <1>3, <1>6 DEF UpdateObjects, chaosVars
<1>7. ASSUME spawned' = <<>> PROVE KeptInv'
  BY <1>7 DEF KeptInv, ToSet
<1>8. CASE ProcessRoomRequest
  <2>1. CASE \E kept \in KeptSlots(RoomList[roomCtx.cur]) : ProcessRoom(kept)
    BY <1>7, <2>1 DEF ProcessRoom
  <2>2. CASE UNCHANGED <<objectVars, spawned, actors, roomCtx, forgotten>>
    BY <1>3, <1>8, <2>2 DEF ProcessRoomRequest, chaosVars
  <2>3. QED BY <1>8, <2>1, <2>2 DEF ProcessRoomRequest
<1>9. CASE ProcessFirstRoom
  BY <1>7, <1>9 DEF ProcessFirstRoom, ProcessRoom
<1>10. CASE SpawnSetupActors
  <2>1. phase = "actors" /\ UNCHANGED <<spawned, loaded_object_id>>
    BY <1>10 DEF SpawnSetupActors, chaosVars
  <2>2. \A a \in Actors : \/ SameActor(actors[a], actors'[a]) \/ actors'[a] = NoActor
                         \/ AbsId(actors'[a].slot) = actors'[a].object
    BY <1>10, SetupStep DEF Gone, IsNew, SameActor
  <2>3. QED BY <2>1, <2>2, <1>0, NoActorIs DEF KeptInv, KeepInv, SameActor
<1>11. CASE UpdateActor
  <2>1. phase = "actors" /\ UNCHANGED loaded_object_id
    BY <1>11 DEF UpdateActor, chaosVars
  <2>2. PICK a \in turn :
          /\ a \in Actors /\ \A b \in Actors \ {a} : actors'[b] = actors[b]
          /\ UNCHANGED spawned \/ spawned' = AfterDestroy({a})
          /\ SameActor(actors[a], actors'[a]) \/ actors'[a] = NoActor
    BY <1>11, UpdateActorStep DEF Gone, SameActor
  <2>3. ToSet(spawned') \subseteq ToSet(spawned)
    BY <2>2, <1>0, FS_Singleton, AfterDestroyIs
  <2>4. QED BY <2>1, <2>2, <2>3, <1>2 DEF SameActor
<1>12. CASE RequestNewRoom
  BY <1>3, <1>12 DEF RequestNewRoom, chaosVars
<1>13. CASE FinishRoomChange
  <2>1. phase = "actors" /\ UNCHANGED loaded_object_id
    BY <1>13 DEF FinishRoomChange, chaosVars
  <2>2. PICK left \in SUBSET Actors :
           /\ spawned' = AfterDestroy(left)
           /\ \A a \in Actors : /\ a \notin left => actors'[a] = actors[a]
                                /\ a \in left => Gone(actors[a], actors'[a])
    BY <1>13, FinishStep
  <2>3. ToSet(spawned') \subseteq ToSet(spawned)
    BY <2>2, <1>0, AfterDestroyIs
  <2>4. \A a \in Actors : SameActor(actors[a], actors'[a]) \/ actors'[a] = NoActor
    BY <2>2 DEF Gone, SameActor
  <2>5. QED BY <2>1, <2>3, <2>4, <1>2
<1>14. CASE DoorsStayShut
  BY <1>3, <1>14 DEF DoorsStayShut, chaosVars
<1>15. CASE KillActorAtIndex
  <2>1. phase = "chaos" /\ UNCHANGED loaded_object_id
    BY <1>15 DEF KillActorAtIndex, chaosVars
  <2>2. PICK i \in 1 .. Len(spawned) :
           /\ spawned' = DropActorAtIndex(spawned, i)
           /\ \A a \in Actors : SameActor(actors[a], actors'[a])
    BY <1>15, KillStep
  <2>3. ToSet(spawned') \subseteq ToSet(spawned)
    BY <2>2, <1>0, DropAtIs
  <2>4. QED BY <2>1, <2>2, <2>3, <1>2
<1>16. CASE DropCode
  BY <1>3, <1>16 DEF DropCode
<1>17. CASE UpdateChaos
  <2>1. phase = "chaos" /\ UNCHANGED spawned
    BY <1>17 DEF UpdateChaos, DrawFrame
  <2>2. \A a \in Actors : SameActor(actors[a], actors'[a]) \/ actors'[a] = NoActor
    BY <1>17, DrawStep DEF UpdateChaos, AtMostDies
  <2>3. CASE UNCHANGED loaded_object_id
    BY <2>1, <2>2, <2>3, <1>2
  <2>4. CASE spawned = <<>>
    BY <2>1, <2>4, <1>7
  <2>5. UNCHANGED loaded_object_id \/ spawned = <<>>
    BY <1>17 DEF UpdateChaos, ActivateCode, RequestObject, ObjectInUse, chaosVars
  <2>6. QED BY <2>3, <2>4, <2>5
<1>18. CASE NewScene
  BY <1>1, <1>18 DEF NewScene
<1>19. CASE Dma
  BY <1>1, <1>3, <1>19 DEF Dma, chaosVars
<1>20. CASE UNCHANGED vars
  BY <1>1, <1>3, <1>20 DEF vars, chaosVars
<1>21. QED BY <1>4, <1>5, <1>6, <1>8, <1>9, <1>10, <1>11, <1>12, <1>13, <1>14, <1>15, <1>16, <1>17,
              <1>18, <1>19, <1>20 DEF Next, Frame

\* The slot that a listed actor has its object in is not given to another object, neither by
\* a draw (Chaos_UpdateChaos, ObjectInUse) nor by a scene or a room (Object_InitContext,
\* Scene_CommandObjectList), whatever loads are in flight.
THEOREM ActorsKeepTheirObject == Spec => []KeepsItsObject
<1>1. Init => KeptInv
  BY DEF Init, KeptInv
<1>2. SlotsInv /\ KeptInv /\ [Next]_vars => KeptInv'
  BY StepKeepsKept DEF SlotsInv
<1>3. SlotsInv /\ KeptInv => KeepsItsObject
  BY DEF SlotsInv, KeepInv, KeptInv, KeepsItsObject
<1>4. QED BY <1>1, <1>2, <1>3, SlotsInvHolds, PTL DEF Spec

-----------------------------------------------------------------------------
(* The actors and the objects they are drawn from.                         *)

\* An actor that is initialised is so with the object of its slot; another waits for it, in a
\* slot that may have been cleared.
Sound(a) ==
    LET x == actors[a]  y == slots[x.slot].id IN
    IF x.inited THEN y = x.object
    ELSE AbsOf(y) = x.object \/ (y = 0 /\ x.slot # ChaosSlot)

\* An actor of the slot of the effects may see the slot given to another object.  It finds
\* out in its next turn, before that object is there.
Waits(a) == AbsOf(slots[ChaosSlot].id) = actors[a].object
SeesIt(a) == slots[ChaosSlot].id > 0 => actors[a].inited
StaysFor(a) ==
    LET v == slots[ChaosSlot] IN
    \/ v.id = actors[a].object
    \/ /\ v.id < 0 /\ phase # "chaos"
       /\ phase \in {"play", "entries"} => ~v.load_pending
       /\ phase = "actors" => a \in turn
Passing(a) ==
    /\ IF actors[a].inited THEN StaysFor(a) ELSE Waits(a)
    /\ phase = "chaos" \/ (phase = "actors" /\ a \notin turn) => SeesIt(a)

Fits(a) == actors[a].st = "live" =>
    /\ actors[a].slot < numEntries /\ actors[a].object # 0
    /\ actors[a].slot \notin overtaken =>
          /\ actors[a].slot # ChaosSlot \/ a \in ToSet(spawned) => Sound(a)
          /\ actors[a].slot = ChaosSlot /\ ~unnoticed => Passing(a)

ActorInv == \A a \in Actors : Fits(a)

\* How a step goes on with the frame for an actor: its turn comes and goes, or the rest of the
\* frame is left out while nobody waits for an object.
Skips == phase' = "chaos" /\ ~Awaited'
GoesOn(a) ==
    \/ UNCHANGED <<phase, turn>>
    \/ phase = "play" /\ phase' = "entries"
    \/ phase = "room" /\ phase' = "actors" /\ a \in turn'
    \/ phase = "actors" /\ a \notin turn /\ phase' = "chaos"
    \/ unnoticed'
    \/ Skips

\* What a step may do to an actor and its slot.
Keeps(a) ==
    /\ SameActor(actors[a], actors'[a]) /\ actors'[a].inited = actors[a].inited
    /\ actors'[a].st = "live" => actors[a].st = "live"
    /\ a \in ToSet(spawned') => a \in ToSet(spawned)
    /\ overtaken \subseteq overtaken' /\ (unnoticed => unnoticed')
    /\ \A s \in {actors[a].slot, ChaosSlot} : slots'[s] = slots[s]
    /\ actors[a].slot < numEntries => actors[a].slot < numEntries'

\* An actor whose slot does not change stays as it is.
LEMMA ActorStays ==
  ASSUME NEW a \in Actors, Fits(a), Keeps(a), GoesOn(a)
  PROVE  Fits(a)'
<1> SUFFICES ASSUME actors'[a].st = "live" PROVE Fits(a)'
  BY DEF Fits
<1> DEFINE v == slots[ChaosSlot]
<1>1. /\ actors'[a].slot = actors[a].slot /\ actors'[a].object = actors[a].object
      /\ actors'[a].inited = actors[a].inited /\ actors[a].st = "live"
      /\ slots'[actors[a].slot] = slots[actors[a].slot] /\ slots'[ChaosSlot] = slots[ChaosSlot]
  BY DEF Keeps, SameActor
<1>2. actors[a].slot < numEntries' /\ actors[a].object # 0
  BY <1>1 DEF Fits, Keeps
<1>3. ASSUME actors[a].slot \notin overtaken', actors[a].slot # ChaosSlot \/ a \in ToSet(spawned')
      PROVE  Sound(a)'
  <2>1. Sound(a)
    BY <1>1, <1>3 DEF Fits, Keeps
  <2>2. QED BY <2>1, <1>1 DEF Sound, AbsOf
<1>4. ASSUME actors[a].slot \notin overtaken', actors[a].slot = ChaosSlot, ~unnoticed'
      PROVE  Passing(a)'
  <2>1. Passing(a)
    BY <1>1, <1>4 DEF Fits, Keeps
  <2>2. Waits(a)' = Waits(a) /\ SeesIt(a)' = SeesIt(a)
    BY <1>1 DEF Waits, SeesIt, AbsOf
  <2>3. CASE UNCHANGED <<phase, turn>>
    <3>1. StaysFor(a)' = StaysFor(a)
      BY <1>1, <2>3 DEF StaysFor
    <3>2. QED BY <1>1, <2>1, <2>2, <2>3, <3>1 DEF Passing
  <2>4. CASE phase = "play" /\ phase' = "entries"
    <3>1. StaysFor(a) => StaysFor(a)'
      BY <1>1, <2>4 DEF StaysFor
    <3>2. QED BY <1>1, <2>1, <2>2, <2>4, <3>1 DEF Passing
  <2>5. CASE phase = "room" /\ phase' = "actors" /\ a \in turn'
    <3>1. StaysFor(a) => StaysFor(a)'
      BY <1>1, <2>5 DEF StaysFor
    <3>2. QED BY <1>1, <2>1, <2>2, <2>5, <3>1 DEF Passing
  <2>6. CASE phase = "actors" /\ a \notin turn /\ phase' = "chaos"
    <3>1. StaysFor(a) => StaysFor(a)'
      BY <1>1, <2>6 DEF StaysFor
    <3>2. QED BY <1>1, <2>1, <2>2, <2>6, <3>1 DEF Passing
  <2>7. CASE Skips
    <3>1. actors[a].inited /\ ~ (v.id < 0) /\ phase' = "chaos"
      BY <1>1, <2>7 DEF Skips, Awaited
    <3>2. StaysFor(a) => StaysFor(a)'
      BY <1>1, <3>1 DEF StaysFor
    <3>3. SeesIt(a)
      BY <3>1 DEF SeesIt
    <3>4. QED BY <1>1, <2>1, <2>2, <3>1, <3>2, <3>3 DEF Passing
  <2>8. QED BY <1>4, <2>3, <2>4, <2>5, <2>6, <2>7 DEF GoesOn
<1>5. QED BY <1>1, <1>2, <1>3, <1>4 DEF Fits

\* One that is made fits.
LEMMA NewFits ==
  ASSUME TypeOK, NEW a \in Actors, IsNew(actors'[a]), UNCHANGED <<slots, numEntries>>
  PROVE  Fits(a)'
<1> DEFINE z == actors'[a]
           y == slots[z.slot].id
<1>1. /\ z.object # 0 /\ z.slot \in Slots /\ z.slot < numEntries
      /\ AbsId(z.slot) = z.object /\ (z.inited <=> y > 0)
  BY DEF IsNew, IsLoaded
<1>2. AbsOf(y) = z.object /\ (y > 0 => y = z.object)
  BY <1>1, TypesAre, AbsIs
<1>3. slots' = slots /\ numEntries' = numEntries
  OBVIOUS
<1> HIDE DEF z
<1>4. Sound(a)'
  BY <1>1, <1>2, <1>3 DEF Sound, AbsOf, z
<1>5. z.slot = ChaosSlot => Passing(a)'
  BY <1>1, <1>2, <1>3 DEF Passing, StaysFor, Waits, SeesIt, AbsOf, z
<1>6. QED BY <1>1, <1>3, <1>4, <1>5 DEF Fits, z

\* An actor that is gone fits.
LEMMA GoneFits ==
  ASSUME NEW a \in Actors, actors'[a].st # "live"
  PROVE  Fits(a)'
BY DEF Fits

\* Actor_UpdateActor: an actor is initialised once its object is there, and dies if it is not.
LEMMA TurnFits ==
  ASSUME TypeOK, UpdateActor, NEW b \in Actors, Fits(b)
  PROVE  Fits(b)'
<1>1. /\ phase = "actors" /\ phase' = phase
      /\ UNCHANGED <<slots, numEntries, overtaken, unnoticed>>
  BY DEF UpdateActor, objectVars, historyVars
<1>2. PICK a \in turn :
        LET x == actors[a] IN
        /\ a \in Actors /\ turn' = turn \ {a}
        /\ \A c \in Actors \ {a} : actors'[c] = actors[c]
        /\ ToSet(spawned') \subseteq ToSet(spawned)
        /\ \/ ~x.inited /\ SameActor(x, actors'[a]) /\ actors'[a].st = x.st
              /\ (actors'[a].inited <=> IsLoaded(x.slot))
           \/ x.inited /\ SameActor(x, actors'[a]) /\ actors'[a].inited /\ x.st = "live"
              /\ (actors'[a].st = "live" => IsLoaded(x.slot))
           \/ actors'[a].st # "live"
  <2>1. spawned \in Seq(Actors) /\ \A a \in Actors : IsFiniteSet({a})
    BY TypesAre, FS_Singleton
  <2>2. \A a \in Actors : spawned' = AfterDestroy({a}) => ToSet(spawned') \subseteq ToSet(spawned)
    BY <2>1, AfterDestroyIs
  <2>3. QED BY <2>2, UpdateActorStep, Zenon DEF Gone
<1>3. CASE b # a
  <2>1. actors'[b] = actors[b] /\ (b \in turn' <=> b \in turn)
    BY <1>2, <1>3
  <2>2. SUFFICES ASSUME actors[b].st = "live" PROVE Fits(b)'
    BY <2>1 DEF Fits
  <2>3. slots' = slots /\ numEntries' = numEntries /\ overtaken' = overtaken /\ unnoticed' = unnoticed
        /\ phase' = phase
    BY <1>1
  <2>4. Sound(b)' = Sound(b)
    BY <2>1, <2>3 DEF Sound, AbsOf
  <2>5. Passing(b)' = Passing(b)
    BY <2>1, <2>3 DEF Passing, StaysFor, Waits, SeesIt, AbsOf
  <2>6. b \in ToSet(spawned') => b \in ToSet(spawned)
    BY <1>2
  <2>7. QED BY <2>1, <2>2, <2>3, <2>4, <2>5, <2>6 DEF Fits
<1>4. CASE b = a
  <2> DEFINE x == actors[a]
             z == actors'[a]
             y == slots[x.slot].id
  <2>1. SUFFICES ASSUME z.st = "live" PROVE Fits(b)'
    BY <1>4 DEF Fits
  <2>2. /\ x.st = "live" /\ SameActor(x, z)
        /\ (~x.inited /\ (z.inited <=> y > 0)) \/ (x.inited /\ z.inited /\ y > 0)
    <3>1. IsLoaded(x.slot) <=> y > 0
      BY DEF IsLoaded
    <3>2. CASE ~x.inited /\ SameActor(x, z) /\ z.st = x.st /\ (z.inited <=> IsLoaded(x.slot))
      BY <2>1, <3>1, <3>2
    <3>3. CASE x.inited /\ SameActor(x, z) /\ z.inited /\ x.st = "live" /\ (z.st = "live" => IsLoaded(x.slot))
      BY <2>1, <3>1, <3>3
    <3>4. QED BY <1>2, <2>1, <3>2, <3>3, Zenon
  <2>3. z.slot = x.slot /\ z.object = x.object /\ x.slot \in Slots /\ ObjectTypeOK
    BY <1>2, <2>2, TypesAre DEF SameActor
  <2>4. y \in Int /\ (y > 0 => AbsOf(y) = y)
    BY <2>3, AbsIs
  <2>5. Fits(a) /\ slots' = slots /\ numEntries' = numEntries /\ overtaken' = overtaken
        /\ unnoticed' = unnoticed /\ a \notin turn' /\ phase = "actors" /\ phase' = "actors"
    BY <1>1, <1>2, <1>4
  <2>6. a \in ToSet(spawned') => a \in ToSet(spawned)
    BY <1>2
  <2>7. z.slot < numEntries /\ z.object # 0
    BY <2>2, <2>3, <2>5 DEF Fits
  <2>8. Sound(a) => Sound(a)'
    BY <2>2, <2>3, <2>4, <2>5 DEF Sound, AbsOf
  <2>9. z.slot = ChaosSlot /\ Passing(a) => Passing(a)'
    <3> SUFFICES ASSUME x.slot = ChaosSlot, Passing(a) PROVE Passing(a)'
      BY <2>3
    <3>1. IF x.inited THEN y = x.object \/ y < 0 ELSE AbsOf(y) = x.object
      BY <2>3 DEF Passing, StaysFor, Waits
    <3>2. IF z.inited THEN y = z.object /\ y > 0 ELSE AbsOf(y) = z.object /\ ~ (y > 0)
      BY <3>1, <2>2, <2>3, <2>4
    <3>3. slots'[ChaosSlot].id = y
      BY <2>5
    <3>4. QED BY <3>2, <3>3 DEF Passing, StaysFor, Waits, SeesIt, AbsOf
  <2>10. (x.slot # ChaosSlot \/ a \in ToSet(spawned)) /\ x.slot \notin overtaken => Sound(a)
    BY <2>2, <2>5 DEF Fits
  <2>11. x.slot = ChaosSlot /\ ~unnoticed /\ x.slot \notin overtaken => Passing(a)
    BY <2>2, <2>5 DEF Fits
  <2>12. QED BY <1>4, <2>3, <2>5, <2>6, <2>7, <2>8, <2>9, <2>10, <2>11 DEF Fits
<1>5. QED BY <1>3, <1>4

\* Object_UpdateEntries does not take an object away from an actor, and the object of the
\* effects comes only after a turn of the actors of its slot.
LEMMA UpdateFits ==
  ASSUME TypeOK, SlotInv, KeepInv, UpdateObjects, NEW a \in Actors, Fits(a)
  PROVE  Fits(a)'
<1> DEFINE x == actors[a]
           s == x.slot
           y == slots[s].id
           y2 == slots'[s].id
<1>1. /\ phase = "entries" /\ UpdateEntries
      /\ UNCHANGED <<actors, spawned, numEntries, overtaken>>
  BY DEF UpdateObjects, LeftOut, Before, UpdateEntries, Skips
<1>2. (unnoticed => unnoticed') /\ (phase' = "room" \/ unnoticed' \/ Skips)
  BY DEF UpdateObjects, LeftOut, Before, Skips
<1> SUFFICES ASSUME actors'[a].st = "live" PROVE Fits(a)'
  BY DEF Fits
<1>3. /\ x.st = "live" /\ s \in Slots /\ ObjectTypeOK
      /\ x.object \in Objects \cup {0} /\ x.inited \in BOOLEAN
  BY <1>1, TypesAre
<1>4. s < numEntries /\ x.object # 0
  BY <1>3 DEF Fits
<1>5. CASE s \in overtaken
  BY <1>1, <1>4, <1>5 DEF Fits
<1>6. CASE s \notin overtaken
  <2>1. /\ y \in Int /\ AbsOf(y) = AbsId(s) /\ x.object \in Nat \ {0}
    BY <1>3, <1>4, AbsIs, ObjectsAssumption
  <2>2. \/ y2 = y
        \/ y <= 0 /\ y2 = -y
        \/ y < 0 /\ y2 = 0 /\ AbsId(s) \in Sizeless
    BY <1>1, <1>3, <1>6, SlotMoves
  <2>3. s = ChaosSlot => AbsId(s) \notin Sizeless
    BY RoomIs DEF KeepInv
  <2>4. s = ChaosSlot /\ y2 # y /\ y < 0 => slots[ChaosSlot].load_pending
    <3> SUFFICES ASSUME s = ChaosSlot, y2 # y, y < 0 PROVE slots[ChaosSlot].load_pending
      OBVIOUS
    <3>1. PICK k \in 1 .. Finished : s = load_requests[Outstanding[k]].slot
      BY <1>1, <1>3, <1>6, <2>3, SlotMoves
    <3>2. k \in 1 .. pending_request_count
      BY <1>3, FinishedIs, OutstandingIs
    <3>3. y # 0
      BY <2>1
    <3>4. QED BY <3>1, <3>2, <3>3, <1>6 DEF SlotInv
  <2>5. slots'[actors'[a].slot].id = y2 /\ actors'[a].slot = s /\ actors'[a].object = x.object
        /\ actors'[a].inited = x.inited
    BY <1>1
  <2>6. (s = ChaosSlot => slots[ChaosSlot].id = y /\ slots'[ChaosSlot].id = y2)
    OBVIOUS
  <2> DEFINE o == x.object
  <2> HIDE DEF y, y2, s, o
  <2>7. ASSUME s # ChaosSlot \/ a \in ToSet(spawned) PROVE Sound(a)'
    <3>1. IF x.inited THEN y = o ELSE AbsOf(y) = o \/ (y = 0 /\ s # ChaosSlot)
      BY <1>3, <1>6, <2>7 DEF Fits, Sound, y, s, o
    <3>2. IF x.inited THEN y2 = o ELSE AbsOf(y2) = o \/ (y2 = 0 /\ s # ChaosSlot)
      BY <3>1, <2>1, <2>2, <2>3, <1>3 DEF AbsOf, o
    <3>3. QED BY <3>2, <2>5 DEF Sound, AbsOf, o
  <2>8. ASSUME s = ChaosSlot, ~unnoticed' PROVE Passing(a)'
    <3>1. Passing(a)
      BY <1>2, <1>3, <1>6, <2>8 DEF Fits, s
    <3>2. /\ x.inited => y = o \/ (y < 0 /\ ~slots[ChaosSlot].load_pending)
          /\ ~x.inited => AbsOf(y) = o
      BY <3>1, <1>1, <2>6, <2>8 DEF Passing, StaysFor, Waits, o
    <3>3. /\ x.inited => y2 = o \/ y2 < 0
          /\ ~x.inited => AbsOf(y2) = o
      BY <3>2, <2>1, <2>2, <2>3, <2>4, <2>8, <1>3 DEF AbsOf, o
    <3>4. phase' = "room" \/ (phase' = "chaos" /\ x.inited /\ ~ (y2 < 0))
      <4>1. Skips => x.inited /\ ~ (y2 < 0) /\ phase' = "chaos"
        BY <2>5, <2>6, <2>8, <1>3 DEF Skips, Awaited
      <4>2. QED BY <4>1, <1>2, <2>8
    <3>5. StaysFor(a)' <=> \/ y2 = o
                           \/ /\ y2 < 0 /\ phase' # "chaos"
                              /\ phase' \in {"play", "entries"} => ~slots'[ChaosSlot].load_pending
                              /\ phase' = "actors" => a \in turn'
      BY <2>5, <2>6, <2>8 DEF StaysFor, o
    <3>6. Waits(a)' <=> AbsOf(y2) = o
      BY <2>5, <2>6, <2>8 DEF Waits, AbsOf, o
    <3>7. SeesIt(a)' <=> (y2 > 0 => x.inited)
      BY <2>5, <2>6, <2>8 DEF SeesIt
    <3>8. actors'[a].inited = x.inited /\ x.inited \in BOOLEAN
      BY <2>5, <1>3
    <3>9. QED BY <3>3, <3>4, <3>5, <3>6, <3>7, <3>8 DEF Passing
  <2>9. numEntries' = numEntries /\ overtaken' = overtaken /\ spawned' = spawned
    BY <1>1
  <2>10. QED BY <1>4, <2>5, <2>7, <2>8, <2>9 DEF Fits, s, o
<1>7. QED BY <1>5, <1>6

\* A room that comes kills the actors whose slots it takes.
LEMMA RoomFits ==
  ASSUME TypeOK, NEW kept \in KeptSlots(RoomList[roomCtx.cur]), ProcessRoom(kept),
         unnoticed => unnoticed', NEW a \in Actors, Fits(a), GoesOn(a)
  PROVE  Fits(a)'
<1> DEFINE first == NumPersistent + kept
           s == actors[a].slot
<1>0. ObjectTypeOK /\ s \in Slots /\ ChaosSlot \in Slots /\ NumPersistent \in Nat
      /\ ChaosSlot < NumPersistent /\ overtaken \subseteq Slots
  BY TypesAre, NumbersAre DEF ObjectTypeOK
<1>1. /\ AtMostDies(actors[a], actors'[a])
      /\ actors'[a].st = "live" => first = numEntries \/ ~ (s >= first)
  BY RoomKills
<1>2. /\ first <= numEntries' /\ first <= numEntries /\ kept \in Nat /\ ObjectTypeOK'
      /\ \A t \in Slots : /\ t < first => slots'[t] = slots[t]
                          /\ t \in overtaken => t \in overtaken'
  BY <1>0, RoomIs, ListStep DEF ProcessRoom
<1>3. numEntries \in Nat /\ numEntries' \in Nat /\ first \in Nat /\ s \in Nat /\ ChaosSlot \in Nat
  BY <1>0, <1>2, NumbersAre DEF ObjectTypeOK, Slots
<1>4. CASE actors'[a].st # "live"
  BY <1>4, GoneFits
<1>5. CASE actors'[a].st = "live"
  <2>1. actors[a].st = "live" /\ SameActor(actors[a], actors'[a]) /\ actors'[a].inited = actors[a].inited
    BY <1>1, <1>5 DEF AtMostDies
  <2>2. s < numEntries
    BY <2>1 DEF Fits
  <2>3. first = numEntries \/ ~ (s >= first)
    BY <1>1, <1>5
  <2>4. ToSet(spawned') = {}
    BY DEF ProcessRoom, ToSet
  <2> HIDE DEF s, first
  <2>5. s < first /\ s < numEntries'
    BY <1>2, <1>3, <2>2, <2>3
  <2>6. slots'[s] = slots[s] /\ slots'[ChaosSlot] = slots[ChaosSlot]
    <3>1. ChaosSlot < first
      BY <1>0, <1>2, <1>3 DEF first
    <3>2. QED BY <1>0, <1>2, <2>5, <3>1
  <2>7. overtaken \subseteq overtaken'
    BY <1>0, <1>2
  <2>8. Keeps(a)
    BY <2>1, <2>4, <2>5, <2>6, <2>7 DEF Keeps, s
  <2>9. QED BY <2>8, ActorStays
<1>6. QED BY <1>4, <1>5

\* The object of the effects is exchanged while no listed actor has it, and no other one of
\* its slot waits for it.
LEMMA DrawFits ==
  ASSUME TypeOK, UpdateChaos, NEW a \in Actors, Fits(a)
  PROVE  Fits(a)'
<1> DEFINE x == actors[a]
           z == actors'[a]
           s == x.slot
           v == slots[ChaosSlot]
           v2 == slots'[ChaosSlot]
<1>1. phase = "chaos" /\ phase' = "play" /\ UNCHANGED <<turn, spawned>> /\ DrawFrame
  BY DEF UpdateChaos, DrawFrame
<1> SUFFICES ASSUME z.st = "live" PROVE Fits(a)'
  BY DEF Fits
<1>2. /\ x.st = "live" /\ SameActor(x, z) /\ z.inited = x.inited
      /\ z.slot = s /\ z.object = x.object
  BY <1>1, DrawStep, NoActorIs DEF AtMostDies, SameActor
<1>3. s \in Slots /\ ObjectTypeOK /\ ChaosSlot \in Slots
  BY TypesAre, NumbersAre
<1>4. \/ UNCHANGED <<slots, numEntries, overtaken, unnoticed>>
      \/ /\ spawned = <<>> /\ numEntries' = numEntries /\ overtaken \subseteq overtaken'
         /\ ~unnoticed' => ~unnoticed /\ ~ (v.id < 0)
         /\ v2.id < 0 /\ ~v2.load_pending
         /\ \A t \in Slots : t # ChaosSlot => slots'[t] = slots[t]
  <2>1. CASE UNCHANGED <<objectVars, chaosVars, unnoticed>>
    BY <2>1 DEF objectVars
  <2>2. CASE \E c \in Draws : ActivateCode(c)
    BY <2>2 DEF ActivateCode, objectVars
  <2>3. CASE \E c \in Draws : RequestObject(c)
    <3>1. PICK c \in Draws : RequestObject(c)
      BY <2>3
    <3>2. CASE ObjectInUse
      BY <3>1, <3>2 DEF RequestObject, objectVars
    <3>3. CASE ~ObjectInUse
      <4>1. RequestOverwrite(ChaosSlot, CodeObject[c]) /\ CodeObject[c] \in Objects
        BY <3>1, <3>3, RoomIs DEF RequestObject
      <4>2. /\ numEntries' = numEntries /\ spawned = <<>>
            /\ unnoticed' = (unnoticed \/ slots[ChaosSlot].id < 0)
        BY <3>1, <3>3, <4>1 DEF RequestObject, RequestOverwrite, ObjectInUse
      <4>3. QED BY <4>1, <4>2, <1>3, OverwriteStep
    <3>4. QED BY <3>2, <3>3
  <2>4. QED BY <2>1, <2>2, <2>3 DEF UpdateChaos
<1>5. s < numEntries /\ x.object # 0
  BY <1>2 DEF Fits
<1>6. CASE UNCHANGED <<slots, numEntries, overtaken, unnoticed>>
  <2>1. s \notin overtaken /\ (s # ChaosSlot \/ a \in ToSet(spawned)) => Sound(a)'
    <3>1. Sound(a)' <=> Sound(a)
      BY <1>2, <1>6 DEF Sound, AbsOf
    <3>2. QED BY <3>1, <1>2 DEF Fits
  <2>2. s \notin overtaken /\ s = ChaosSlot /\ ~unnoticed => Passing(a)'
    <3>1. Passing(a) => IF x.inited THEN v.id = x.object ELSE Waits(a)
      BY <1>1 DEF Passing, StaysFor
    <3>2. Waits(a)' <=> Waits(a)
      BY <1>2, <1>6 DEF Waits, AbsOf
    <3>3. v.id = x.object => StaysFor(a)'
      BY <1>2, <1>6 DEF StaysFor
    <3>4. Passing(a) => Passing(a)'
      BY <3>1, <3>2, <3>3, <1>1, <1>2 DEF Passing
    <3>5. QED BY <3>4, <1>2 DEF Fits
  <2>3. QED BY <2>1, <2>2, <1>1, <1>2, <1>5, <1>6 DEF Fits
<1>7. CASE /\ spawned = <<>> /\ numEntries' = numEntries /\ overtaken \subseteq overtaken'
           /\ ~unnoticed' => ~unnoticed /\ ~ (v.id < 0)
           /\ v2.id < 0 /\ ~v2.load_pending
           /\ \A t \in Slots : t # ChaosSlot => slots'[t] = slots[t]
  <2>1. a \notin ToSet(spawned)
    BY <1>7 DEF ToSet
  <2>2. s \notin overtaken' /\ s # ChaosSlot => Sound(a)'
    <3>1. s # ChaosSlot => (Sound(a)' <=> Sound(a))
      BY <1>2, <1>3, <1>7 DEF Sound, AbsOf
    <3>2. QED BY <3>1, <1>2, <1>7 DEF Fits
  <2>3. s \notin overtaken' /\ s = ChaosSlot /\ ~unnoticed' => Passing(a)'
    <3> SUFFICES ASSUME s \notin overtaken', s = ChaosSlot, ~unnoticed' PROVE Passing(a)'
      OBVIOUS
    <3>1. Passing(a) /\ ~ (v.id < 0)
      BY <1>2, <1>7 DEF Fits
    <3>2. v.id \in Int
      BY <1>3, AbsIs
    <3>3. x.inited
      <4>1. ~x.inited => AbsOf(v.id) = x.object /\ ~ (v.id > 0)
        BY <3>1, <1>1 DEF Passing, Waits, SeesIt
      <4>2. ~ (v.id < 0) /\ ~ (v.id > 0) => AbsOf(v.id) = 0
        BY <3>2 DEF AbsOf
      <4>3. QED BY <4>1, <4>2, <3>1, <1>5
    <3>4. StaysFor(a)'
      BY <1>1, <1>7 DEF StaysFor
    <3>5. QED BY <3>3, <3>4, <1>1, <1>2 DEF Passing
  <2>4. QED BY <2>1, <2>2, <2>3, <1>1, <1>2, <1>5, <1>7 DEF Fits
<1>8. QED BY <1>4, <1>6, <1>7

LEMMA StepKeepsActors ==
  ASSUME TypeOK, SlotInv, FirstInv, KeepInv, ActorInv, [Next]_vars
  PROVE  ActorInv'
<1>0. /\ spawned \in Seq(Actors) /\ ToSet(spawned) \subseteq Actors
      /\ \A S \in SUBSET Actors : IsFiniteSet(S)
  BY TypesAre
<1> SUFFICES ASSUME NEW a \in Actors PROVE Fits(a)'
  BY DEF ActorInv
<1>1. Fits(a)
  BY DEF ActorInv
<1>2. ASSUME UNCHANGED <<slots, numEntries, overtaken>>, unnoticed => unnoticed',
             SameActor(actors[a], actors'[a]), actors'[a].inited = actors[a].inited,
             actors'[a].st = "live" => actors[a].st = "live",
             ToSet(spawned') \subseteq ToSet(spawned), GoesOn(a)
      PROVE  Fits(a)'
  BY <1>1, <1>2, ActorStays DEF Keeps
<1>3. ASSUME UNCHANGED <<slots, numEntries, overtaken, actors, spawned>>,
             unnoticed => unnoticed', GoesOn(a)
      PROVE  Fits(a)'
  BY <1>2, <1>3 DEF SameActor
<1>4. ASSUME UNCHANGED <<slots, numEntries, overtaken>>, unnoticed => unnoticed', GoesOn(a),
             NEW c \in Codes, SpawnActor(c)
      PROVE  Fits(a)'
  <2> DEFINE f == FreeActor(actors)
  <2>1. CASE UNCHANGED <<spawned, actors>>
    BY <1>3, <1>4, <2>1
  <2>2. CASE ~UNCHANGED <<spawned, actors>>
    <3>1. /\ f \in Actors /\ spawned' = Append(spawned, f)
          /\ \A b \in Actors \ {f} : actors'[b] = actors[b]
          /\ actors'[f].st = "live" /\ actors'[f].object = CodeObject[c]
          /\ actors'[f].slot \in Slots /\ actors'[f].slot < numEntries
          /\ AbsId(actors'[f].slot) = actors'[f].object
          /\ (actors'[f].inited <=> IsLoaded(actors'[f].slot)) /\ ~actors'[f].isDrawn
      BY <1>4, <2>2, SpawnedStep
    <3>2. CodeObject[c] # 0
      BY RoomIs, ObjectsAssumption
    <3> HIDE DEF f
    <3>3. CASE a = f
      BY <3>1, <3>2, <3>3, <1>4, NewFits DEF IsNew
    <3>4. CASE a # f
      <4>1. ToSet(spawned') = ToSet(spawned) \cup {f} /\ actors'[a] = actors[a]
        BY <3>1, <3>4, <1>0, AppendedIs
      <4>2. Keeps(a)
        BY <4>1, <3>4, <1>4 DEF Keeps, SameActor
      <4>3. QED BY <4>2, <1>1, <1>4, ActorStays
    <3>5. QED BY <3>3, <3>4
  <2>3. QED BY <2>1, <2>2
<1>5. CASE PerformCode
  <2>1. PICK c \in active : SpawnActor(c)
    BY <1>5 DEF PerformCode
  <2>2. c \in Codes
    BY DEF TypeOK
  <2>3. UNCHANGED <<slots, numEntries, overtaken, unnoticed, phase, turn>>
    BY <1>5 DEF PerformCode, objectVars, historyVars
  <2>4. QED BY <2>1, <2>2, <2>3, <1>4 DEF GoesOn
<1>6. CASE PerformChicken
  <2>1. UNCHANGED <<slots, numEntries, overtaken>> /\ (unnoticed => unnoticed') /\ GoesOn(a)
    BY <1>6 DEF PerformChicken, LeftOut, Before, GoesOn, Skips, objectVars
  <2>2. CASE SpawnActor(Chicken)
    BY <1>4, <2>1, <2>2, ActorsAssumption, RoomIs
  <2>3. CASE UNCHANGED <<spawned, actors>>
    BY <1>3, <2>1, <2>3
  <2>4. QED BY <1>6, <2>2, <2>3 DEF PerformChicken
<1>7. CASE UpdateObjects
  BY <1>1, <1>7, UpdateFits
<1>8. CASE ProcessRoomRequest
  <2>1. GoesOn(a) /\ (unnoticed => unnoticed')
    BY <1>8 DEF ProcessRoomRequest, Before, GoesOn, Skips
  <2>2. CASE \E kept \in KeptSlots(RoomList[roomCtx.cur]) : ProcessRoom(kept)
    BY <1>1, <2>1, <2>2, RoomFits
  <2>3. CASE UNCHANGED <<objectVars, spawned, actors, roomCtx, forgotten>>
    BY <1>3, <2>1, <2>3 DEF objectVars
  <2>4. QED BY <1>8, <2>2, <2>3 DEF ProcessRoomRequest
<1>9. CASE ProcessFirstRoom
  <2>1. PICK kept : ProcessRoom(kept)
    BY <1>9 DEF ProcessFirstRoom
  <2>2. actors[a].st = "none" /\ AtMostDies(actors[a], actors'[a])
    BY <1>9, <2>1, RoomKills, NoActorIs DEF FirstInv, ProcessFirstRoom
  <2>3. QED BY <2>2, GoneFits DEF AtMostDies
<1>10. CASE SpawnSetupActors
  <2>1. UNCHANGED <<slots, numEntries, overtaken, unnoticed, phase, turn, spawned>>
    BY <1>10 DEF SpawnSetupActors, objectVars, historyVars
  <2>2. CASE actors'[a] = actors[a]
    BY <2>1, <2>2, <1>2 DEF SameActor, GoesOn
  <2>3. CASE actors'[a].st # "live"
    BY <2>3, GoneFits
  <2>4. CASE IsNew(actors'[a])
    BY <2>1, <2>4, NewFits
  <2>5. QED BY <1>10, <2>2, <2>3, <2>4, SetupStep DEF Gone
<1>11. CASE UpdateActor
  BY <1>1, <1>11, TurnFits
<1>12. CASE RequestNewRoom
  <2>1. UNCHANGED <<slots, numEntries, overtaken, actors, spawned, unnoticed>> /\ GoesOn(a)
    BY <1>12 DEF RequestNewRoom, GoesOn, historyVars
  <2>2. QED BY <1>3, <2>1
<1>13. CASE FinishRoomChange
  <2>1. UNCHANGED <<slots, numEntries, overtaken, unnoticed>> /\ GoesOn(a)
    BY <1>13 DEF FinishRoomChange, GoesOn, objectVars
  <2>2. PICK left \in SUBSET Actors :
           /\ spawned' = AfterDestroy(left)
           /\ \A b \in Actors : /\ b \notin left => actors'[b] = actors[b]
                                /\ b \in left => Gone(actors[b], actors'[b])
    BY <1>13, FinishStep
  <2>3. CASE a \in left
    BY <2>2, <2>3, GoneFits DEF Gone
  <2>4. CASE a \notin left
    <3>1. ToSet(spawned') \subseteq ToSet(spawned)
      BY <2>2, <1>0, AfterDestroyIs
    <3>2. actors'[a] = actors[a]
      BY <2>2, <2>4
    <3>3. QED BY <2>1, <3>1, <3>2, <1>2 DEF SameActor
  <2>5. QED BY <2>3, <2>4
<1>14. CASE DoorsStayShut
  <2>1. UNCHANGED <<slots, numEntries, overtaken, actors, spawned, unnoticed>> /\ GoesOn(a)
    BY <1>14 DEF DoorsStayShut, GoesOn, objectVars, historyVars
  <2>2. QED BY <1>3, <2>1
<1>15. CASE KillActorAtIndex
  <2>1. UNCHANGED <<slots, numEntries, overtaken, unnoticed>> /\ GoesOn(a)
    BY <1>15 DEF KillActorAtIndex, GoesOn, objectVars, historyVars
  <2>2. PICK i \in 1 .. Len(spawned) :
           /\ spawned' = DropActorAtIndex(spawned, i)
           /\ \A b \in Actors : actors'[b] = actors[b] \/ actors'[b].st = "dead"
    BY <1>15, KillStep
  <2>3. ToSet(spawned') \subseteq ToSet(spawned)
    BY <2>2, <1>0, DropAtIs
  <2>4. CASE actors'[a] = actors[a]
    BY <2>1, <2>3, <2>4, <1>2 DEF SameActor
  <2>5. CASE actors'[a].st = "dead"
    BY <2>5, GoneFits
  <2>6. QED BY <2>2, <2>4, <2>5
<1>16. CASE DropCode
  <2>1. UNCHANGED <<slots, numEntries, overtaken, actors, spawned, unnoticed>> /\ GoesOn(a)
    BY <1>16 DEF DropCode, GoesOn, objectVars, historyVars
  <2>2. QED BY <1>3, <2>1
<1>17. CASE UpdateChaos
  BY <1>1, <1>17, DrawFits
<1>18. CASE NewScene
  <2>1. actors'[a] = NoActor
    BY <1>18 DEF NewScene
  <2>2. QED BY <2>1, NoActorIs, GoneFits
<1>19. CASE Dma
  <2>1. UNCHANGED <<slots, numEntries, overtaken, actors, spawned, unnoticed>> /\ GoesOn(a)
    BY <1>19 DEF Dma, DmaDone, GoesOn, historyVars
  <2>2. QED BY <1>3, <2>1
<1>20. CASE UNCHANGED vars
  <2>1. UNCHANGED <<slots, numEntries, overtaken, actors, spawned, unnoticed>> /\ GoesOn(a)
    BY <1>20 DEF vars, GoesOn, objectVars, historyVars
  <2>2. QED BY <1>3, <2>1
<1>21. QED BY <1>5, <1>6, <1>7, <1>8, <1>9, <1>10, <1>11, <1>12, <1>13, <1>14, <1>15, <1>16, <1>17,
              <1>18, <1>19, <1>20 DEF Next, Frame

\* What an actor was drawn from stays where it is until the next frame is drawn.
LEMMA StepKeepsDrawn ==
  ASSUME TypeOK, SlotInv, FirstInv, ActorInv, DrawnFromItsObject, [Next]_vars
  PROVE  DrawnFromItsObject'
<1>0. /\ ObjectTypeOK /\ ~NoActor.isDrawn /\ NoActor.st = "none"
      /\ \A a \in Actors : actors[a].slot \in Slots
      /\ ToSet(spawned) \subseteq Actors /\ spawned \in Seq(Actors)
  BY TypesAre, NoActorIs
<1>1. SUFFICES ASSUME phase' = "play" PROVE DrawnFromItsObject'
  BY DEF DrawnFromItsObject
<1>2. ASSUME phase = "play", UNCHANGED <<mem, dma, overtaken, unnoticed>>,
             \A a \in Actors : actors'[a].isDrawn =>
                actors'[a] = actors[a] /\ (a \in ToSet(spawned') => a \in ToSet(spawned))
      PROVE  DrawnFromItsObject'
  <2>1. /\ mem' = mem /\ dma' = dma /\ overtaken' = overtaken /\ unnoticed' = unnoticed
        /\ Loads' = Loads
    BY <1>2 DEF Loads
  <2>2. QED BY <2>1, <1>2 DEF DrawnFromItsObject
<1>3. CASE PerformCode
  <2>1. phase = "play" /\ UNCHANGED <<mem, dma, overtaken, unnoticed>>
    BY <1>3 DEF PerformCode, objectVars, historyVars
  <2>2. PICK c \in active : SpawnActor(c)
    BY <1>3 DEF PerformCode
  <2>3. c \in Codes
    BY DEF TypeOK
  <2>4. CASE UNCHANGED <<spawned, actors>>
    BY <1>2, <2>1, <2>4
  <2>5. CASE ~UNCHANGED <<spawned, actors>>
    <3> DEFINE f == FreeActor(actors)
    <3>1. /\ f \in Actors /\ spawned' = Append(spawned, f) /\ ~actors'[f].isDrawn
          /\ \A a \in Actors \ {f} : actors'[a] = actors[a]
      BY <2>2, <2>3, <2>5, SpawnedStep
    <3> HIDE DEF f
    <3>2. ToSet(spawned') = ToSet(spawned) \cup {f}
      BY <3>1, <1>0, AppendedIs
    <3>3. QED BY <1>2, <2>1, <3>1, <3>2
  <2>6. QED BY <2>4, <2>5
<1>4. CASE ProcessFirstRoom
  <2>1. \A a \in Actors : actors[a].st # "live" /\ ~actors[a].isDrawn
    BY <1>0, <1>4 DEF ProcessFirstRoom, FirstInv
  <2>2. \A a \in Actors : actors'[a] = actors[a]
    BY <2>1, <1>4 DEF ProcessFirstRoom, ProcessRoom
  <2>3. QED BY <2>1, <2>2 DEF DrawnFromItsObject
<1>5. CASE UpdateChaos
  <2>1. phase = "chaos" /\ UNCHANGED spawned
    BY <1>5 DEF UpdateChaos, DrawFrame
  <2>2. UNCHANGED <<mem, dma>> /\ overtaken \subseteq overtaken' /\ (unnoticed => unnoticed')
    <3>1. CASE UNCHANGED <<objectVars, chaosVars, unnoticed>>
      BY <3>1 DEF objectVars
    <3>2. CASE \E c \in Draws : ActivateCode(c)
      BY <3>2 DEF ActivateCode, objectVars
    <3>3. CASE \E c \in Draws : RequestObject(c)
      BY <3>3 DEF RequestObject, RequestOverwrite, objectVars
    <3>4. QED BY <1>5, <3>1, <3>2, <3>3 DEF UpdateChaos
  <2>3. LoadedIsThere
    BY LoadedFollows
  <2> SUFFICES ASSUME NEW a \in Actors, actors'[a].isDrawn, actors'[a].slot \notin overtaken',
                      unnoticed' => actors'[a].slot # ChaosSlot \/ a \in ToSet(spawned')
               PROVE  /\ mem[actors'[a].slot] = actors'[a].object
                      /\ \A k \in Loads : dma[k].slot # actors'[a].slot
    BY <2>2 DEF DrawnFromItsObject, Loads
  <2> DEFINE x == actors[a]
             s == x.slot
             o == x.object
  <2>4. x.st = "live" /\ x.inited /\ actors'[a].slot = s /\ actors'[a].object = o
    BY <1>5, DrawStep DEF UpdateChaos, SameActor
  <2>5. Fits(a) /\ s \notin overtaken
    BY <2>2, <2>4 DEF ActorInv
  <2>6. ASSUME s # ChaosSlot \/ a \in ToSet(spawned) PROVE slots[s].id = o
    <3>1. Sound(a)
      BY <2>4, <2>5, <2>6 DEF Fits
    <3>2. QED BY <3>1, <2>4 DEF Sound
  <2>7. ASSUME ~ (s # ChaosSlot \/ a \in ToSet(spawned)) PROVE slots[s].id = o
    <3>1. s = ChaosSlot /\ ~unnoticed
      BY <2>1, <2>2, <2>4, <2>7
    <3>2. Passing(a)
      BY <2>4, <2>5, <3>1 DEF Fits
    <3>3. QED BY <2>1, <2>4, <3>1, <3>2 DEF Passing, StaysFor
  <2>8. slots[s].id = o /\ o # 0
    <3>1. o # 0
      BY <2>4, <2>5 DEF Fits
    <3>2. QED BY <3>1, <2>6, <2>7
  <2>9. s \in Slots /\ o \in Objects \cup {0}
    BY TypesAre
  <2> HIDE DEF s, o
  <2>10. o > 0
    <3>1. o \in Objects
      BY <2>8, <2>9
    <3>2. \A y \in Objects : y > 0
      BY ObjectsAssumption
    <3>3. QED BY <3>1, <3>2
  <2>11. mem[s] = o /\ \A k \in Loads : dma[k].slot # s
    BY <2>3, <2>5, <2>8, <2>9, <2>10 DEF LoadedIsThere, IsLoaded
  <2>12. QED BY <2>4, <2>11
<1>6. CASE Dma
  <2>1. phase = "play" /\ UNCHANGED <<actors, spawned, overtaken, unnoticed>> /\ DmaDone
    BY <1>1, <1>6 DEF Dma, DmaDone, historyVars
  <2> DEFINE n == Len(dma)
             e == dma[1]
  <2>2. /\ n \in Nat \ {0} /\ DOMAIN dma = 1 .. n /\ DOMAIN dma' = 1 .. n - 1
        /\ \A k \in 1 .. n - 1 : dma'[k] = dma[k + 1]
        /\ \A s \in Slots : mem'[s] = IF e.request # Room /\ e.slot = s THEN e.id ELSE mem[s]
    BY <1>0, <2>1, DmaStep
  <2> HIDE DEF n
  <2>3. 1 \in DOMAIN dma /\ \A k \in DOMAIN dma' : k + 1 \in DOMAIN dma /\ dma'[k] = dma[k + 1]
    BY <2>2
  <2>4. /\ e.request # Room => 1 \in Loads
        /\ \A k \in Loads' : k + 1 \in Loads /\ dma'[k] = dma[k + 1]
    BY <2>3 DEF Loads
  <2> SUFFICES ASSUME NEW a \in Actors, actors[a].isDrawn, actors[a].slot \notin overtaken,
                      unnoticed => actors[a].slot # ChaosSlot \/ a \in ToSet(spawned)
               PROVE  /\ mem'[actors[a].slot] = actors[a].object
                      /\ \A k \in Loads' : dma'[k].slot # actors[a].slot
    BY <2>1 DEF DrawnFromItsObject
  <2>5. /\ mem[actors[a].slot] = actors[a].object
        /\ \A k \in Loads : dma[k].slot # actors[a].slot
    BY <2>1 DEF DrawnFromItsObject
  <2>6. mem'[actors[a].slot] = actors[a].object
    BY <1>0, <2>2, <2>4, <2>5
  <2>7. QED BY <2>4, <2>5, <2>6
<1>7. CASE UNCHANGED vars
  BY <1>1, <1>2, <1>7 DEF vars, objectVars, historyVars
<1>8. CASE DropCode
  BY <1>1, <1>8 DEF DropCode
<1>9. CASE KillActorAtIndex
  BY <1>1, <1>9 DEF KillActorAtIndex
<1>10. CASE PerformChicken \/ UpdateObjects \/ ProcessRoomRequest
  BY <1>1, <1>10 DEF PerformChicken, UpdateObjects, ProcessRoomRequest, Before, LeftOut
<1>11. CASE SpawnSetupActors \/ UpdateActor
  BY <1>1, <1>11 DEF SpawnSetupActors, UpdateActor
<1>12. CASE RequestNewRoom \/ FinishRoomChange \/ DoorsStayShut \/ NewScene
  BY <1>1, <1>12 DEF RequestNewRoom, FinishRoomChange, DoorsStayShut, NewScene
<1>13. QED BY <1>3, <1>4, <1>5, <1>6, <1>7, <1>8, <1>9, <1>10, <1>11, <1>12 DEF Next, Frame

\* An actor is drawn from the object it was made for: its slot's memory holds that object and
\* no load overwrites it before the frame is shown (Actor_Draw), in every slot that no load
\* in flight was meant for another object of, and in the slot of the effects for the listed
\* actors in any case and for the others unless one was left without a look at the slot
\* between two objects.
THEOREM ActorsAreDrawnFromTheirObject == Spec => []DrawnFromItsObject
<1>1. Init => ActorInv /\ DrawnFromItsObject
  BY NoActorIs DEF Init, ActorInv, Fits, DrawnFromItsObject
<1>2. SlotsInv /\ ActorInv /\ [Next]_vars => ActorInv'
  BY StepKeepsActors DEF SlotsInv
<1>3. SlotsInv /\ ActorInv /\ DrawnFromItsObject /\ [Next]_vars => DrawnFromItsObject'
  BY StepKeepsDrawn DEF SlotsInv
<1>4. QED BY <1>1, <1>2, <1>3, SlotsInvHolds, PTL DEF Spec

=============================================================================
