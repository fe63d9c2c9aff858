------------------------------- MODULE Lists -------------------------------
(***************************************************************************)
(* Facts that proofs about queues and linked lists rest on: induction over *)
(* the natural numbers, in a form that the provers can use, and what is in *)
(* a sequence after an element or a sequence is appended to it or its head *)
(* is taken off.                                                           *)
(***************************************************************************)
EXTENDS Integers, Sequences, SequenceTheorems, FiniteSetTheorems, TLAPS

\* t is in q, and q has no element twice.
In(t, q) == \E i \in 1 .. Len(q) : q[i] = t
Once(q) == \A i, j \in 1 .. Len(q) : q[i] = q[j] => i = j

-----------------------------------------------------------------------------
(* Induction.  A theorem that takes an operator as a parameter cannot be   *)
(* applied; this one is stated for the set of the numbers for which a      *)
(* property holds.                                                         *)


\* Every set of natural numbers but the empty one has a least element: the intervals
\* from 0 are finite sets, ordered by inclusion.
LEMMA LeastNat ==
  ASSUME NEW T, T \subseteq Nat, T # {}
  PROVE  \E x \in T : \A y \in T : x <= y
<1> DEFINE R == StrictSubsetOrdering(Nat)
           F == {0 .. t : t \in T}
<1>1. IsWellFoundedOn(R, FiniteSubsetsOf(Nat))
  BY FS_StrictSubsetOrderingWellFounded
<1>2. F \subseteq FiniteSubsetsOf(Nat)
  <2> SUFFICES ASSUME NEW t \in T PROVE 0 .. t \in FiniteSubsetsOf(Nat)
    OBVIOUS
  <2>1. t \in Int /\ 0 \in Int
    OBVIOUS
  <2>2. IsFiniteSet(0 .. t)
    BY ONLY <2>1, FS_Interval
  <2>3. QED BY <2>2 DEF FiniteSubsetsOf
<1>3. F # {}
  OBVIOUS
<1> HIDE DEF R, F
<1>4. \E u \in F : \A v \in F : ~ (<<v, u>> \in R)
  BY <1>1, <1>2, <1>3, WFMin
<1>5. PICK x \in T : \A v \in F : ~ (<<v, 0 .. x>> \in R)
  BY <1>4 DEF F
<1>6. ASSUME NEW y \in T, ~ (x <= y) PROVE FALSE
  <2>1. 0 .. y \in F
    BY DEF F
  <2>2. 0 .. y \subseteq 0 .. x /\ 0 .. y # 0 .. x
    BY <1>6
  <2>3. <<0 .. y, 0 .. x>> \in R
    BY <2>2 DEF R, StrictSubsetOrdering
  <2>4. QED BY <1>5, <2>1, <2>3
<1>7. QED BY <1>6

\* Induction over the natural numbers.
LEMMA NatInduct ==
  ASSUME NEW P, 0 \in P, \A n \in Nat : n \in P => n + 1 \in P
  PROVE  Nat \subseteq P
<1>1. SUFFICES ASSUME Nat \ P # {} PROVE FALSE
  OBVIOUS
<1>2. PICK x \in Nat \ P : \A y \in Nat \ P : x <= y
  BY LeastNat, <1>1
<1>3. x # 0 /\ x - 1 \in Nat
  BY <1>2
<1>4. QED BY <1>2, <1>3

-----------------------------------------------------------------------------
(* Sequences.                                                              *)

\* Appending an element that is new.
LEMMA AppendIn ==
  ASSUME NEW S, NEW q \in Seq(S), NEW e \in S
  PROVE  /\ Append(q, e) \in Seq(S) /\ Append(q, e) # <<>>
         /\ \A t : In(t, Append(q, e)) <=> In(t, q) \/ t = e
         /\ Once(q) /\ ~In(e, q) => Once(Append(q, e))
<1>1. /\ Append(q, e) \in Seq(S) /\ Append(q, e) # <<>> /\ Len(Append(q, e)) = Len(q) + 1
      /\ \A i \in 1 .. Len(q) : Append(q, e)[i] = q[i]
      /\ Append(q, e)[Len(q) + 1] = e /\ Len(q) \in Nat
  BY AppendProperties
<1>2. \A t : In(t, Append(q, e)) <=> In(t, q) \/ t = e
  BY <1>1 DEF In
<1>3. Once(q) /\ ~In(e, q) => Once(Append(q, e))
  BY <1>1 DEF In, Once
<1>4. QED BY <1>1, <1>2, <1>3

\* Taking the first element off.
LEMMA TailIn ==
  ASSUME NEW S, NEW q \in Seq(S), q # <<>>
  PROVE  /\ Tail(q) \in Seq(S) /\ Head(q) \in S /\ In(Head(q), q)
         /\ Once(q) => /\ \A t : In(t, Tail(q)) <=> In(t, q) /\ t # Head(q)
                       /\ Once(Tail(q))
<1>1. /\ Tail(q) \in Seq(S) /\ Head(q) \in S /\ Len(Tail(q)) = Len(q) - 1
      /\ \A i \in 1 .. Len(q) - 1 : Tail(q)[i] = q[i + 1]
      /\ Head(q) = q[1] /\ Len(q) \in Nat /\ Len(q) > 0
  BY HeadTailProperties, EmptySeq
<1>2. In(Head(q), q)
  BY <1>1 DEF In
<1>3. ASSUME Once(q), NEW t PROVE In(t, Tail(q)) <=> In(t, q) /\ t # Head(q)
  <2>1. In(t, Tail(q)) => In(t, q) /\ t # Head(q)
    BY <1>1, <1>3 DEF In, Once
  <2>2. ASSUME In(t, q), t # Head(q) PROVE In(t, Tail(q))
    <3>1. PICK i \in 1 .. Len(q) : q[i] = t
      BY <2>2 DEF In
    <3>2. i - 1 \in 1 .. Len(q) - 1 /\ Tail(q)[i - 1] = t
      BY <3>1, <2>2, <1>1
    <3>3. QED BY <3>2, <1>1 DEF In
  <2>3. QED BY <2>1, <2>2
<1>4. Once(q) => Once(Tail(q))
  BY <1>1 DEF Once
<1>5. QED BY <1>1, <1>2, <1>3, <1>4

\* Appending a sequence of others.
LEMMA ConcatIn ==
  ASSUME NEW S, NEW q \in Seq(S), NEW u \in Seq(S)
  PROVE  /\ q \o u \in Seq(S)
         /\ \A t : In(t, q \o u) <=> In(t, q) \/ In(t, u)
         /\ Once(q) /\ Once(u) /\ (\A t : ~ (In(t, q) /\ In(t, u))) => Once(q \o u)
<1>1. /\ q \o u \in Seq(S) /\ Len(q \o u) = Len(q) + Len(u)
      /\ \A i \in 1 .. Len(q) + Len(u) :
            (q \o u)[i] = IF i <= Len(q) THEN q[i] ELSE u[i - Len(q)]
      /\ Len(q) \in Nat /\ Len(u) \in Nat
  BY ConcatProperties
<1>2. ASSUME NEW t PROVE In(t, q \o u) <=> In(t, q) \/ In(t, u)
  <2>1. In(t, q \o u) => In(t, q) \/ In(t, u)
    BY <1>1 DEF In
  <2>2. In(t, q) => In(t, q \o u)
    BY <1>1 DEF In
  <2>3. ASSUME In(t, u) PROVE In(t, q \o u)
    <3>1. PICK i \in 1 .. Len(u) : u[i] = t
      BY <2>3 DEF In
    <3>2. Len(q) + i \in 1 .. Len(q \o u) /\ (q \o u)[Len(q) + i] = t
      BY <3>1, <1>1
    <3>3. QED BY <3>2 DEF In
  <2>4. QED BY <2>1, <2>2, <2>3
<1>3. ASSUME Once(q), Once(u), \A t : ~ (In(t, q) /\ In(t, u)) PROVE Once(q \o u)
  <2> SUFFICES ASSUME NEW i \in 1 .. Len(q) + Len(u), NEW j \in 1 .. Len(q) + Len(u),
                      (q \o u)[i] = (q \o u)[j]
               PROVE  i = j
    BY <1>1 DEF Once
  <2>1. CASE i <= Len(q) /\ j <= Len(q)
    BY <2>1, <1>1, <1>3 DEF Once
  <2>2. CASE i > Len(q) /\ j > Len(q)
    <3>1. i - Len(q) \in 1 .. Len(u) /\ j - Len(q) \in 1 .. Len(u)
      BY <2>2, <1>1
    <3>2. u[i - Len(q)] = u[j - Len(q)]
      BY <2>2, <1>1
    <3>3. QED BY <3>1, <3>2, <1>3, <1>1 DEF Once
  <2>3. CASE i <= Len(q) /\ j > Len(q)
    <3>1. j - Len(q) \in 1 .. Len(u) /\ u[j - Len(q)] = q[i]
      BY <2>3, <1>1
    <3>2. In(q[i], q) /\ In(q[i], u)
      BY <2>3, <3>1, <1>1 DEF In
    <3>3. QED BY <3>2, <1>3
  <2>4. CASE i > Len(q) /\ j <= Len(q)
    <3>1. i - Len(q) \in 1 .. Len(u) /\ u[i - Len(q)] = q[j]
      BY <2>4, <1>1
    <3>2. In(q[j], q) /\ In(q[j], u)
      BY <2>4, <3>1, <1>1 DEF In
    <3>3. QED BY <3>2, <1>3
  <2>5. QED BY <2>1, <2>2, <2>3, <2>4, <1>1
<1>4. QED BY <1>1, <1>2, <1>3

=============================================================================
