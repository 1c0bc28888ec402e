----------------------------- MODULE CausalProofs -----------------------------
(***************************************************************************)
(* Theorems about Causal: no legal sequence of commands leaves a journal   *)
(* that its reader refuses, contexts claim only what was validated, and no *)
(* instruction is validated whose sender did not know what its receiver    *)
(* may have told it, for any messages, participants and limits.            *)
(*                                                                         *)
(* The walk of the frontier and the ancestry are recursive functions.      *)
(* What is needed of them is proved by induction, from the fact that every *)
(* set of numbers has a least one.                                         *)
(***************************************************************************)
EXTENDS Causal, FiniteSetTheorems, WellFoundedInduction, TLAPS

\* The induction: strict inclusion of finite sets is well-founded.
LEMMA LeastNumber ==
  ASSUME NEW T, T \subseteq Nat, T # {}
  PROVE  \E x \in T : \A y \in T : x <= y
<1> DEFINE Down == {1..n : n \in T}
           R == StrictSubsetOrdering(Nat)
           F == FiniteSubsetsOf(Nat)
<1>1. IsWellFoundedOn(R, F)
  BY FS_StrictSubsetOrderingWellFounded
<1>2. Down \subseteq F
  <2>1. \A n \in T : IsFiniteSet(1..n)
    BY FS_Interval
  <2>2. QED
    BY <2>1 DEF FiniteSubsetsOf
<1>3. Down # {}
  OBVIOUS
<1>4. \E x \in Down : \A y \in Down : ~(<<y, x>> \in R)
  <2> HIDE DEF Down, R, F
  <2> QED
    BY <1>1, <1>2, <1>3, WFMin
<1>5. PICK n \in T : \A m \in T : ~(<<1..m, 1..n>> \in R)
  BY <1>4
<1>6. ASSUME NEW m \in T, m < n
      PROVE  FALSE
  <2>1. /\ 1..m \in SUBSET Nat /\ 1..n \in SUBSET Nat
        /\ 1..m \subseteq 1..n /\ n \in 1..n /\ n \notin 1..m
    BY <1>6
  <2>2. <<1..m, 1..n>> \in R
    BY <2>1 DEF StrictSubsetOrdering
  <2>3. QED
    BY <1>5, <2>2
<1>7. QED
  BY <1>6

\* A function on 0..n may be defined by its value at 0 and a step.
Steps(n, S) == [(1..n) \X S -> S]
Iteration(w, n, S, base, step) ==
  /\ w \in [0..n -> S]
  /\ w[0] = base
  /\ \A k \in 1..n : w[k] = step[<<k, w[k-1]>>]

LEMMA IterationExists ==
  ASSUME NEW n \in Nat, NEW S, NEW base, base \in S, NEW step, step \in Steps(n, S)
  PROVE  \E w : Iteration(w, n, S, base, step)
<1> DEFINE Iterates(m, w) == w[0] = base /\ \A k \in 1..m : w[k] = step[<<k, w[k-1]>>]
           Bad == {m \in 0..n : ~\E w \in [0..m -> S] : Iterates(m, w)}
<1>1. ASSUME NEW m \in Bad, \A l \in Bad : m <= l
      PROVE  FALSE
  <2>1. CASE m = 0
    <3>1. Iterates(m, [k \in 0..m |-> base])
      BY <2>1
    <3>2. [k \in 0..m |-> base] \in [0..m -> S]
      OBVIOUS
    <3>3. QED
      BY <1>1, <3>1, <3>2
  <2>2. CASE m # 0
    <3>1. m \in 1..n /\ m - 1 \in 0..n /\ ~(m <= m - 1)
      BY <1>1, <2>2
    <3>2. PICK w \in [0..(m-1) -> S] : Iterates(m - 1, w)
      BY <1>1, <3>1
    <3> DEFINE next == step[<<m, w[m-1]>>]
               v == [k \in 0..m |-> IF k = m THEN next ELSE w[k]]
    <3>3. next \in S
      <4>1. <<m, w[m-1]>> \in (1..n) \X S
        BY <3>1, <3>2
      <4>2. QED
        BY <4>1 DEF Steps
    <3>4. v \in [0..m -> S]
      <4> HIDE DEF next
      <4> QED
        BY <3>1, <3>3
    <3>5. v[0] = base
      BY <3>1, <3>2
    <3>6. ASSUME NEW k \in 1..m PROVE v[k] = step[<<k, v[k-1]>>]
      <4>1. v[k-1] = w[k-1]
        BY <3>1
      <4>2. CASE k = m
        <5>1. v[k] = next
          BY <3>1, <4>2
        <5>2. QED
          BY <4>1, <4>2, <5>1
      <4>3. CASE k # m
        BY <3>1, <3>2, <4>1, <4>3
      <4>4. QED
        BY <4>2, <4>3
    <3>7. QED
      <4> HIDE DEF v
      <4> QED
        BY <1>1, <3>4, <3>5, <3>6
  <2>3. QED
    BY <2>1, <2>2
<1>2. Bad = {}
  <2>1. Bad \subseteq Nat
    OBVIOUS
  <2>2. QED
    <3> HIDE DEF Bad
    <3> QED
      BY <1>1, <2>1, LeastNumber
<1>3. \E w \in [0..n -> S] : Iterates(n, w)
  <2>1. n \in 0..n
    OBVIOUS
  <2>2. QED
    <3> HIDE DEF Iterates
    <3> QED
      BY <1>2, <2>1
<1>4. QED
  BY <1>3 DEF Iteration

-----------------------------------------------------------------------------
TypeInv ==
  /\ gate \in Nat \cup {None}
  /\ intents \in Seq(Intent)
  /\ registered \subseteq Ids /\ received \subseteq Ids
  /\ assessments \in Seq(Assessment)

\* What every recorded context names, and claims to know.
ContextsInv ==
  \A i \in DOMAIN intents : intents[i].context # None =>
    /\ gate # None
    /\ Cardinality(intents[i].context.recipient_frontier) <= MaxReferences

CInv == TypeInv /\ ContextsInv /\ JournalReadable /\ FrontierHonest /\ OneVerdict

-----------------------------------------------------------------------------
LEMMA IntentsTyped ==
  ASSUME TypeInv, NEW m
  PROVE  /\ IntentsOf(m) \subseteq 1..Len(intents) /\ Len(intents) \in Nat
         /\ \A i \in IntentsOf(m) : intents[i] \in Intent /\ intents[i].msg = m
BY DEF TypeInv, IntentsOf

LEMMA FirstOf ==
  ASSUME NEW T, T \subseteq Nat, T # {}
  PROVE  First(T) \in T /\ \A j \in T : First(T) <= j
BY LeastNumber DEF First

LEMMA LatestOf ==
  ASSUME NEW n \in Nat, NEW T, T \subseteq 1..n, T # {}
  PROVE  Latest(T) \in T /\ \A j \in T : j <= Latest(T)
<1> DEFINE Mirror == {n - i : i \in T}
<1>1. Mirror \subseteq Nat /\ Mirror # {}
  <2>1. \A i \in T : n - i \in Nat
    OBVIOUS
  <2>2. PICK i \in T : TRUE
    OBVIOUS
  <2>3. n - i \in Mirror
    OBVIOUS
  <2>4. QED
    BY <2>1, <2>3
<1>2. PICK x \in Mirror : \A y \in Mirror : x <= y
  <2> HIDE DEF Mirror
  <2> QED
    BY <1>1, LeastNumber
<1>3. PICK i \in T : x = n - i
  BY <1>2
<1>4. \A j \in T : j <= i
  <2> SUFFICES ASSUME NEW j \in T PROVE j <= i
    OBVIOUS
  <2>1. x <= n - j
    BY <1>2
  <2>2. QED
    BY <1>3, <2>1
<1>5. QED
  BY <1>4 DEF Latest

LEMMA ContextTyped ==
  ASSUME TypeInv, NEW m
  PROVE  /\ ContextOf(m) \in CausalContext \cup {None}
         /\ IntentsOf(m) # {} => /\ First(IntentsOf(m)) \in IntentsOf(m)
                                 /\ ContextOf(m) = intents[First(IntentsOf(m))].context
         /\ ContextOf(m) # None => IntentsOf(m) # {}
<1>1. CASE IntentsOf(m) = {}
  BY <1>1 DEF ContextOf
<1>2. CASE IntentsOf(m) # {}
  <2>1. IntentsOf(m) \subseteq Nat
    BY IntentsTyped
  <2>2. First(IntentsOf(m)) \in IntentsOf(m)
    BY <1>2, <2>1, FirstOf
  <2>3. intents[First(IntentsOf(m))].context \in CausalContext \cup {None}
    BY <2>2, IntentsTyped DEF Intent
  <2>4. QED
    BY <1>2, <2>2, <2>3 DEF ContextOf
<1>3. QED
  BY <1>1, <1>2

LEMMA ReferencesTyped ==
  ASSUME TypeInv, NEW m
  PROVE  References(m) \subseteq Ids
<1>1. ContextOf(m) \in CausalContext \cup {None}
  BY ContextTyped
<1>2. QED
  BY <1>1 DEF References, CausalContext

-----------------------------------------------------------------------------
(***************************************************************************)
(* The ancestry of a message is what reach holds after as many steps as    *)
(* there are messages.                                                     *)
(***************************************************************************)
Widened(near) == near \cup UNION {References(a) : a \in near}
Reaching(reach, m) ==
  /\ reach[0] = {m}
  /\ \A n \in 1..Cardinality(Ids) : reach[n] = Widened(reach[n-1])
  /\ Ancestry(m) = reach[Cardinality(Ids)]

LEMMA AncestryReach ==
  ASSUME TypeInv, NEW m \in Ids
  PROVE  \E reach : Reaching(reach, m)
<1> DEFINE size == Cardinality(Ids)
           More(near) == Widened(near)
           Reaches(r) ==
             r = [n \in 0..size |->
                    IF n = 0
                      THEN {m}
                      ELSE LET near == r[n-1]
                           IN  near \cup UNION {References(a) : a \in near}]
           reach == CHOOSE r : Reaches(r)
<1>1. size \in Nat
  BY FS_CardinalityType, CausalAssumption
<1>2. \E r : Reaches(r)
  <2> DEFINE step == [x \in (1..size) \X (SUBSET Ids) |-> More(x[2])]
  <2>1. ASSUME NEW near \in SUBSET Ids
        PROVE  More(near) \in SUBSET Ids
    BY ReferencesTyped DEF Widened
  <2>2. step \in Steps(size, SUBSET Ids)
    <3>1. \A x \in (1..size) \X (SUBSET Ids) : More(x[2]) \in SUBSET Ids
      <4> HIDE DEF More
      <4> QED
        BY <2>1
    <3>2. QED
      <4> HIDE DEF More
      <4> QED
        BY <3>1 DEF Steps
  <2>3. {m} \in SUBSET Ids
    OBVIOUS
  <2>4. PICK r : Iteration(r, size, SUBSET Ids, {m}, step)
    <3> HIDE DEF step, size
    <3> QED
      BY <1>1, <2>2, <2>3, IterationExists
  <2>5. ASSUME NEW n \in 1..size
        PROVE  r[n] = More(r[n-1])
    <3>1. n - 1 \in 0..size
      BY <1>1
    <3>2. <<n, r[n-1]>> \in (1..size) \X (SUBSET Ids)
      BY <2>4, <3>1 DEF Iteration
    <3>3. step[<<n, r[n-1]>>] = More(r[n-1])
      <4> HIDE DEF More
      <4> QED
        BY <3>2
    <3>4. QED
      <4> HIDE DEF More, step
      <4> QED
        BY <2>4, <3>3 DEF Iteration
  <2>6. r = [n \in 0..size |-> r[n]]
    BY <2>4 DEF Iteration
  <2>7. ASSUME NEW n \in 0..size
        PROVE  r[n] = IF n = 0 THEN {m} ELSE More(r[n-1])
    <3> HIDE DEF More, step
    <3> QED
      BY <1>1, <2>4, <2>5 DEF Iteration
  <2>8. r = [n \in 0..size |-> IF n = 0 THEN {m} ELSE More(r[n-1])]
    <3> HIDE DEF More, step
    <3> QED
      BY <2>6, <2>7
  <2>9. Reaches(r)
    <3> HIDE DEF step
    <3> QED
      BY <2>8 DEF Widened
  <2>10. QED
    <3> HIDE DEF step, Reaches
    <3> QED
      BY <2>9
<1>3. Reaches(reach)
  <2> HIDE DEF Reaches
  <2> QED
    BY <1>2
<1>4. Ancestry(m) = reach[size]
  BY DEF Ancestry
<1>5. /\ reach[0] = {m}
      /\ \A n \in 1..size : reach[n] = More(reach[n-1])
  <2> HIDE DEF reach, size
  <2>1. 0 \in 0..size
    BY <1>1
  <2>2. ASSUME NEW n \in 1..size PROVE n \in 0..size /\ n # 0
    BY <1>1
  <2>3. QED
    BY <1>3, <2>1, <2>2 DEF Widened
<1>6. QED
  <2> HIDE DEF reach, size, Reaches
  <2>1. Reaching(reach, m)
    BY <1>4, <1>5 DEF Reaching, size
  <2>2. QED
    BY <2>1

(***************************************************************************)
(* It holds the message, lies in every set that holds it and is closed     *)
(* under reference, and is itself closed under reference: each step adds a *)
(* message or reaches nothing more.                                        *)
(***************************************************************************)
Closed(S) == \A b \in S : References(b) \subseteq S

LEMMA AncestryOf ==
  ASSUME TypeInv, NEW m \in Ids
  PROVE  /\ Ancestry(m) \subseteq Ids /\ m \in Ancestry(m)
         /\ \A S \in SUBSET Ids :
              m \in S /\ (\A b \in S : References(b) \subseteq S) => Ancestry(m) \subseteq S
         /\ Closed(Ancestry(m))
<1> DEFINE size == Cardinality(Ids)
           More(near) == Widened(near)
<1>1. size \in Nat
  BY FS_CardinalityType, CausalAssumption
<1>2. PICK reach : Reaching(reach, m)
  BY AncestryReach
<1>4. Ancestry(m) = reach[size]
  BY <1>2 DEF Reaching
<1>5. /\ reach[0] = {m}
      /\ \A n \in 1..size : reach[n] = More(reach[n-1])
  BY <1>2 DEF Reaching
<1>6. ASSUME NEW S \in SUBSET Ids, m \in S, \A b \in S : References(b) \subseteq S
      PROVE  \A n \in 0..size : reach[n] \subseteq S
  <2> DEFINE Bad == {n \in 0..size : ~(reach[n] \subseteq S)}
  <2>1. ASSUME NEW n \in Bad, \A l \in Bad : n <= l
        PROVE  FALSE
    <3> HIDE DEF size
    <3>1. n # 0
      BY <1>5, <1>6, <2>1
    <3>2. n \in 1..size /\ n - 1 \in 0..size /\ ~(n <= n - 1)
      BY <1>1, <2>1, <3>1
    <3>3. reach[n-1] \subseteq S
      BY <2>1, <3>2
    <3>4. More(reach[n-1]) \subseteq S
      BY <1>6, <3>3 DEF Widened
    <3>5. reach[n] \subseteq S
      <4> HIDE DEF More
      <4> QED
        BY <1>5, <3>2, <3>4
    <3>6. QED
      BY <2>1, <3>5
  <2>2. Bad \subseteq Nat
    BY <1>1
  <2>3. Bad = {}
    <3> HIDE DEF Bad
    <3> QED
      BY <2>1, <2>2, LeastNumber
  <2>4. QED
    <3> HIDE DEF size
    <3> QED
      BY <2>3
<1>7. \A n \in 0..size : m \in reach[n]
  <2> DEFINE Bad == {n \in 0..size : m \notin reach[n]}
  <2>1. ASSUME NEW n \in Bad, \A l \in Bad : n <= l
        PROVE  FALSE
    <3> HIDE DEF size
    <3>1. n # 0
      BY <1>5, <2>1
    <3>2. n \in 1..size /\ n - 1 \in 0..size /\ ~(n <= n - 1)
      BY <1>1, <2>1, <3>1
    <3>3. m \in reach[n-1]
      BY <2>1, <3>2
    <3>4. m \in reach[n]
      BY <1>5, <3>2, <3>3 DEF Widened
    <3>5. QED
      BY <2>1, <3>4
  <2>2. Bad \subseteq Nat
    BY <1>1
  <2>3. Bad = {}
    <3> HIDE DEF Bad
    <3> QED
      BY <2>1, <2>2, LeastNumber
  <2>4. QED
    <3> HIDE DEF size
    <3> QED
      BY <2>3
<1>8. size \in 0..size
  BY <1>1
<1>9. Ids \in SUBSET Ids /\ \A b \in Ids : References(b) \subseteq Ids
  BY ReferencesTyped
<1>10. \A n \in 0..size : reach[n] \subseteq Ids
  <2> HIDE DEF size
  <2> QED
    BY <1>6, <1>9
<1> DEFINE Full(n) == /\ IsFiniteSet(reach[n])
                      /\ Cardinality(reach[n]) \in Nat
                      /\ Closed(reach[n]) \/ Cardinality(reach[n]) > n
<1>11. Full(0)
  <2>1. IsFiniteSet({m}) /\ Cardinality({m}) = 1
    BY FS_Singleton
  <2>2. QED
    <3> HIDE DEF size
    <3> QED
      BY <1>5, <2>1
<1>12. ASSUME NEW n \in 1..size, Full(n - 1)
       PROVE  Full(n)
  <2> HIDE DEF size
  <2> DEFINE near == reach[n-1]
             next == reach[n]
  <2>1. next = Widened(near) /\ n \in 0..size /\ n - 1 \in Nat
    BY <1>1, <1>5
  <2>2. IsFiniteSet(near) /\ Cardinality(near) \in Nat
        /\ (Closed(near) \/ Cardinality(near) > n - 1)
    BY <1>12
  <2>3. IsFiniteSet(Ids) /\ next \subseteq Ids
    BY <1>10, <2>1, CausalAssumption
  <2> HIDE DEF near, next
  <2>4. IsFiniteSet(next) /\ Cardinality(next) \in Nat
    BY <2>3, FS_Subset, FS_CardinalityType
  <2>5. CASE Closed(near)
    <3>1. next = near
      BY <2>1, <2>5 DEF Widened, Closed
    <3>2. QED
      BY <2>4, <2>5, <3>1 DEF next
  <2>6. CASE ~Closed(near)
    <3>1. PICK x : x \in next /\ x \notin near
      BY <2>1, <2>6 DEF Widened, Closed
    <3>2. Cardinality(near \cup {x}) = Cardinality(near) + 1
      BY <2>2, <3>1, FS_AddElement
    <3>3. near \cup {x} \in SUBSET next
      BY <2>1, <3>1 DEF Widened
    <3>4. Cardinality(near \cup {x}) <= Cardinality(next)
      BY <2>4, <3>3, FS_Subset
    <3>5. Cardinality(next) > n
      BY <2>1, <2>2, <2>4, <2>6, <3>2, <3>4
    <3>6. QED
      BY <2>4, <3>5 DEF next
  <2>7. QED
    BY <2>5, <2>6
<1>13. \A n \in 0..size : Full(n)
  <2> DEFINE Bad == {n \in 0..size : ~Full(n)}
  <2>1. ASSUME NEW n \in Bad, \A l \in Bad : n <= l
        PROVE  FALSE
    <3> HIDE DEF Full, size
    <3>1. n # 0
      BY <1>11, <2>1
    <3>2. n \in 1..size /\ n - 1 \in 0..size /\ ~(n <= n - 1)
      BY <1>1, <2>1, <3>1
    <3>3. Full(n - 1)
      BY <2>1, <3>2
    <3>4. QED
      BY <1>12, <2>1, <3>2, <3>3
  <2>2. Bad \subseteq Nat
    BY <1>1
  <2>3. Bad = {}
    <3> HIDE DEF Bad
    <3> QED
      BY <2>1, <2>2, LeastNumber
  <2>4. QED
    <3> HIDE DEF Full, size
    <3> QED
      BY <2>3
<1>14. Closed(reach[size])
  <2>1. Full(size)
    <3> HIDE DEF Full, size
    <3> QED
      BY <1>8, <1>13
  <2>2. reach[size] \in SUBSET Ids
    BY <1>8, <1>10
  <2>3. Cardinality(reach[size]) <= size
    BY <2>2, FS_Subset, CausalAssumption
  <2>4. QED
    <3> HIDE DEF size
    <3> QED
      BY <1>1, <2>1, <2>3
<1>15. QED
  <2> HIDE DEF size, More
  <2> QED
    BY <1>4, <1>6, <1>7, <1>8, <1>9, <1>14

-----------------------------------------------------------------------------
(***************************************************************************)
(* The heads of a frontier are told messages, and whatever was told lies   *)
(* in the ancestry of a head.                                              *)
(***************************************************************************)
Told(said) == {intents[i].msg : i \in said}
Walks == [heads : SUBSET Ids, covered : SUBSET Ids]
Grounded(said, walk) ==
  /\ walk.heads \subseteq Told(said)
  /\ \A x \in walk.covered : \E h \in walk.heads : x \in Ancestry(h)
  /\ \A h \in walk.heads : Ancestry(h) \subseteq walk.covered

\* No message told later refers to h, directly or not: when it was visited it
\* was not covered yet.
FoundAnew(said, h) ==
  \E i \in said : /\ intents[i].msg = h
                  /\ \A j \in said : j > i => h \notin Ancestry(intents[j].msg)

LEMMA CoveredClosed ==
  ASSUME TypeInv, NEW said, NEW walk \in Walks, Grounded(said, walk)
  PROVE  Closed(walk.covered)
<1> SUFFICES ASSUME NEW x \in walk.covered PROVE References(x) \subseteq walk.covered
  BY DEF Closed
<1>1. PICK h \in walk.heads : x \in Ancestry(h)
  BY DEF Grounded
<1>2. h \in Ids
  BY <1>1 DEF Walks
<1>3. Closed(Ancestry(h))
  BY <1>2, AncestryOf
<1>4. QED
  BY <1>1, <1>3 DEF Closed, Grounded

LEMMA VisitOf ==
  ASSUME TypeInv, NEW said, NEW i \in DOMAIN intents, NEW walk \in Walks
  PROVE  /\ Visit(said, i, walk) \in Walks
         /\ walk.covered \subseteq Visit(said, i, walk).covered
         /\ i \in said => intents[i].msg \in Visit(said, i, walk).covered
         /\ Grounded(said, walk) => Grounded(said, Visit(said, i, walk))
         /\ \/ Visit(said, i, walk).heads = walk.heads
            \/ /\ i \in said /\ intents[i].msg \notin walk.covered
               /\ Visit(said, i, walk).heads = walk.heads \cup {intents[i].msg}
<1> DEFINE m == intents[i].msg
           next == [heads |-> walk.heads \cup {m}, covered |-> walk.covered \cup Ancestry(m)]
<1>1. m \in Ids
  <2>1. intents[i] \in Intent
    BY DEF TypeInv
  <2>2. QED
    BY <2>1 DEF Intent
<1>2. Ancestry(m) \subseteq Ids /\ m \in Ancestry(m)
  BY <1>1, AncestryOf
<1>3. CASE i \notin said \/ m \in walk.covered
  BY <1>3 DEF Visit
<1>4. CASE i \in said /\ m \notin walk.covered
  <2>1. Visit(said, i, walk) = next
    BY <1>4 DEF Visit
  <2>2. walk.heads \subseteq Ids /\ walk.covered \subseteq Ids
    BY DEF Walks
  <2>3. next \in Walks
    <3> HIDE DEF m
    <3> QED
      BY <1>1, <1>2, <2>2 DEF Walks
  <2>4. ASSUME Grounded(said, walk)
        PROVE  Grounded(said, next)
    <3>1. next.heads \subseteq Told(said)
      BY <1>4, <2>4 DEF Grounded, Told
    <3>2. ASSUME NEW x \in next.covered
          PROVE  \E h \in next.heads : x \in Ancestry(h)
      <4>1. CASE x \in walk.covered
        BY <2>4, <4>1 DEF Grounded
      <4>2. CASE x \in Ancestry(m)
        BY <4>2
      <4>3. QED
        BY <4>1, <4>2
    <3>3. \A h \in next.heads : Ancestry(h) \subseteq next.covered
      <4> HIDE DEF m
      <4> QED
        BY <2>4 DEF Grounded
    <3>4. QED
      <4> HIDE DEF next
      <4> QED
        BY <3>1, <3>2, <3>3 DEF Grounded
  <2>5. QED
    <3> HIDE DEF m
    <3>1. walk.covered \subseteq next.covered /\ m \in next.covered
      BY <1>2
    <3>2. next.heads = walk.heads \cup {m}
      OBVIOUS
    <3>3. QED
      <4> HIDE DEF next
      <4> QED
        BY <2>1, <2>3, <2>4, <3>1, <3>2, <1>4 DEF m
<1>5. QED
  BY <1>3, <1>4

\* The states of the walk after each visit.
Nowhere == [heads |-> {}, covered |-> {}]
Walking(walk, said) ==
  /\ walk[0] = Nowhere
  /\ \A k \in 1..Len(intents) : walk[k] = Visit(said, Len(intents) + 1 - k, walk[k-1])
  /\ Frontier(said) = walk[Len(intents)].heads

LEMMA FrontierWalk ==
  ASSUME TypeInv, NEW said
  PROVE  \E walk : Walking(walk, said)
<1> DEFINE size == Len(intents)
           empty == Nowhere
           Walk(w) ==
             w = [k \in 0..size |->
                    IF k = 0
                      THEN [heads |-> {}, covered |-> {}]
                      ELSE Visit(said, size + 1 - k, w[k-1])]
           walk == CHOOSE w : Walk(w)
<1>1. size \in Nat /\ \A k \in 1..size : size + 1 - k \in DOMAIN intents
  BY DEF TypeInv
<1>2. \E w : Walk(w)
  <2> DEFINE step == [x \in (1..size) \X Walks |-> Visit(said, size + 1 - x[1], x[2])]
  <2>1. step \in Steps(size, Walks)
    <3>1. \A x \in (1..size) \X Walks : Visit(said, size + 1 - x[1], x[2]) \in Walks
      <4> SUFFICES ASSUME NEW x \in (1..size) \X Walks
                   PROVE  Visit(said, size + 1 - x[1], x[2]) \in Walks
        OBVIOUS
      <4>1. x[1] \in 1..size /\ x[2] \in Walks
        OBVIOUS
      <4>2. size + 1 - x[1] \in DOMAIN intents
        BY <1>1, <4>1
      <4>3. QED
        <5>1. \A i \in DOMAIN intents, walk0 \in Walks : Visit(said, i, walk0) \in Walks
          BY VisitOf
        <5>2. QED
          <6> HIDE DEF size
          <6> QED
            BY <4>1, <4>2, <5>1
    <3>2. QED
      BY <3>1 DEF Steps
  <2>2. empty \in Walks
    BY DEF Walks, Nowhere
  <2>3. PICK w : Iteration(w, size, Walks, empty, step)
    <3> HIDE DEF step, size, empty
    <3> QED
      BY <1>1, <2>1, <2>2, IterationExists
  <2>4. ASSUME NEW k \in 1..size
        PROVE  w[k] = Visit(said, size + 1 - k, w[k-1])
    <3>1. k - 1 \in 0..size
      BY <1>1
    <3>2. <<k, w[k-1]>> \in (1..size) \X Walks
      BY <2>3, <3>1 DEF Iteration
    <3>3. step[<<k, w[k-1]>>] = Visit(said, size + 1 - k, w[k-1])
      BY <3>2
    <3>4. QED
      <4> HIDE DEF step, size
      <4> QED
        BY <2>3, <3>3 DEF Iteration
  <2>5. ASSUME NEW k \in 0..size
        PROVE  w[k] = IF k = 0 THEN empty ELSE Visit(said, size + 1 - k, w[k-1])
    <3> HIDE DEF size, step, empty
    <3> QED
      BY <1>1, <2>3, <2>4 DEF Iteration
  <2>6. w = [k \in 0..size |-> w[k]]
    BY <2>3 DEF Iteration
  <2>7. Walk(w)
    <3> HIDE DEF size, step
    <3> QED
      BY <2>5, <2>6 DEF Nowhere
  <2>8. QED
    <3> HIDE DEF Walk
    <3> QED
      BY <2>7
<1>3. Walk(walk)
  <2> HIDE DEF Walk
  <2> QED
    BY <1>2
<1>4. Frontier(said) = walk[size].heads
  BY DEF Frontier
<1>5. /\ walk[0] = empty
      /\ \A k \in 1..size : walk[k] = Visit(said, size + 1 - k, walk[k-1])
  <2> HIDE DEF walk, size
  <2>1. 0 \in 0..size
    BY <1>1
  <2>2. ASSUME NEW k \in 1..size PROVE k \in 0..size /\ k # 0
    BY <1>1
  <2>3. QED
    BY <1>3, <2>1, <2>2 DEF Nowhere
<1>6. Walking(walk, said)
  <2> HIDE DEF walk
  <2> QED
    BY <1>4, <1>5 DEF Walking
<1>7. QED
  <2> HIDE DEF walk
  <2> QED
    BY <1>6

LEMMA FrontierOf ==
  ASSUME TypeInv, NEW said, said \subseteq DOMAIN intents
  PROVE  /\ Frontier(said) \subseteq Told(said) /\ Frontier(said) \subseteq Ids
         /\ \A i \in said : \E h \in Frontier(said) : intents[i].msg \in Ancestry(h)
         /\ \A h \in Frontier(said) : FoundAnew(said, h)
<1> DEFINE size == Len(intents)
<1>1. size \in Nat /\ \A k \in 1..size : size + 1 - k \in DOMAIN intents
  BY DEF TypeInv
<1>2. PICK walk : Walking(walk, said)
  BY FrontierWalk
<1>4. Frontier(said) = walk[size].heads
  BY <1>2 DEF Walking
<1>5. /\ walk[0] = Nowhere
      /\ \A k \in 1..size : walk[k] = Visit(said, size + 1 - k, walk[k-1])
  BY <1>2 DEF Walking
<1> DEFINE Sound(k) == /\ walk[k] \in Walks
                       /\ Grounded(said, walk[k])
                       /\ \A h \in walk[k].heads : FoundAnew(said, h)
                       /\ \A i \in said : i > size - k => intents[i].msg \in walk[k].covered
<1>6. Sound(0)
  <2>1. Nowhere \in Walks /\ Grounded(said, Nowhere) /\ Nowhere.heads = {}
    BY DEF Walks, Grounded, Nowhere
  <2>2. \A i \in said : ~(i > size - 0)
    BY <1>1
  <2>3. QED
    <3> QED
      BY <1>5, <2>1, <2>2
<1>7. ASSUME NEW k \in 1..size, Sound(k-1)
      PROVE  Sound(k)
  <2> DEFINE here == size + 1 - k
  <2>1. walk[k] = Visit(said, here, walk[k-1]) /\ here \in DOMAIN intents
    BY <1>1, <1>5
  <2> DEFINE before == walk[k-1]
             after == walk[k]
  <2>2. /\ walk[k] \in Walks /\ Grounded(said, walk[k])
        /\ walk[k-1].covered \subseteq walk[k].covered
        /\ here \in said => intents[here].msg \in walk[k].covered
        /\ \/ walk[k].heads = walk[k-1].heads
           \/ /\ here \in said /\ intents[here].msg \notin walk[k-1].covered
              /\ walk[k].heads = walk[k-1].heads \cup {intents[here].msg}
    <3>1. before \in Walks /\ Grounded(said, before)
      BY <1>7
    <3>2. after = Visit(said, here, before) /\ here \in DOMAIN intents
      BY <2>1
    <3> HIDE DEF here, before, after
    <3>3. /\ after \in Walks /\ Grounded(said, after)
          /\ before.covered \subseteq after.covered
          /\ here \in said => intents[here].msg \in after.covered
          /\ \/ after.heads = before.heads
             \/ /\ here \in said /\ intents[here].msg \notin before.covered
                /\ after.heads = before.heads \cup {intents[here].msg}
      BY <3>1, <3>2, VisitOf
    <3>4. QED
      BY <3>3 DEF before, after
  <2>3. ASSUME NEW i \in said, i > size - k
        PROVE  intents[i].msg \in walk[k].covered
    <3>1. i = here \/ i > size - (k - 1)
      BY <1>1, <2>3
    <3>2. QED
      BY <1>7, <2>2, <3>1
  <2>4. ASSUME NEW h \in walk[k].heads
        PROVE  FoundAnew(said, h)
    <3>1. CASE h \in walk[k-1].heads
      BY <1>7, <3>1
    <3>2. CASE h \notin walk[k-1].heads
      <4>1. here \in said /\ h = intents[here].msg /\ h \notin walk[k-1].covered
        BY <2>2, <2>4, <3>2
      <4>2. ASSUME NEW j \in said, j > here
            PROVE  h \notin Ancestry(intents[j].msg)
        <5>1. j > size - (k - 1)
          BY <1>1, <4>2
        <5>2. intents[j].msg \in walk[k-1].covered
          BY <1>7, <5>1
        <5>3. walk[k-1].covered \in SUBSET Ids /\ Closed(walk[k-1].covered)
          BY <1>7, CoveredClosed DEF Walks
        <5>4. intents[j].msg \in Ids
          BY <5>2, <5>3
        <5>5. Ancestry(intents[j].msg) \subseteq walk[k-1].covered
          BY <5>2, <5>3, <5>4, AncestryOf DEF Closed
        <5>6. QED
          BY <4>1, <5>5
      <4>3. QED
        <5> HIDE DEF here
        <5> QED
          BY <4>1, <4>2 DEF FoundAnew
    <3>3. QED
      BY <3>1, <3>2
  <2>5. QED
    BY <2>2, <2>3, <2>4
<1>8. \A k \in 0..size : Sound(k)
  <2> DEFINE Bad == {k \in 0..size : ~Sound(k)}
  <2>1. ASSUME NEW k \in Bad, \A l \in Bad : k <= l
        PROVE  FALSE
    <3> HIDE DEF Sound, size
    <3>1. k # 0
      BY <1>6, <2>1
    <3>2. k \in 1..size /\ k - 1 \in 0..size /\ ~(k <= k - 1)
      BY <1>1, <2>1, <3>1
    <3>3. Sound(k - 1)
      BY <2>1, <3>2
    <3>4. QED
      BY <1>7, <2>1, <3>2, <3>3
  <2>2. Bad \subseteq Nat
    BY <1>1
  <2>3. Bad = {}
    <3> HIDE DEF Bad
    <3> QED
      BY <2>1, <2>2, LeastNumber
  <2>4. QED
    <3> HIDE DEF Sound, size
    <3> QED
      BY <2>3
<1>9. Sound(size)
  <2> HIDE DEF Sound
  <2> QED
    BY <1>1, <1>8
<1>10. Frontier(said) \subseteq Told(said) /\ Frontier(said) \subseteq Ids
  <2> QED
    BY <1>4, <1>9 DEF Grounded, Walks
<1>11. ASSUME NEW i \in said
       PROVE  \E h \in Frontier(said) : intents[i].msg \in Ancestry(h)
  <2>1. i > size - size
    BY <1>1
  <2>2. intents[i].msg \in walk[size].covered
    BY <1>9, <2>1
  <2>3. QED
    BY <1>4, <1>9, <2>2 DEF Grounded
<1>12. \A h \in Frontier(said) : FoundAnew(said, h)
  BY <1>4, <1>9
<1>13. QED
  BY <1>10, <1>11, <1>12

-----------------------------------------------------------------------------
\* Contexts depend on what was sent, not on what became of it.
LEMMA ContextsKept ==
  ASSUME DOMAIN intents' = DOMAIN intents,
         \A i \in DOMAIN intents :
           intents'[i].msg = intents[i].msg /\ intents'[i].context = intents[i].context,
         TypeInv
  PROVE  /\ \A n : IntentsOf(n)' = IntentsOf(n) /\ ContextOf(n)' = ContextOf(n)
         /\ JournalReadable => JournalReadable'
<1>1. \A n : IntentsOf(n)' = IntentsOf(n)
  BY DEF IntentsOf
<1>2. ASSUME NEW n
      PROVE  ContextOf(n)' = ContextOf(n)
  <2>1. CASE IntentsOf(n) = {}
    BY <1>1, <2>1 DEF ContextOf
  <2>2. CASE IntentsOf(n) # {}
    <3>1. First(IntentsOf(n)) \in DOMAIN intents
      BY <2>2, ContextTyped DEF IntentsOf
    <3>2. ContextOf(n)' = intents'[First(IntentsOf(n)')].context
      BY <1>1, <2>2 DEF ContextOf
    <3>3. QED
      BY <1>1, <2>2, <3>1, <3>2 DEF ContextOf
  <2>3. QED
    BY <2>1, <2>2
<1>3. ASSUME JournalReadable
      PROVE  JournalReadable'
  <2> SUFFICES ASSUME NEW i \in DOMAIN intents
               PROVE  /\ \A j \in IntentsOf(intents[i].msg)' :
                           intents'[j].context = intents'[i].context
                      /\ intents'[i].context # None => GoodContext(i)'
    BY DEF JournalReadable
  <2>1. \A j \in IntentsOf(intents[i].msg)' : intents'[j].context = intents'[i].context
    <3>1. \A j \in IntentsOf(intents[i].msg) : intents[j].context = intents[i].context
      BY <1>3 DEF JournalReadable
    <3>2. IntentsOf(intents[i].msg)' = IntentsOf(intents[i].msg)
      BY <1>1
    <3>3. IntentsOf(intents[i].msg) \subseteq DOMAIN intents
      BY DEF IntentsOf
    <3>4. QED
      BY <3>1, <3>2, <3>3
  <2>2. ASSUME intents[i].context # None
        PROVE  GoodContext(i)'
    <3>1. GoodContext(i)
      BY <1>3, <2>2 DEF JournalReadable
    <3>2. \A n : GoodReference(i, n) => GoodReference(i, n)'
      BY <1>1, <1>2 DEF GoodReference, SamePair
    <3>3. QED
      BY <3>1, <3>2 DEF GoodContext, Anchors, RenewalOf
  <2>3. QED
    BY <2>1, <2>2
<1>4. QED
  BY <1>1, <1>2, <1>3

(***************************************************************************)
(* What an intent appended to the journal changes: nothing about the       *)
(* messages it already holds.                                              *)
(***************************************************************************)
LEMMA IntentAppended ==
  ASSUME TypeInv, NEW record \in Intent, intents' = Append(intents, record)
  PROVE  /\ \A n : n # record.msg => IntentsOf(n)' = IntentsOf(n)
         /\ IntentsOf(record.msg)' = IntentsOf(record.msg) \cup {Len(intents) + 1}
         /\ \A n : IntentsOf(n) # {} =>
              /\ IntentsOf(n)' # {}
              /\ First(IntentsOf(n)') = First(IntentsOf(n))
              /\ ContextOf(n)' = ContextOf(n)
<1>1. /\ Len(intents) \in Nat
      /\ DOMAIN intents = 1..Len(intents)
      /\ DOMAIN intents' = DOMAIN intents \cup {Len(intents) + 1}
      /\ Len(intents) + 1 \notin DOMAIN intents
      /\ intents'[Len(intents) + 1] = record
      /\ \A i \in DOMAIN intents : intents'[i] = intents[i]
  BY DEF TypeInv
<1>2. /\ \A n : n # record.msg => IntentsOf(n)' = IntentsOf(n)
      /\ IntentsOf(record.msg)' = IntentsOf(record.msg) \cup {Len(intents) + 1}
  BY <1>1 DEF IntentsOf
<1>3. ASSUME NEW n, IntentsOf(n) # {}
      PROVE  /\ IntentsOf(n)' # {}
             /\ First(IntentsOf(n)') = First(IntentsOf(n))
             /\ ContextOf(n)' = ContextOf(n)
  <2> DEFINE f == First(IntentsOf(n))
             T == IntentsOf(n)'
  <2>1. f \in IntentsOf(n) /\ \A j \in IntentsOf(n) : f <= j
    BY <1>3, IntentsTyped, FirstOf
  <2>2. f \in DOMAIN intents
    BY <2>1 DEF IntentsOf
  <2>3. T = IntentsOf(n) \/ T = IntentsOf(n) \cup {Len(intents) + 1}
    BY <1>2
  <2>4. f \in T /\ \A j \in T : f <= j
    <3> HIDE DEF f, T
    <3>1. f <= Len(intents) + 1
      BY <1>1, <2>2
    <3>2. QED
      BY <2>1, <2>3, <3>1
  <2>5. T \subseteq Nat
    <3> HIDE DEF T
    <3> QED
      BY <1>1, <2>3, IntentsTyped
  <2>6. First(T) = f
    <3>1. First(T) \in T /\ \A j \in T : First(T) <= j
      <4> HIDE DEF T, f
      <4> QED
        BY <2>4, <2>5, FirstOf
    <3>2. First(T) <= f /\ f <= First(T) /\ First(T) \in Nat /\ f \in Nat
      <4> HIDE DEF T, f
      <4> QED
        BY <2>4, <2>5, <3>1
    <3>3. QED
      <4> HIDE DEF T, f
      <4> QED
        BY <3>2
  <2>7. T # {}
    BY <2>4
  <2>8. ContextOf(n)' = intents'[First(T)].context
    BY <2>7 DEF ContextOf
  <2>9. ContextOf(n) = intents[f].context
    BY <1>3 DEF ContextOf
  <2>10. QED
    <3> HIDE DEF f, T
    <3>1. ContextOf(n)' = ContextOf(n)
      BY <1>1, <2>2, <2>6, <2>8, <2>9
    <3>2. QED
      BY <2>6, <2>7, <3>1 DEF f, T
<1>4. QED
  BY <1>2, <1>3

(***************************************************************************)
(* A readable journal stays readable when the appended intent repeats the  *)
(* context of the message's earlier ones, if any, and refers well.         *)
(***************************************************************************)
WellSaid(m, c) ==
  /\ \A j \in IntentsOf(m) : intents[j].context = c
  /\ c # None =>
       /\ c.depends_on = {InReplyTo[m]} \ {None}
       /\ c.supersedes = {RenewalOf(m)} \ {None}
       /\ Anchors(m) = {} => c.conversation = m
       /\ \A n \in c.depends_on \cup c.supersedes \cup c.recipient_frontier :
            /\ IntentsOf(n) # {} /\ ContextOf(n) # None
            /\ SamePair(n, m)
            /\ ContextOf(n).conversation = c.conversation
       /\ \A n \in c.supersedes : From[n] = From[m]
       /\ \A n \in c.recipient_frontier : From[n] = To[m]

LEMMA StaysReadable ==
  ASSUME TypeInv, JournalReadable, NEW record \in Intent,
         intents' = Append(intents, record), WellSaid(record.msg, record.context)
  PROVE  JournalReadable'
<1> DEFINE m == record.msg
           c == record.context
<1>0. PICK last \in Nat : last = Len(intents) + 1
  BY DEF TypeInv
<1>1. /\ Len(intents) \in Nat
      /\ DOMAIN intents = 1..Len(intents)
      /\ DOMAIN intents' = DOMAIN intents \cup {last}
      /\ last \notin DOMAIN intents
      /\ intents'[last] = record
      /\ \A i \in DOMAIN intents : intents'[i] = intents[i]
  BY <1>0 DEF TypeInv
<1>2. \A n : IntentsOf(n) \subseteq DOMAIN intents
  BY DEF IntentsOf
<1>3. ASSUME NEW i \in DOMAIN intents'
      PROVE  \A j \in IntentsOf(intents[i].msg)' : intents'[j].context = intents'[i].context
  <2> SUFFICES ASSUME NEW j \in IntentsOf(intents[i].msg)'
               PROVE  intents'[j].context = intents'[i].context
    OBVIOUS
  <2>1. j \in DOMAIN intents' /\ intents'[j].msg = intents'[i].msg
    BY DEF IntentsOf
  <2>2. CASE i = last /\ j = last
    BY <2>2
  <2>3. CASE i = last /\ j \in DOMAIN intents
    <3>1. j \in IntentsOf(m)
      BY <1>1, <2>1, <2>3 DEF IntentsOf
    <3>2. QED
      BY <1>1, <2>3, <3>1 DEF WellSaid
  <2>4. CASE i \in DOMAIN intents /\ j = last
    <3>1. i \in IntentsOf(m)
      BY <1>1, <2>1, <2>4 DEF IntentsOf
    <3>2. QED
      BY <1>1, <2>4, <3>1 DEF WellSaid
  <2>5. CASE i \in DOMAIN intents /\ j \in DOMAIN intents
    <3>1. j \in IntentsOf(intents[i].msg)
      BY <1>1, <2>1, <2>5 DEF IntentsOf
    <3>2. intents[j].context = intents[i].context
      BY <2>5, <3>1 DEF JournalReadable
    <3>3. QED
      BY <1>1, <2>5, <3>2
  <2>6. QED
    BY <1>1, <2>1, <2>2, <2>3, <2>4, <2>5
<1>4. ASSUME NEW i \in DOMAIN intents, intents[i].context # None
      PROVE  GoodContext(i)'
  <2>1. GoodContext(i)
    BY <1>4 DEF JournalReadable
  <2>2. \A n : GoodReference(i, n) => GoodReference(i, n)'
    <3> SUFFICES ASSUME NEW n, GoodReference(i, n)
                 PROVE  GoodReference(i, n)'
      OBVIOUS
    <3>1. IntentsOf(n) # {}
      BY DEF GoodReference
    <3>2. /\ IntentsOf(n)' # {} /\ First(IntentsOf(n)') = First(IntentsOf(n))
          /\ ContextOf(n)' = ContextOf(n)
      BY <3>1, IntentAppended
    <3>3. intents'[i] = intents[i]
      BY <1>1
    <3>4. QED
      BY <3>2, <3>3 DEF GoodReference, SamePair
  <2>3. intents'[i] = intents[i]
    BY <1>1
  <2>4. QED
    BY <2>1, <2>2, <2>3 DEF GoodContext, Anchors, RenewalOf
<1>5. ASSUME c # None
      PROVE  GoodContext(last)'
  <2>1. ASSUME NEW n \in c.depends_on \cup c.supersedes \cup c.recipient_frontier
        PROVE  GoodReference(last, n)'
    <3>1. /\ IntentsOf(n) # {} /\ ContextOf(n) # None
          /\ SamePair(n, m)
          /\ ContextOf(n).conversation = c.conversation
      BY <1>5, <2>1 DEF WellSaid
    <3>2. /\ IntentsOf(n)' # {} /\ First(IntentsOf(n)') = First(IntentsOf(n))
          /\ ContextOf(n)' = ContextOf(n)
      BY <3>1, IntentAppended
    <3>3. First(IntentsOf(n)) \in DOMAIN intents
      BY <1>2, <3>1, ContextTyped
    <3>4. First(IntentsOf(n)) < last
      BY <1>1, <3>3
    <3>5. QED
      BY <1>1, <3>1, <3>2, <3>4 DEF GoodReference, SamePair
  <2>2. QED
    BY <1>1, <1>5, <2>1 DEF GoodContext, WellSaid, Anchors, RenewalOf
<1>6. ASSUME NEW i \in DOMAIN intents'
      PROVE  intents'[i].context # None => GoodContext(i)'
  <2>1. CASE i = last
    BY <1>1, <1>5, <2>1
  <2>2. CASE i \in DOMAIN intents
    BY <1>1, <1>4, <2>2
  <2>3. QED
    BY <1>1, <2>1, <2>2
<1>7. QED
  BY <1>3, <1>6 DEF JournalReadable

-----------------------------------------------------------------------------
\* Every intent of a message records its one context.
LEMMA ContextAgrees ==
  ASSUME TypeInv, JournalReadable, NEW i \in DOMAIN intents
  PROVE  /\ intents[i].msg \in Ids /\ IntentsOf(intents[i].msg) # {}
         /\ ContextOf(intents[i].msg) = intents[i].context
<1>1. intents[i] \in Intent
  BY DEF TypeInv
<1>2. i \in IntentsOf(intents[i].msg)
  BY DEF IntentsOf
<1>3. First(IntentsOf(intents[i].msg)) \in IntentsOf(intents[i].msg)
  BY <1>2, ContextTyped
<1>4. intents[First(IntentsOf(intents[i].msg))].context = intents[i].context
  BY <1>3 DEF JournalReadable
<1>5. QED
  BY <1>1, <1>2, <1>4 DEF ContextOf, Intent

LEMMA RecipientFrontierOf ==
  ASSUME TypeInv, JournalReadable, NEW m \in Ids, NEW conversation
  PROVE  \A n \in RecipientFrontier(m, conversation) :
           /\ n \in Ids /\ Validated(n)
           /\ From[n] = To[m] /\ To[n] = From[m]
           /\ IntentsOf(n) # {} /\ ContextOf(n) # None
           /\ ContextOf(n).conversation = conversation
<1> DEFINE known == {n \in Ids : Validated(n)}
           said == Said(To[m], From[m], conversation, known)
<1> SUFFICES ASSUME NEW n \in RecipientFrontier(m, conversation)
             PROVE  /\ n \in Ids /\ Validated(n)
                    /\ From[n] = To[m] /\ To[n] = From[m]
                    /\ IntentsOf(n) # {} /\ ContextOf(n) # None
                    /\ ContextOf(n).conversation = conversation
  OBVIOUS
<1>1. said \subseteq DOMAIN intents
  BY DEF Said
<1>2. n \in Told(said)
  <2>1. n \in Frontier(said)
    BY DEF RecipientFrontier
  <2>2. QED
    <3> HIDE DEF said
    <3> QED
      BY <1>1, <2>1, FrontierOf
<1>3. PICK i \in said : n = intents[i].msg
  BY <1>2 DEF Told
<1>4. /\ i \in DOMAIN intents
      /\ n \in known /\ From[n] = To[m] /\ To[n] = From[m]
      /\ intents[i].context # None
      /\ intents[i].context.conversation = conversation
  BY <1>3 DEF Said
<1>5. IntentsOf(n) # {} /\ ContextOf(n) = intents[i].context
  BY <1>3, <1>4, ContextAgrees
<1>6. QED
  BY <1>4, <1>5

\* What makes a context one the journal may hold.
Recordable(m, c) ==
  /\ c \in CausalContext \cup {None}
  /\ WellSaid(m, c)
  /\ c # None =>
       /\ gate # None
       /\ Cardinality(c.recipient_frontier) <= MaxReferences
       /\ \A n \in c.recipient_frontier : Validated(n)

\* What a reply would record as renewed is never its sender's own, and a message
\* that may use all its anchors has at most one.
LEMMA RenewalOfReply ==
  ASSUME NEW m \in Ids, Type[m] = "reply", RenewalOf(m) # None
  PROVE  From[RenewalOf(m)] # From[m]
<1> DEFINE root == InReplyTo[m]
<1>1. root \in Ids /\ From[m] = To[root] /\ From[root] # To[root]
  BY CausalAssumption
<1>2. RenewalOf(m) = Renews[root]
  BY DEF RenewalOf
<1>3. From[Renews[root]] = From[root]
  BY <1>1, <1>2, CausalAssumption
<1>4. QED
  BY <1>1, <1>2, <1>3

LEMMA OneAnchor ==
  ASSUME NEW m \in Ids, \A a \in Anchors(m) : MayAnchor(a, m)
  PROVE  Anchors(m) \subseteq Ids /\ \A a, b \in Anchors(m) : a = b
<1>1. CASE Type[m] = "reply"
  <2>1. RenewalOf(m) = None
    BY <1>1, RenewalOfReply DEF Anchors, MayAnchor
  <2>2. QED
    BY <2>1, CausalAssumption DEF Anchors
<1>2. CASE Type[m] # "reply"
  <2>1. RenewalOf(m) = Renews[m]
    BY <1>2 DEF RenewalOf
  <2>2. Renews[m] = None \/ InReplyTo[m] = None
    BY CausalAssumption
  <2>3. QED
    BY <2>1, <2>2, CausalAssumption DEF Anchors
<1>3. QED
  BY <1>1, <1>2

LEMMA NewContextRecordable ==
  ASSUME CInv, NEW m \in Ids, IntentsOf(m) = {}, gate # None, ~ContextRefused(m)
  PROVE  /\ Recordable(m, NewContext(m))
         /\ NewContext(m) = None =>
              Anchors(m) # {} /\ {ContextOf(a) : a \in Anchors(m)} \ {None} = {}
<1> DEFINE known == {ContextOf(a) : a \in Anchors(m)} \ {None}
           conversation ==
             IF known = {} THEN m ELSE (CHOOSE c \in known : TRUE).conversation
           heads == RecipientFrontier(m, conversation)
           c == [conversation |-> conversation,
                 depends_on |-> {InReplyTo[m]} \ {None},
                 supersedes |-> {RenewalOf(m)} \ {None},
                 recipient_frontier |-> heads]
<1>1. CASE Anchors(m) # {} /\ known = {}
  <2>1. NewContext(m) = None
    BY <1>1 DEF NewContext
  <2>2. QED
    BY <1>1, <2>1 DEF Recordable, WellSaid
<1>2. CASE ~(Anchors(m) # {} /\ known = {})
  <2>1. NewContext(m) = c
    BY <1>2 DEF NewContext
  <2>2. Anchors(m) \subseteq Ids /\ \A a, b \in Anchors(m) : a = b
    <3>1. \A a \in Anchors(m) : MayAnchor(a, m)
      BY DEF ContextRefused, AnchorsRefused
    <3>2. QED
      BY <3>1, OneAnchor
  <2>3. known \subseteq CausalContext
    <3>1. \A a \in Anchors(m) : ContextOf(a) \in CausalContext \cup {None}
      BY ContextTyped DEF CInv
    <3>2. QED
      BY <3>1
  <2>4. conversation \in Ids
    <3>1. known # {} => (CHOOSE x \in known : TRUE) \in known
      OBVIOUS
    <3>2. known # {} => (CHOOSE x \in known : TRUE).conversation \in Ids
      <4> HIDE DEF known
      <4> QED
        BY <2>3, <3>1 DEF CausalContext
    <3>3. QED
      <4> HIDE DEF known
      <4> QED
        BY <3>2
  <2>5. ASSUME NEW a \in Anchors(m)
        PROVE  ContextOf(a) # None /\ ContextOf(a).conversation = conversation
    <3>1. known = {ContextOf(a)} /\ ContextOf(a) # None
      BY <1>2, <2>2
    <3>2. (CHOOSE x \in known : TRUE) = ContextOf(a)
      BY <3>1
    <3>3. QED
      <4> HIDE DEF known
      <4> QED
        BY <3>1, <3>2
  <2>6. \A n \in heads :
          /\ n \in Ids /\ Validated(n)
          /\ From[n] = To[m] /\ To[n] = From[m]
          /\ IntentsOf(n) # {} /\ ContextOf(n) # None
          /\ ContextOf(n).conversation = conversation
    <3> HIDE DEF conversation
    <3> QED
      BY RecipientFrontierOf DEF CInv
  <2>7. c \in CausalContext
    <3>1. {InReplyTo[m]} \ {None} \subseteq Ids /\ {RenewalOf(m)} \ {None} \subseteq Ids
      BY <2>2 DEF Anchors
    <3>2. heads \subseteq Ids
      BY <2>6
    <3>3. QED
      <4> HIDE DEF heads, conversation
      <4> QED
        BY <2>4, <3>1, <3>2 DEF CausalContext
  <2>8. WellSaid(m, c)
    <3> HIDE DEF conversation, heads
    <3>1. Anchors(m) = {} => conversation = m
      BY DEF conversation
    <3>2. ({InReplyTo[m]} \ {None}) \cup ({RenewalOf(m)} \ {None}) = Anchors(m)
      BY DEF Anchors
    <3>3. \A a \in Anchors(m) :
            /\ IntentsOf(a) # {} /\ SamePair(a, m)
            /\ a = RenewalOf(m) => From[a] = From[m]
      BY DEF ContextRefused, AnchorsRefused, MayAnchor
    <3>4. ASSUME NEW n \in c.depends_on \cup c.supersedes \cup c.recipient_frontier
          PROVE  /\ IntentsOf(n) # {} /\ ContextOf(n) # None
                 /\ SamePair(n, m)
                 /\ ContextOf(n).conversation = c.conversation
      <4>1. CASE n \in Anchors(m)
        BY <2>5, <3>3, <4>1
      <4>2. CASE n \in heads
        BY <2>6, <4>2 DEF SamePair
      <4>3. QED
        BY <3>2, <3>4, <4>1, <4>2
    <3>5. \A n \in c.supersedes : From[n] = From[m]
      BY <3>2, <3>3
    <3>6. \A n \in c.recipient_frontier : From[n] = To[m]
      BY <2>6
    <3>7. \A j \in IntentsOf(m) : intents[j].context = c
      OBVIOUS
    <3>8. QED
      BY <3>1, <3>4, <3>5, <3>6, <3>7 DEF WellSaid
  <2>10. c # None => Cardinality(c.recipient_frontier) <= MaxReferences
    <3>1. heads \subseteq Ids
      BY <2>6
    <3>2. IsFiniteSet(heads) /\ Cardinality(heads) \in Nat
      <4> HIDE DEF heads
      <4> QED
        BY <3>1, FS_Subset, FS_CardinalityType, CausalAssumption
    <3>3. c # None => ~TooMany(heads)
      <4> HIDE DEF heads, conversation
      <4> QED
        BY <2>1 DEF ContextRefused
    <3>4. QED
      <4> HIDE DEF heads
      <4> QED
        BY <3>2, <3>3, CausalAssumption DEF TooMany
  <2>11. \A n \in c.recipient_frontier : Validated(n)
    <3> HIDE DEF heads, conversation
    <3> QED
      BY <2>6
  <2>12. NewContext(m) # None
    <3> HIDE DEF c
    <3> QED
      BY <2>1, <2>7, CausalAssumption
  <2>13. QED
    <3> HIDE DEF c
    <3> QED
      BY <2>1, <2>7, <2>8, <2>10, <2>11, <2>12 DEF Recordable
<1>3. QED
  BY <1>1, <1>2

LEMMA RetriedContextRecordable ==
  ASSUME CInv, NEW m \in Ids, IntentsOf(m) # {}
  PROVE  /\ Latest(IntentsOf(m)) \in Nat
         /\ Recordable(m, RetriedContext(m, Latest(IntentsOf(m))))
<1> DEFINE l == Latest(IntentsOf(m))
           c == intents[l].context
<1>1. l \in IntentsOf(m)
  <2>1. Len(intents) \in Nat /\ IntentsOf(m) \subseteq 1..Len(intents)
    BY IntentsTyped DEF CInv
  <2>2. QED
    BY <2>1, LatestOf
<1>2. l \in DOMAIN intents /\ intents[l].msg = m
  BY <1>1 DEF IntentsOf
<1>3. l \in Nat
  BY <1>2 DEF CInv, TypeInv
<1>4. RetriedContext(m, l) = c
  <2>1. gate = None => c = None
    BY <1>2 DEF CInv, ContextsInv
  <2>2. QED
    BY <2>1 DEF RetriedContext
<1>5. c \in CausalContext \cup {None}
  <2>1. intents[l] \in Intent
    BY <1>2 DEF CInv, TypeInv
  <2>2. QED
    BY <2>1 DEF Intent
<1>6. WellSaid(m, c)
  <2>1. \A j \in IntentsOf(m) : intents[j].context = c
    BY <1>2 DEF CInv, JournalReadable
  <2>2. ASSUME c # None
        PROVE  GoodContext(l)
    BY <1>2, <2>2 DEF CInv, JournalReadable
  <2>3. QED
    <3> HIDE DEF l
    <3> QED
      BY <1>2, <2>1, <2>2 DEF WellSaid, GoodContext, GoodReference
<1>7. c # None => /\ gate # None
                  /\ Cardinality(c.recipient_frontier) <= MaxReferences
                  /\ \A n \in c.recipient_frontier : Validated(n)
  BY <1>2 DEF CInv, ContextsInv, FrontierHonest
<1>8. QED
  <2> HIDE DEF l, c
  <2>1. Recordable(m, c)
    BY <1>5, <1>6, <1>7 DEF Recordable
  <2>2. QED
    BY <1>3, <1>4, <2>1 DEF l

LEMMA SendKeepsInvariant ==
  ASSUME CInv, NEW m \in Ids, NEW c, NEW r \in Nat, Recordable(m, c), SendIntent(m, c, r)
  PROVE  CInv'
<1> DEFINE record == [msg |-> m, context |-> c, retry_after |-> r, state |-> "intended"]
<1>1. record \in Intent
  BY DEF Recordable, Intent, SendStates
<1>2. /\ intents' = Append(intents, record)
      /\ UNCHANGED <<gate, received, assessments>>
      /\ registered' \subseteq registered \cup {m}
  BY DEF SendIntent
<1>3. /\ DOMAIN intents' = DOMAIN intents \cup {Len(intents) + 1}
      /\ intents'[Len(intents) + 1] = record
      /\ \A i \in DOMAIN intents : intents'[i] = intents[i]
  BY <1>2 DEF CInv, TypeInv
<1>4. TypeInv'
  <2>1. intents' \in Seq(Intent)
    <3> HIDE DEF record
    <3> QED
      BY <1>1, <1>2 DEF CInv, TypeInv
  <2>2. QED
    BY <1>2, <2>1 DEF CInv, TypeInv
<1>5. ContextsInv'
  <2> SUFFICES ASSUME NEW i \in DOMAIN intents', intents'[i].context # None
               PROVE  /\ gate' # None
                      /\ Cardinality(intents'[i].context.recipient_frontier) <= MaxReferences
    BY DEF ContextsInv
  <2>1. CASE i = Len(intents) + 1
    BY <1>2, <1>3, <2>1 DEF Recordable
  <2>2. CASE i \in DOMAIN intents
    BY <1>2, <1>3, <2>2 DEF CInv, ContextsInv
  <2>3. QED
    BY <1>3, <2>1, <2>2
<1>6. JournalReadable'
  <2>1. WellSaid(record.msg, record.context)
    BY DEF Recordable
  <2>2. QED
    <3> HIDE DEF record
    <3> QED
      BY <1>1, <1>2, <2>1, StaysReadable DEF CInv
<1>7. \A n : Validated(n)' <=> Validated(n)
  BY <1>2 DEF Validated
<1>8. FrontierHonest'
  <2> SUFFICES ASSUME NEW i \in DOMAIN intents', intents'[i].context # None,
                      NEW n \in intents'[i].context.recipient_frontier
               PROVE  Validated(n)'
    BY DEF FrontierHonest
  <2>1. CASE i = Len(intents) + 1
    BY <1>3, <1>7, <2>1 DEF Recordable
  <2>2. CASE i \in DOMAIN intents
    BY <1>3, <1>7, <2>2 DEF CInv, FrontierHonest
  <2>3. QED
    BY <1>3, <2>1, <2>2
<1>9. OneVerdict'
  BY <1>2 DEF CInv, OneVerdict
<1>10. QED
  BY <1>4, <1>5, <1>6, <1>8, <1>9 DEF CInv

\* The steps that leave every message and context as it is.
LEMMA OthersKeepInvariant ==
  ASSUME CInv, TypeInv', OneVerdict', DOMAIN intents' = DOMAIN intents,
         \A i \in DOMAIN intents :
           intents'[i].msg = intents[i].msg /\ intents'[i].context = intents[i].context,
         gate' # None \/ gate = None,
         \A n : Validated(n) => Validated(n)'
  PROVE  CInv'
<1>1. JournalReadable'
  BY ContextsKept DEF CInv
<1>2. ContextsInv'
  BY DEF CInv, ContextsInv
<1>3. FrontierHonest'
  BY DEF CInv, FrontierHonest
<1>4. QED
  BY <1>1, <1>2, <1>3 DEF CInv

\* A verdict on a message that has none.
LEMMA AssessmentKeepsInvariant ==
  ASSUME CInv, NEW m \in Ids, NEW held \in BOOLEAN, ~Validated(m),
         assessments' = Append(assessments, [msg |-> m, held |-> held]),
         registered' \subseteq Ids, UNCHANGED <<gate, intents, received>>
  PROVE  CInv'
<1> DEFINE verdict == [msg |-> m, held |-> held]
<1>1. verdict \in Assessment
  BY DEF Assessment
<1>2. TypeInv'
  <2>1. assessments' \in Seq(Assessment)
    <3> HIDE DEF verdict
    <3> QED
      BY <1>1 DEF CInv, TypeInv, verdict
  <2>2. QED
    BY <2>1 DEF CInv, TypeInv
<1>3. /\ DOMAIN assessments' = DOMAIN assessments \cup {Len(assessments) + 1}
      /\ assessments'[Len(assessments) + 1].msg = m
      /\ \A i \in DOMAIN assessments : assessments'[i] = assessments[i]
  BY DEF CInv, TypeInv
<1>4. OneVerdict'
  BY <1>3 DEF CInv, OneVerdict, Validated
<1>5. \A n : Validated(n) => Validated(n)'
  BY <1>3 DEF Validated
<1>6. QED
  BY <1>2, <1>4, <1>5, OthersKeepInvariant

-----------------------------------------------------------------------------
\* The invariant holds of every legal sequence of sends, retries and intakes.
LEMMA CInvInit == CausalInit => CInv
<1> SUFFICES ASSUME CausalInit PROVE CInv
  OBVIOUS
<1>1. DOMAIN intents = {} /\ DOMAIN assessments = {}
  BY DEF CausalInit
<1>2. QED
  BY <1>1 DEF CausalInit, CInv, TypeInv, ContextsInv, JournalReadable, FrontierHonest,
              OneVerdict

LEMMA CInvNext == CInv /\ [CausalNext]_causalVars => CInv'
<1> SUFFICES ASSUME CInv, [CausalNext]_causalVars PROVE CInv'
  OBVIOUS
<1> USE DEF causalVars
<1>1. CASE ActivateGate
  <2>1. /\ UNCHANGED <<intents, registered, received, assessments>>
        /\ gate = None /\ gate' = Len(intents)
    BY <1>1 DEF ActivateGate
  <2>2. TypeInv'
    BY <2>1 DEF CInv, TypeInv
  <2>3. OneVerdict'
    BY <2>1 DEF CInv, OneVerdict
  <2>4. \A n : Validated(n) => Validated(n)'
    BY <2>1 DEF Validated
  <2>5. QED
    BY <2>1, <2>2, <2>3, <2>4, OthersKeepInvariant
<1>2. ASSUME NEW m \in Ids, Send(m)
      PROVE  CInv'
  <2>1. IntentsOf(m) = {}
    BY <1>2 DEF Send
  <2>2. CASE gate = None
    <3>1. SendIntent(m, None, 0)
      BY <1>2, <2>2 DEF Send
    <3>2. Recordable(m, None)
      BY <2>1 DEF Recordable, WellSaid
    <3>3. QED
      BY <3>1, <3>2, SendKeepsInvariant
  <2>3. CASE gate # None
    <3>1. SendIntent(m, NewContext(m), 0) /\ ~ContextRefused(m)
      BY <1>2, <2>3 DEF Send
    <3>2. Recordable(m, NewContext(m))
      BY <2>1, <2>3, <3>1, NewContextRecordable
    <3>3. QED
      BY <3>1, <3>2, SendKeepsInvariant
  <2>4. QED
    BY <2>2, <2>3
<1>3. ASSUME NEW m \in Ids, Retry(m)
      PROVE  CInv'
  <2> DEFINE l == Latest(IntentsOf(m))
  <2>1. IntentsOf(m) # {} /\ SendIntent(m, RetriedContext(m, l), l)
    BY <1>3 DEF Retry
  <2>2. l \in Nat /\ Recordable(m, RetriedContext(m, l))
    BY <2>1, RetriedContextRecordable
  <2>3. QED
    <3> HIDE DEF l
    <3> QED
      BY <2>1, <2>2, SendKeepsInvariant
<1>4. ASSUME NEW m \in Ids, CarryByHand(m)
      PROVE  CInv'
  <2>1. UNCHANGED <<gate, intents, registered, assessments>> /\ received' = received \cup {m}
    BY <1>4 DEF CarryByHand
  <2>2. TypeInv'
    BY <2>1 DEF CInv, TypeInv
  <2>3. OneVerdict'
    BY <2>1 DEF CInv, OneVerdict
  <2>4. \A n : Validated(n) => Validated(n)'
    BY <2>1 DEF Validated
  <2>5. QED
    BY <2>1, <2>2, <2>3, <2>4, OthersKeepInvariant
<1>5. ASSUME NEW m \in Ids, IntakeHeld(m)
      PROVE  CInv'
  <2>1. /\ ~Validated(m) /\ UNCHANGED <<gate, intents, registered, received>>
        /\ assessments' = Append(assessments, [msg |-> m, held |-> TRUE])
    BY <1>5 DEF IntakeHeld, Intake, NotYetAssessed
  <2>2. registered' \subseteq Ids
    BY <2>1 DEF CInv, TypeInv
  <2>3. QED
    BY <2>1, <2>2, AssessmentKeepsInvariant
<1>6. ASSUME NEW m \in Ids, IntakeValidated(m)
      PROVE  CInv'
  <2>1. /\ ~Validated(m) /\ UNCHANGED <<gate, intents, received>>
        /\ registered' = registered \cup ({m} \cap Roots)
        /\ assessments' = Append(assessments, [msg |-> m, held |-> FALSE])
    BY <1>6 DEF IntakeValidated, Intake, NotYetAssessed
  <2>2. registered' \subseteq Ids
    BY <2>1 DEF CInv, TypeInv
  <2>3. QED
    BY <2>1, <2>2, AssessmentKeepsInvariant
<1>7. ASSUME NEW m \in Ids, IntakeDies(m)
      PROVE  CInv'
  <2>1. UNCHANGED <<gate, intents, received, assessments>> /\ registered' = registered \cup {m}
    BY <1>7 DEF IntakeDies
  <2>2. TypeInv'
    BY <2>1 DEF CInv, TypeInv
  <2>3. OneVerdict'
    BY <2>1 DEF CInv, OneVerdict
  <2>4. \A n : Validated(n) => Validated(n)'
    BY <2>1 DEF Validated
  <2>5. QED
    BY <2>1, <2>2, <2>3, <2>4, OthersKeepInvariant
<1>8. ASSUME NEW i \in DOMAIN intents, Dispatch(i) \/ NotAttempted(i)
      PROVE  CInv'
  <2>1. PICK to \in SendStates : Progress(i, to)
    BY <1>8 DEF Dispatch, NotAttempted, SendStates
  <2>2. UNCHANGED <<gate, registered, received, assessments>>
    BY <1>8 DEF Dispatch, NotAttempted
  <2>3. intents' = [intents EXCEPT ![i].state = to]
    BY <2>1 DEF Progress
  <2>4. intents[i] \in Intent
    BY DEF CInv, TypeInv
  <2>5. [intents[i] EXCEPT !.state = to] \in Intent
    BY <2>4 DEF Intent
  <2>6. intents' \in Seq(Intent)
    BY <2>3, <2>5 DEF CInv, TypeInv
  <2>7. /\ DOMAIN intents' = DOMAIN intents
        /\ \A j \in DOMAIN intents :
             intents'[j].msg = intents[j].msg /\ intents'[j].context = intents[j].context
    BY <2>3, <2>4 DEF Intent
  <2>8. TypeInv'
    BY <2>2, <2>6 DEF CInv, TypeInv
  <2>9. OneVerdict'
    BY <2>2 DEF CInv, OneVerdict
  <2>10. \A n : Validated(n) => Validated(n)'
    BY <2>2 DEF Validated
  <2>11. QED
    BY <2>2, <2>7, <2>8, <2>9, <2>10, OthersKeepInvariant
<1>9. ASSUME NEW i \in DOMAIN intents, Take(i)
      PROVE  CInv'
  <2>1. UNCHANGED <<gate, intents, registered, assessments>>
        /\ received' = received \cup {intents[i].msg}
    BY <1>9 DEF Take
  <2>2. intents[i].msg \in Ids
    BY ContextAgrees DEF CInv
  <2>3. TypeInv'
    BY <2>1, <2>2 DEF CInv, TypeInv
  <2>4. OneVerdict'
    BY <2>1 DEF CInv, OneVerdict
  <2>5. \A n : Validated(n) => Validated(n)'
    BY <2>1 DEF Validated
  <2>6. QED
    BY <2>1, <2>3, <2>4, <2>5, OthersKeepInvariant
<1>10. CASE UNCHANGED causalVars
  <2>1. TypeInv' /\ OneVerdict'
    BY <1>10 DEF CInv, TypeInv, OneVerdict
  <2>2. \A n : Validated(n) => Validated(n)'
    BY <1>10 DEF Validated
  <2>3. QED
    BY <1>10, <2>1, <2>2, OthersKeepInvariant
<1>11. QED
  BY <1>1, <1>2, <1>3, <1>4, <1>5, <1>6, <1>7, <1>8, <1>9, <1>10 DEF CausalNext

\* The inductive invariant of causal ordering: types, contexts within their
\* limit, a readable journal, honest frontiers and single verdicts.
THEOREM CausalInvariant == CausalSpec => []CInv
BY CInvInit, CInvNext, PTL DEF CausalSpec

\* The causal journal keeps its types, and no context names more references
\* than its schema admits.  (CausalContext.from_dict.)
THEOREM CausalTypeCorrect == CausalSpec => []CausalTypeOK
<1>1. CInv => CausalTypeOK
  BY DEF CInv, TypeInv, ContextsInv, CausalTypeOK
<1>2. QED
  BY <1>1, CausalInvariant, PTL

\* The reader never refuses a journal the program wrote.
\* (_validate_intent_contexts against build_outbound_context.)
THEOREM ContextsAlwaysConsistent == CausalSpec => []ContextsConsistent
<1>1. CInv => ContextsConsistent
  BY DEF CInv, ContextsConsistent
<1>2. QED
  BY <1>1, CausalInvariant, PTL

\* A context claims knowledge only of what its sender has validated.
\* (_validated_inbound_ids.)
THEOREM FrontiersHonest == CausalSpec => []FrontierHonest
<1>1. CInv => FrontierHonest
  BY DEF CInv
<1>2. QED
  BY <1>1, CausalInvariant, PTL

\* Every message is assessed at most once.  (_early_exact_duplicate.)
THEOREM OneVerdictEver == CausalSpec => []OneVerdict
<1>1. CInv => OneVerdict
  BY DEF CInv
<1>2. QED
  BY <1>1, CausalInvariant, PTL

-----------------------------------------------------------------------------
\* What lies in the ancestry of what m refers to precedes m.
LEMMA AncestryPrecedes ==
  ASSUME TypeInv, NEW m, NEW h \in References(m), NEW n \in Ancestry(h)
  PROVE  Precedes(n, m)
<1> SUFFICES ASSUME NEW S \in SUBSET Ids, References(m) \subseteq S,
                    \A b \in S : References(b) \subseteq S
             PROVE  n \in S
  BY DEF Precedes
<1>1. h \in S /\ h \in Ids
  OBVIOUS
<1>2. Ancestry(h) \subseteq S
  BY <1>1, AncestryOf
<1>3. QED
  BY <1>2

\* An instruction that is not held names all that its receiver possibly said.
LEMMA NotHeldKnows ==
  ASSUME CInv, NEW m \in Ids, Enforced(m), ~Held(m), Conversation(m) # None,
         NEW i \in DOMAIN intents, intents[i].state # "not_attempted",
         From[intents[i].msg] = To[m], To[intents[i].msg] = From[m],
         Conversation(intents[i].msg) = Conversation(m)
  PROVE  Precedes(intents[i].msg, m)
<1> DEFINE n == intents[i].msg
           c == ContextOf(m)
           said == Said(To[m], From[m], c.conversation, PossiblyDispatched)
<1>1. c # None /\ Conversation(m) = c.conversation
  BY DEF Conversation
<1>2. ContextOf(n) # None /\ ContextOf(n).conversation = c.conversation
  BY <1>1 DEF Conversation
<1>3. n \in Ids /\ ContextOf(n) = intents[i].context
  BY ContextAgrees DEF CInv
<1>4. n \in PossiblyDispatched
  BY <1>3 DEF PossiblyDispatched, IntentsOf
<1>5. i \in said
  BY <1>2, <1>3, <1>4 DEF Said
<1>6. PICK h \in RequiredFrontier(m, c.conversation) : n \in Ancestry(h)
  <2>1. said \subseteq DOMAIN intents
    BY DEF Said
  <2>2. \E h \in Frontier(said) : n \in Ancestry(h)
    <3> HIDE DEF said
    <3> QED
      BY <1>5, <2>1, FrontierOf DEF CInv
  <2>3. QED
    BY <2>2 DEF RequiredFrontier
<1>7. RequiredFrontier(m, c.conversation) \subseteq c.recipient_frontier
  <2>1. IntentsOf(m) # {}
    BY <1>1, ContextTyped DEF CInv
  <2>2. ~OmitsWhatWasSaid(m)
    BY <1>1, <2>1 DEF Held
  <2>3. QED
    BY <2>2 DEF OmitsWhatWasSaid
<1>8. h \in References(m)
  BY <1>1, <1>6, <1>7 DEF References
<1>9. QED
  BY <1>6, <1>8, AncestryPrecedes DEF CInv

(***************************************************************************)
(* A request or cancel of an enforced conversation is validated only when  *)
(* all its receiver may have told its sender there lies in its causal      *)
(* past.  (assess_inbound_order.)                                          *)
(***************************************************************************)
THEOREM NoStaleInstructionEver == CausalSpec => NoStaleInstruction
<1> DEFINE Fresh ==
      \A m \in Ids :
        /\ ~Validated(m) /\ Validated(m)' /\ Enforced(m)
        /\ ~assessments'[Len(assessments')].held
        /\ Conversation(m) # None
        => \A i \in DOMAIN intents :
             LET n == intents[i].msg IN
               /\ intents[i].state # "not_attempted"
               /\ From[n] = To[m] /\ To[n] = From[m]
               /\ Conversation(n) = Conversation(m)
               => Precedes(n, m)
<1>1. CInv /\ [CausalNext]_causalVars => [Fresh]_causalVars
  <2> SUFFICES ASSUME CInv, CausalNext,
                      NEW m \in Ids,
                      ~Validated(m), Validated(m)', Enforced(m),
                      ~assessments'[Len(assessments')].held,
                      Conversation(m) # None,
                      NEW i \in DOMAIN intents, intents[i].state # "not_attempted",
                      From[intents[i].msg] = To[m], To[intents[i].msg] = From[m],
                      Conversation(intents[i].msg) = Conversation(m)
               PROVE  Precedes(intents[i].msg, m)
    OBVIOUS
  <2>1. assessments' # assessments
    BY DEF Validated
  <2>2. PICK n \in Ids : IntakeHeld(n) \/ IntakeValidated(n)
    <3>1. ASSUME NEW n \in Ids, Send(n) \/ Retry(n) \/ CarryByHand(n) \/ IntakeDies(n)
          PROVE  assessments' = assessments
      BY <3>1 DEF Send, Retry, SendIntent, CarryByHand, IntakeDies
    <3>2. ASSUME NEW j \in DOMAIN intents, Dispatch(j) \/ NotAttempted(j) \/ Take(j)
          PROVE  assessments' = assessments
      BY <3>2 DEF Dispatch, NotAttempted, Take
    <3>3. ActivateGate => assessments' = assessments
      BY DEF ActivateGate
    <3>4. QED
      BY <2>1, <3>1, <3>2, <3>3 DEF CausalNext
  <2> DEFINE last == Len(assessments) + 1
  <2>3. /\ Len(assessments') = last
        /\ DOMAIN assessments' = DOMAIN assessments \cup {last}
        /\ \A j \in DOMAIN assessments : assessments'[j] = assessments[j]
        /\ assessments'[last].msg = n
        /\ IntakeHeld(n) => assessments'[last].held = TRUE
    <3>1. assessments \in Seq(Assessment)
      BY DEF CInv, TypeInv
    <3>2. CASE IntakeHeld(n)
      <4>1. assessments' = Append(assessments, [msg |-> n, held |-> TRUE])
        BY <3>2 DEF IntakeHeld
      <4>2. QED
        BY <3>1, <4>1
    <3>3. CASE IntakeValidated(n) /\ ~IntakeHeld(n)
      <4>1. assessments' = Append(assessments, [msg |-> n, held |-> FALSE])
        BY <3>3 DEF IntakeValidated
      <4>2. QED
        BY <3>1, <3>3, <4>1
    <3>4. QED
      BY <2>2, <3>2, <3>3
  <2>4. n = m
    BY <2>3 DEF Validated
  <2>5. ~Held(m)
    BY <2>2, <2>3, <2>4 DEF IntakeValidated
  <2>6. QED
    BY <2>5, NotHeldKnows
<1>2. QED
  BY <1>1, CausalInvariant, PTL DEF CausalSpec, NoStaleInstruction

-----------------------------------------------------------------------------
(***************************************************************************)
(* A reply to a renewed root is refused, whatever was journaled: as the    *)
(* renewal it would record the predecessor of the root, which is not its   *)
(* sender's own.  (transport_audit.py hands the renewal_of of the root's   *)
(* entry to build_outbound_context.)                                       *)
(***************************************************************************)
THEOREM RepliesToRenewalsRefused ==
  ASSUME NEW m \in Ids, Type[m] = "reply", Renews[InReplyTo[m]] # None
  PROVE  AnchorsRefused(m)
<1>1. RenewalOf(m) # None /\ ~MayAnchor(RenewalOf(m), m)
  <2>1. RenewalOf(m) # None
    BY DEF RenewalOf
  <2>2. QED
    BY <2>1, RenewalOfReply DEF MayAnchor
<1>2. RenewalOf(m) \in Anchors(m)
  BY <1>1 DEF Anchors
<1>3. QED
  BY <1>1, <1>2 DEF AnchorsRefused

(***************************************************************************)
(* Once the gate is open, an intent without context is from before it or   *)
(* follows another without context.                                        *)
(***************************************************************************)
Contextless == {j \in DOMAIN intents : intents[j].context = None}
Follows(j) == Predecessor(j) < j /\ Predecessor(j) \in Contextless
LineageInv == gate # None => \A j \in Contextless : j <= gate \/ Follows(j)

LEMMA ContextlessGrandfathered ==
  ASSUME LineageInv, gate # None, NEW i \in Contextless
  PROVE  Grandfathered(i)
<1>1. \A j \in Contextless : j <= gate \/ (Predecessor(j) < j /\ Predecessor(j) \in Contextless)
  BY DEF LineageInv, Follows
<1>2. QED
  BY <1>1 DEF Grandfathered, Contextless

\* An appended intent leaves the predecessors of the earlier ones as they are.
LEMMA LineageAppended ==
  ASSUME CInv, LineageInv, gate # None, UNCHANGED gate,
         NEW record \in Intent, intents' = Append(intents, record),
         NEW last \in Nat, last = Len(intents) + 1,
         record.context = None =>
           Predecessor(last)' < last /\ Predecessor(last)' \in Contextless
  PROVE  LineageInv'
<1>1. /\ Len(intents) \in Nat
      /\ DOMAIN intents = 1..Len(intents)
      /\ DOMAIN intents' = DOMAIN intents \cup {last}
      /\ intents'[last] = record
      /\ \A i \in DOMAIN intents : intents'[i] = intents[i]
  BY DEF CInv, TypeInv
<1>2. Contextless \subseteq Contextless'
  BY <1>1 DEF Contextless
<1>3. ASSUME NEW j \in Contextless, Follows(j)
      PROVE  Follows(j)'
  <2>0. PICK m, named :
          /\ m = intents[j].msg
          /\ named = IF RenewalOf(m) # None THEN RenewalOf(m) ELSE InReplyTo[m]
    OBVIOUS
  <2>1. intents'[j] = intents[j] /\ Predecessor(j) # 0
    BY <1>1, <1>3 DEF Contextless, Follows
  <2>2. CASE intents[j].retry_after # 0
    <3>1. Predecessor(j)' = Predecessor(j)
      BY <2>1, <2>2 DEF Predecessor
    <3>2. QED
      BY <1>2, <1>3, <3>1 DEF Follows
  <2>3. CASE intents[j].retry_after = 0
    <3>1. named # None /\ MayAnchor(named, m) /\ Predecessor(j) = First(IntentsOf(named))
      BY <2>0, <2>1, <2>3 DEF Predecessor
    <3>2. IntentsOf(named)' # {} /\ First(IntentsOf(named)') = First(IntentsOf(named))
      BY <3>1, IntentAppended DEF MayAnchor, CInv
    <3>3. MayAnchor(named, m)'
      BY <3>1, <3>2 DEF MayAnchor, SamePair, RenewalOf
    <3>4. Predecessor(j)' = First(IntentsOf(named)')
      BY <2>0, <2>1, <2>3, <3>1, <3>3 DEF Predecessor, RenewalOf
    <3>5. QED
      BY <1>2, <1>3, <3>1, <3>2, <3>4 DEF Follows
  <2>4. QED
    BY <2>2, <2>3
<1>4. ASSUME NEW j \in Contextless'
      PROVE  j <= gate' \/ Follows(j)'
  <2>1. CASE j = last
    BY <1>1, <1>2, <1>4, <2>1 DEF Contextless, Follows
  <2>2. CASE j \in DOMAIN intents
    <3>1. j \in Contextless
      BY <1>1, <1>4, <2>2 DEF Contextless
    <3>2. QED
      BY <1>3, <3>1 DEF LineageInv
  <2>3. QED
    BY <1>1, <1>4, <2>1, <2>2 DEF Contextless
<1>5. QED
  BY <1>4 DEF LineageInv

\* No step leaves a contextless intent without its lineage.
LEMMA LineageNext == CInv /\ LineageInv /\ [CausalNext]_causalVars => LineageInv'
<1> SUFFICES ASSUME CInv, LineageInv, [CausalNext]_causalVars PROVE LineageInv'
  OBVIOUS
<1>0. /\ Len(intents) \in Nat /\ DOMAIN intents = 1..Len(intents)
      /\ \A i \in DOMAIN intents : intents[i] \in Intent
  BY DEF CInv, TypeInv
<1>1. PICK last \in Nat : last = Len(intents) + 1
  BY <1>0
<1>2. CASE gate' = None
  BY <1>2 DEF LineageInv
<1>3. CASE ActivateGate
  BY <1>0, <1>3 DEF ActivateGate, LineageInv, Contextless
<1>4. ASSUME NEW m \in Ids, NEW c, NEW after \in Nat, gate # None,
             Recordable(m, c), SendIntent(m, c, after),
             c = None =>
               \/ after # 0 /\ after < last /\ after \in Contextless
               \/ /\ after = 0
                  /\ LET named == IF RenewalOf(m) # None THEN RenewalOf(m) ELSE InReplyTo[m]
                     IN  named # None /\ MayAnchor(named, m) /\ ContextOf(named) = None
      PROVE  LineageInv'
  <2>1. PICK record :
          record = [msg |-> m, context |-> c, retry_after |-> after, state |-> "intended"]
    OBVIOUS
  <2>2. /\ record \in Intent /\ record.msg = m /\ record.context = c
        /\ record.retry_after = after
    BY <1>4, <2>1 DEF Recordable, Intent, SendStates
  <2>3. UNCHANGED gate /\ intents' = Append(intents, record)
    BY <1>4, <2>1 DEF SendIntent
  <2>4. intents'[last] = record
    BY <1>0, <1>1, <2>3
  <2>5. ASSUME c = None
        PROVE  Predecessor(last)' < last /\ Predecessor(last)' \in Contextless
    <3>1. PICK named : named = IF RenewalOf(m) # None THEN RenewalOf(m) ELSE InReplyTo[m]
      OBVIOUS
    <3>2. CASE after # 0
      <4>1. Predecessor(last)' = after
        BY <2>2, <2>4, <3>2 DEF Predecessor
      <4>2. QED
        BY <1>4, <2>5, <3>2, <4>1
    <3>3. CASE after = 0
      <4>1. named # None /\ MayAnchor(named, m) /\ ContextOf(named) = None
        BY <1>4, <2>5, <3>1, <3>3
      <4>2. /\ First(IntentsOf(named)) \in IntentsOf(named)
            /\ intents[First(IntentsOf(named))].context = None
        BY <4>1, ContextTyped DEF MayAnchor, CInv
      <4>3. First(IntentsOf(named)) \in Contextless /\ First(IntentsOf(named)) < last
        BY <1>0, <1>1, <4>2 DEF Contextless, IntentsOf
      <4>4. IntentsOf(named)' # {} /\ First(IntentsOf(named)') = First(IntentsOf(named))
        BY <2>2, <2>3, <4>1, IntentAppended DEF MayAnchor, CInv
      <4>5. MayAnchor(named, m)'
        BY <4>1, <4>4 DEF MayAnchor, SamePair, RenewalOf
      <4>6. Predecessor(last)' = First(IntentsOf(named)')
        BY <2>2, <2>4, <3>1, <3>3, <4>1, <4>5 DEF Predecessor, RenewalOf
      <4>7. QED
        BY <4>3, <4>4, <4>6
    <3>4. QED
      BY <3>2, <3>3
  <2>6. QED
    BY <1>1, <1>4, <2>2, <2>3, <2>5, LineageAppended
<1>5. ASSUME NEW m \in Ids, Send(m), gate' # None
      PROVE  LineageInv'
  <2>1. gate # None /\ SendIntent(m, NewContext(m), 0) /\ IntentsOf(m) = {} /\ ~ContextRefused(m)
    BY <1>5 DEF Send, SendIntent
  <2>2. Recordable(m, NewContext(m))
    BY <2>1, NewContextRecordable
  <2>3. PICK named : named = IF RenewalOf(m) # None THEN RenewalOf(m) ELSE InReplyTo[m]
    OBVIOUS
  <2>4. ASSUME NewContext(m) = None
        PROVE  named # None /\ MayAnchor(named, m) /\ ContextOf(named) = None
    <3>1. Anchors(m) # {} /\ {ContextOf(a) : a \in Anchors(m)} \ {None} = {}
      BY <2>1, <2>4, NewContextRecordable
    <3>2. named \in Anchors(m) /\ named # None
      BY <2>3, <3>1 DEF Anchors
    <3>3. MayAnchor(named, m)
      BY <2>1, <3>2 DEF ContextRefused, AnchorsRefused
    <3>4. QED
      BY <3>1, <3>2, <3>3
  <2>5. 0 \in Nat
    OBVIOUS
  <2>6. QED
    BY <1>4, <2>1, <2>2, <2>3, <2>4, <2>5
<1>6. ASSUME NEW m \in Ids, Retry(m), gate' # None
      PROVE  LineageInv'
  <2>1. PICK l : l = Latest(IntentsOf(m))
    OBVIOUS
  <2>2. IntentsOf(m) # {} /\ SendIntent(m, RetriedContext(m, l), l)
    BY <1>6, <2>1 DEF Retry
  <2>3. gate # None /\ l \in Nat /\ Recordable(m, RetriedContext(m, l))
    BY <1>6, <2>1, <2>2, RetriedContextRecordable DEF SendIntent
  <2>4. l \in DOMAIN intents
    <3>1. IntentsOf(m) \subseteq 1..Len(intents)
      BY IntentsTyped DEF CInv
    <3>2. l \in IntentsOf(m)
      BY <1>0, <2>1, <2>2, <3>1, LatestOf
    <3>3. QED
      BY <1>0, <3>1, <3>2
  <2>5. l # 0 /\ l < last
    BY <1>0, <1>1, <2>4
  <2>6. RetriedContext(m, l) = None => l \in Contextless
    BY <2>3, <2>4 DEF RetriedContext, Contextless
  <2>7. QED
    BY <1>4, <2>2, <2>3, <2>5, <2>6
<1>7. ASSUME UNCHANGED gate, DOMAIN intents' = DOMAIN intents,
             \A i \in DOMAIN intents :
               /\ intents'[i].msg = intents[i].msg
               /\ intents'[i].context = intents[i].context
               /\ intents'[i].retry_after = intents[i].retry_after
      PROVE  LineageInv'
  <2>1. \A n : IntentsOf(n)' = IntentsOf(n)
    BY <1>7, ContextsKept DEF CInv
  <2>2. Contextless' = Contextless
    BY <1>7 DEF Contextless
  <2>3. \A n, m : MayAnchor(n, m)' <=> MayAnchor(n, m)
    BY <2>1 DEF MayAnchor, SamePair, RenewalOf
  <2>4. \A j \in Contextless : Predecessor(j)' = Predecessor(j)
    BY <1>7, <2>1, <2>3 DEF Predecessor, Contextless, RenewalOf
  <2>5. QED
    BY <1>7, <2>2, <2>4 DEF LineageInv, Follows
<1>8. ASSUME NEW i \in DOMAIN intents, Dispatch(i) \/ NotAttempted(i)
      PROVE  LineageInv'
  <2>1. PICK to : intents' = [intents EXCEPT ![i].state = to]
    BY <1>8 DEF Dispatch, NotAttempted, Progress
  <2>2. UNCHANGED gate
    BY <1>8 DEF Dispatch, NotAttempted
  <2>3. /\ DOMAIN intents' = DOMAIN intents
        /\ \A j \in DOMAIN intents :
             /\ intents'[j].msg = intents[j].msg
             /\ intents'[j].context = intents[j].context
             /\ intents'[j].retry_after = intents[j].retry_after
    BY <1>0, <2>1 DEF Intent
  <2>4. QED
    BY <1>7, <2>2, <2>3
<1>9. ASSUME UNCHANGED <<gate, intents>>
      PROVE  LineageInv'
  BY <1>7, <1>9
<1>10. QED
  <2>1. \A m \in Ids : CarryByHand(m) \/ IntakeHeld(m) \/ IntakeValidated(m) \/ IntakeDies(m)
          => UNCHANGED <<gate, intents>>
    BY DEF CarryByHand, IntakeHeld, IntakeValidated, IntakeDies
  <2>2. \A i \in DOMAIN intents : Take(i) => UNCHANGED <<gate, intents>>
    BY DEF Take
  <2>3. UNCHANGED causalVars => UNCHANGED <<gate, intents>>
    BY DEF causalVars
  <2>4. QED
    BY <1>2, <1>3, <1>5, <1>6, <1>8, <1>9, <2>1, <2>2, <2>3 DEF CausalNext

(***************************************************************************)
(* The gate closes no conversation but for replies to renewed roots: a     *)
(* cancel, a renewal, an answer to a root that renews none, and a retry    *)
(* find a context or the ancestry that exempts them.                       *)
(* (build_outbound_context, _contextless_intent_is_grandfathered.)         *)
(***************************************************************************)
THEOREM ConversationsAlwaysContinue == CausalSpec => []ConversationsContinue
<1>1. CInv /\ LineageInv => ConversationsContinue
  <2> SUFFICES ASSUME CInv, LineageInv, gate # None
               PROVE  /\ \A m \in Ids :
                           RenewalOf(m) = Renews[m] /\ Continues(m) => ~AnchorsRefused(m)
                      /\ \A i \in DOMAIN intents :
                           intents[i].context = None => Grandfathered(i)
    BY DEF ConversationsContinue
  <2>1. ASSUME NEW m \in Ids, RenewalOf(m) = Renews[m], Continues(m)
        PROVE  ~AnchorsRefused(m)
    <3>1. \A a \in Anchors(m) : IntentsOf(a) # {} /\ SamePair(a, m)
      BY <2>1 DEF Continues, Anchors
    <3>2. \A a \in Anchors(m) : a = RenewalOf(m) => From[a] = From[m]
      BY <2>1, CausalAssumption DEF Anchors
    <3>3. \A a \in Anchors(m) : MayAnchor(a, m)
      BY <3>1, <3>2 DEF MayAnchor
    <3>4. \A a, b \in Anchors(m) : a = b
      BY <3>3, OneAnchor
    <3>5. ASSUME NEW a \in Anchors(m), ContextOf(a) = None
          PROVE  Grandfathered(First(IntentsOf(a)))
      <4>1. /\ First(IntentsOf(a)) \in IntentsOf(a)
            /\ intents[First(IntentsOf(a))].context = None
        BY <3>1, <3>5, ContextTyped DEF CInv
      <4>2. First(IntentsOf(a)) \in Contextless
        BY <4>1 DEF IntentsOf, Contextless
      <4>3. QED
        BY <4>2, ContextlessGrandfathered
    <3>6. QED
      BY <3>3, <3>4, <3>5 DEF AnchorsRefused
  <2>2. ASSUME NEW i \in DOMAIN intents, intents[i].context = None
        PROVE  Grandfathered(i)
    BY <2>2, ContextlessGrandfathered DEF Contextless
  <2>3. QED
    BY <2>1, <2>2
<1>2. CausalInit => LineageInv
  BY DEF CausalInit, LineageInv
<1>3. QED
  BY <1>1, <1>2, CInvInit, CInvNext, LineageNext, PTL DEF CausalSpec

-----------------------------------------------------------------------------
\* What a message refers to was journaled before it, and refers on.
LEMMA ReferencesEarlier ==
  ASSUME TypeInv, JournalReadable, NEW m, NEW n \in References(m)
  PROVE  /\ IntentsOf(m) # {} /\ IntentsOf(n) # {}
         /\ First(IntentsOf(n)) < First(IntentsOf(m))
<1> DEFINE i == First(IntentsOf(m))
<1>1. ContextOf(m) # None /\ IntentsOf(m) # {}
  BY ContextTyped DEF References
<1>2. i \in IntentsOf(m) /\ ContextOf(m) = intents[i].context
  BY <1>1, ContextTyped
<1>3. i \in DOMAIN intents
  BY <1>2 DEF IntentsOf
<1>4. GoodContext(i)
  BY <1>1, <1>2, <1>3 DEF JournalReadable
<1>5. n \in intents[i].context.depends_on \cup intents[i].context.supersedes
              \cup intents[i].context.recipient_frontier
  BY <1>1, <1>2 DEF References
<1>6. GoodReference(i, n)
  <2> HIDE DEF i
  <2> QED
    BY <1>4, <1>5 DEF GoodContext
<1>7. QED
  BY <1>1, <1>6 DEF GoodReference

\* So was everything in its causal past.
LEMMA PastEarlier ==
  ASSUME TypeInv, JournalReadable, NEW m, NEW a, Precedes(a, m)
  PROVE  /\ IntentsOf(m) # {} /\ IntentsOf(a) # {}
         /\ First(IntentsOf(a)) < First(IntentsOf(m))
<1> DEFINE S == {b \in Ids : /\ IntentsOf(m) # {} /\ IntentsOf(b) # {}
                             /\ First(IntentsOf(b)) < First(IntentsOf(m))}
<1>1. References(m) \subseteq S
  BY ReferencesEarlier, ReferencesTyped
<1>2. ASSUME NEW b \in S, NEW c \in References(b)
      PROVE  c \in S
  <2>1. c \in Ids
    BY ReferencesTyped
  <2>2. IntentsOf(c) # {} /\ First(IntentsOf(c)) < First(IntentsOf(b))
    BY ReferencesEarlier
  <2>3. /\ First(IntentsOf(b)) \in Nat /\ First(IntentsOf(c)) \in Nat
        /\ First(IntentsOf(m)) \in Nat
    BY <1>2, <2>2, ContextTyped, IntentsTyped
  <2>4. QED
    BY <1>2, <2>1, <2>2, <2>3
<1>3. S \in SUBSET Ids
  OBVIOUS
<1>4. a \in S
  <2>1. References(m) \subseteq S /\ \A b \in S : References(b) \subseteq S
    BY <1>1, <1>2
  <2> HIDE DEF S
  <2>2. QED
    BY <1>3, <2>1 DEF Precedes
<1>5. QED
  BY <1>4

\* The causal past of a message is what the code's traversal collects.
LEMMA AncestryExact ==
  ASSUME TypeInv, NEW m \in Ids
  PROVE  Ancestry(m) = {m} \cup {a \in Ids : Precedes(a, m)}
<1>1. ASSUME NEW a \in Ids, Precedes(a, m)
      PROVE  a \in Ancestry(m)
  <2>1. Ancestry(m) \in SUBSET Ids /\ m \in Ancestry(m) /\ Closed(Ancestry(m))
    BY AncestryOf
  <2>2. References(m) \subseteq Ancestry(m) /\ \A b \in Ancestry(m) : References(b) \subseteq Ancestry(m)
    BY <2>1 DEF Closed
  <2>3. QED
    BY <1>1, <2>1, <2>2 DEF Precedes
<1>2. ASSUME NEW a \in Ancestry(m), a # m
      PROVE  Precedes(a, m)
  <2> SUFFICES ASSUME NEW S \in SUBSET Ids, References(m) \subseteq S,
                      \A b \in S : References(b) \subseteq S
               PROVE  a \in S
    BY DEF Precedes
  <2>1. S \cup {m} \in SUBSET Ids /\ \A b \in S \cup {m} : References(b) \subseteq S \cup {m}
    OBVIOUS
  <2>2. m \in S \cup {m}
    OBVIOUS
  <2>3. Ancestry(m) \subseteq S \cup {m}
    BY <2>1, <2>2, AncestryOf
  <2>4. QED
    BY <1>2, <2>3
<1>3. Ancestry(m) \subseteq Ids /\ m \in Ancestry(m)
  BY AncestryOf
<1>4. QED
  BY <1>1, <1>2, <1>3

LEMMA PrecedesTransitive ==
  ASSUME NEW a \in Ids, NEW b \in Ids, NEW c \in Ids, Precedes(a, b), Precedes(b, c)
  PROVE  Precedes(a, c)
<1> SUFFICES ASSUME NEW S \in SUBSET Ids, References(c) \subseteq S,
                    \A x \in S : References(x) \subseteq S
             PROVE  a \in S
  BY DEF Precedes
<1>1. b \in S
  BY DEF Precedes
<1>2. References(b) \subseteq S
  BY <1>1
<1>3. QED
  BY <1>2 DEF Precedes

(***************************************************************************)
(* Causal order is an order: no message precedes itself, what precedes a   *)
(* predecessor precedes, and the traversal of _frontier collects exactly   *)
(* the causal past.  It agrees with the journal: a message was journaled   *)
(* after everything in its causal past.  (_validate_intent_contexts        *)
(* refuses a reference to what was not journaled before.)                  *)
(***************************************************************************)
CausalOrder ==
  \A a, b, c \in Ids :
    /\ ~Precedes(a, a)
    /\ Precedes(a, b) /\ Precedes(b, c) => Precedes(a, c)
    /\ a \in Ancestry(b) <=> a = b \/ Precedes(a, b)
    /\ Precedes(a, b) =>
         /\ IntentsOf(a) # {} /\ IntentsOf(b) # {}
         /\ First(IntentsOf(a)) < First(IntentsOf(b))

\* What intents name as known is a strict order, and the journal follows it.
THEOREM CausalOrderIsStrict == CausalSpec => []CausalOrder
<1>1. CInv => CausalOrder
  <2> SUFFICES ASSUME CInv, NEW a \in Ids, NEW b \in Ids, NEW c \in Ids
               PROVE  /\ ~Precedes(a, a)
                      /\ Precedes(a, b) /\ Precedes(b, c) => Precedes(a, c)
                      /\ a \in Ancestry(b) <=> a = b \/ Precedes(a, b)
                      /\ Precedes(a, b) =>
                           /\ IntentsOf(a) # {} /\ IntentsOf(b) # {}
                           /\ First(IntentsOf(a)) < First(IntentsOf(b))
    BY DEF CausalOrder
  <2>1. TypeInv /\ JournalReadable
    BY DEF CInv
  <2>2. ~Precedes(a, a)
    <3>1. SUFFICES ASSUME Precedes(a, a) PROVE FALSE
      OBVIOUS
    <3>2. IntentsOf(a) # {} /\ First(IntentsOf(a)) < First(IntentsOf(a))
      BY <2>1, <3>1, PastEarlier
    <3>3. First(IntentsOf(a)) \in Nat
      BY <2>1, <3>2, ContextTyped, IntentsTyped
    <3>4. QED
      BY <3>2, <3>3
  <2>3. a \in Ancestry(b) <=> a = b \/ Precedes(a, b)
    BY <2>1, AncestryExact
  <2>4. QED
    BY <2>1, <2>2, <2>3, PrecedesTransitive, PastEarlier
<1>2. QED
  BY <1>1, CausalInvariant, PTL

-----------------------------------------------------------------------------
\* A message that was journaled refers to the same messages ever after.
LEMMA ReferencesKept ==
  ASSUME CInv, [CausalNext]_causalVars, NEW n, IntentsOf(n) # {}
  PROVE  IntentsOf(n)' # {} /\ References(n)' = References(n)
<1>1. IntentsOf(n)' # {} /\ ContextOf(n)' = ContextOf(n)
  <2>1. CASE /\ DOMAIN intents' = DOMAIN intents
             /\ \A i \in DOMAIN intents :
                  intents'[i].msg = intents[i].msg /\ intents'[i].context = intents[i].context
    BY <2>1, ContextsKept DEF CInv
  <2>2. ASSUME NEW m \in Ids, Send(m) \/ Retry(m)
        PROVE  IntentsOf(n)' # {} /\ ContextOf(n)' = ContextOf(n)
    <3>1. PICK c, r : intents' = Append(intents, [msg |-> m, context |-> c,
                                                  retry_after |-> r, state |-> "intended"])
      BY <2>2 DEF Send, Retry, SendIntent
    <3> DEFINE record == [msg |-> m, context |-> c, retry_after |-> r, state |-> "intended"]
    <3>2. intents' \in Seq(Intent) /\ intents \in Seq(Intent)
      <4>1. CInv'
        BY <2>2, CInvNext DEF CausalNext
      <4>2. QED
        BY <4>1 DEF CInv, TypeInv
    <3>3. record \in Intent
      <4>1. intents'[Len(intents) + 1] = record /\ Len(intents) + 1 \in DOMAIN intents'
        <5> HIDE DEF record
        <5>1. intents' = Append(intents, record)
          BY <3>1 DEF record
        <5>2. QED
          BY <3>2, <5>1
      <4>2. QED
        <5> HIDE DEF record
        <5> QED
          BY <3>2, <4>1
    <3>4. QED
      <4> HIDE DEF record
      <4>1. intents' = Append(intents, record)
        BY <3>1 DEF record
      <4>2. QED
        BY <3>3, <4>1, IntentAppended DEF CInv
  <2>3. ASSUME NEW i \in DOMAIN intents, Dispatch(i) \/ NotAttempted(i)
        PROVE  IntentsOf(n)' # {} /\ ContextOf(n)' = ContextOf(n)
    <3>1. PICK to : intents' = [intents EXCEPT ![i].state = to]
      BY <2>3 DEF Dispatch, NotAttempted, Progress
    <3>2. intents[i] \in Intent
      BY DEF CInv, TypeInv
    <3>3. /\ DOMAIN intents' = DOMAIN intents
          /\ \A j \in DOMAIN intents :
               intents'[j].msg = intents[j].msg /\ intents'[j].context = intents[j].context
      BY <3>1, <3>2 DEF Intent
    <3>4. QED
      BY <2>1, <3>3
  <2>4. ASSUME UNCHANGED intents
        PROVE  IntentsOf(n)' # {} /\ ContextOf(n)' = ContextOf(n)
    BY <2>1, <2>4
  <2>5. QED
    BY <2>2, <2>3, <2>4 DEF CausalNext, ActivateGate, CarryByHand, IntakeHeld,
       IntakeValidated, IntakeDies, Take, causalVars
<1>2. QED
  BY <1>1 DEF References

(***************************************************************************)
(* The past is fixed: once a message is journaled, nothing enters or       *)
(* leaves its causal past, whatever is sent, retried, assessed or lost     *)
(* later.  What an instruction was judged by stays what its sender         *)
(* claimed.  (A retry copies the context, and a reference needs an earlier *)
(* record.)                                                                *)
(***************************************************************************)
PastFixed ==
  [][\A a, m \in Ids : IntentsOf(m) # {} => (Precedes(a, m)' <=> Precedes(a, m))]_causalVars

\* No step changes the causal past of a journaled message.
THEOREM CausalPastIsFixed == CausalSpec => PastFixed
<1>1. ASSUME CInv, [CausalNext]_causalVars, NEW a \in Ids, NEW m \in Ids, IntentsOf(m) # {}
      PROVE  Precedes(a, m)' <=> Precedes(a, m)
  <2>1. TypeInv /\ JournalReadable
    BY <1>1 DEF CInv
  <2>2. \A n : IntentsOf(n) # {} => References(n)' = References(n)
    BY <1>1, ReferencesKept
  <2>3. \A n : IntentsOf(n) = {} => References(n) = {}
    BY <2>1, ReferencesEarlier
  <2>4. \A n : \A x \in References(n) : IntentsOf(x) # {} /\ x \in Ids
    BY <2>1, ReferencesEarlier, ReferencesTyped
  <2>5. ASSUME Precedes(a, m)
        PROVE  Precedes(a, m)'
    <3> SUFFICES ASSUME NEW S \in SUBSET Ids, References(m)' \subseteq S,
                        \A b \in S : References(b)' \subseteq S
                 PROVE  a \in S
      BY DEF Precedes
    <3>1. References(m) \subseteq S /\ \A b \in S : References(b) \subseteq S
      BY <1>1, <2>2, <2>3
    <3>2. QED
      BY <2>5, <3>1 DEF Precedes
  <2>6. ASSUME Precedes(a, m)'
        PROVE  Precedes(a, m)
    <3> SUFFICES ASSUME NEW S \in SUBSET Ids, References(m) \subseteq S,
                        \A b \in S : References(b) \subseteq S
                 PROVE  a \in S
      BY DEF Precedes
    <3> DEFINE T == {b \in S : IntentsOf(b) # {}}
    <3>1. \A b \in T : References(b)' = References(b) /\ References(b) \subseteq T
      BY <2>2, <2>4
    <3>2. References(m)' \subseteq T /\ T \in SUBSET Ids
      BY <1>1, <2>2, <2>4
    <3>3. a \in T
      <4>1. \A U \in SUBSET Ids :
              References(m)' \subseteq U /\ (\A b \in U : References(b)' \subseteq U) => a \in U
        BY <2>6 DEF Precedes
      <4>2. \A b \in T : References(b)' \subseteq T
        BY <3>1
      <4> HIDE DEF T
      <4>3. QED
        BY <3>2, <4>1, <4>2
    <3>4. QED
      BY <3>3
  <2>7. QED
    BY <2>5, <2>6
<1>2. CInv /\ [CausalNext]_causalVars =>
        [\A a, m \in Ids : IntentsOf(m) # {} => (Precedes(a, m)' <=> Precedes(a, m))]_causalVars
  BY <1>1
<1>3. QED
  BY <1>2, CausalInvariant, PTL DEF CausalSpec, PastFixed

-----------------------------------------------------------------------------
(***************************************************************************)
(* What a walk finds among the answers to m that lie in S: all the latest, *)
(* and of the others only a message that was told once more after the last *)
(* telling of one that it precedes, that is, a retry.                      *)
(***************************************************************************)
Answering(m, S) ==
  {n \in S : From[n] = To[m] /\ To[n] = From[m] /\ Conversation(n) = Conversation(m)}

Overtaken(h, C) ==
  \E n \in C : Precedes(h, n) /\ Latest(IntentsOf(n)) < Latest(IntentsOf(h))

FindsLatest(m, S) ==
  LET C == Answering(m, S)
      F == Frontier(Said(To[m], From[m], Conversation(m), S))
  IN  /\ F \subseteq C
      /\ Maximal(C) \subseteq F
      /\ \A h \in F \ Maximal(C) : Overtaken(h, C)

LEMMA WalkFinds ==
  ASSUME CInv, NEW m \in Ids, Conversation(m) # None, NEW S \in SUBSET Ids
  PROVE  FindsLatest(m, S)
<1> DEFINE C == Answering(m, S)
           said == Said(To[m], From[m], Conversation(m), S)
           F == Frontier(said)
<1>1. TypeInv /\ JournalReadable
  BY DEF CInv
<1>2. said \subseteq DOMAIN intents
  BY DEF Said
<1>3. /\ F \subseteq Told(said) /\ F \subseteq Ids
      /\ \A i \in said : \E h \in F : intents[i].msg \in Ancestry(h)
      /\ \A h \in F : FoundAnew(said, h)
  <2> HIDE DEF said
  <2> QED
    BY <1>1, <1>2, FrontierOf
<1>4. ASSUME NEW n \in C
      PROVE  IntentsOf(n) # {} /\ IntentsOf(n) \subseteq said /\ n \in Ids
  <2>1. n \in S /\ From[n] = To[m] /\ To[n] = From[m] /\ Conversation(n) = Conversation(m)
    BY DEF Answering
  <2>2. ContextOf(n) # None /\ ContextOf(n).conversation = Conversation(m)
    BY <2>1 DEF Conversation
  <2>3. IntentsOf(n) # {}
    BY <1>1, <2>2, ContextTyped
  <2>4. ASSUME NEW i \in IntentsOf(n)
        PROVE  i \in said
    <3>1. i \in DOMAIN intents /\ intents[i].msg = n
      BY DEF IntentsOf
    <3>2. intents[i].context = ContextOf(n)
      BY <1>1, <3>1, ContextAgrees
    <3>3. QED
      BY <2>1, <2>2, <3>1, <3>2 DEF Said
  <2>5. QED
    BY <2>1, <2>3, <2>4
<1>5. ASSUME NEW i \in said
      PROVE  intents[i].msg \in C
  <2>1. /\ i \in DOMAIN intents /\ intents[i].msg \in S
        /\ From[intents[i].msg] = To[m] /\ To[intents[i].msg] = From[m]
        /\ intents[i].context # None
        /\ intents[i].context.conversation = Conversation(m)
    BY DEF Said
  <2>2. ContextOf(intents[i].msg) = intents[i].context
    BY <1>1, <2>1, ContextAgrees
  <2>3. QED
    BY <2>1, <2>2 DEF Answering, Conversation
<1>6. F \subseteq C
  BY <1>3, <1>5 DEF Told
<1> HIDE DEF C, F, said
<1>7. Maximal(C) \subseteq F
  <2> SUFFICES ASSUME NEW x \in Maximal(C) PROVE x \in F
    OBVIOUS
  <2>1. x \in C /\ ~\E n \in C : n # x /\ Precedes(x, n)
    BY DEF Maximal
  <2>2. PICK i \in IntentsOf(x) : i \in said
    BY <1>4, <2>1
  <2>3. intents[i].msg = x
    BY <2>2 DEF IntentsOf
  <2>4. PICK h \in F : x \in Ancestry(h)
    BY <1>3, <2>2, <2>3
  <2>5. x = h \/ Precedes(x, h)
    BY <1>1, <1>3, <2>4, AncestryExact
  <2>6. QED
    BY <1>6, <2>1, <2>4, <2>5
<1>8. ASSUME NEW h \in F, h \notin Maximal(C)
      PROVE  Overtaken(h, C)
  <2>1. PICK n \in C : n # h /\ Precedes(h, n)
    BY <1>6, <1>8 DEF Maximal
  <2>2. PICK i \in said : /\ intents[i].msg = h
                          /\ \A j \in said : j > i => h \notin Ancestry(intents[j].msg)
    BY <1>3 DEF FoundAnew
  <2>3. h \in Ancestry(n)
    BY <1>1, <1>3, <1>4, <2>1, AncestryExact
  <2>4. /\ IntentsOf(n) # {} /\ IntentsOf(n) \subseteq 1..Len(intents)
        /\ IntentsOf(h) \subseteq 1..Len(intents) /\ Len(intents) \in Nat
        /\ i \in IntentsOf(h)
    BY <1>1, <1>2, <1>4, <2>1, <2>2, IntentsTyped DEF IntentsOf
  <2>5. Latest(IntentsOf(n)) \in IntentsOf(n)
    BY <2>4, LatestOf
  <2>6. i <= Latest(IntentsOf(h)) /\ Latest(IntentsOf(h)) \in IntentsOf(h)
    BY <2>4, LatestOf
  <2>7. /\ Latest(IntentsOf(n)) \in said /\ intents[Latest(IntentsOf(n))].msg = n
    BY <1>4, <2>1, <2>5 DEF IntentsOf
  <2>8. ~(Latest(IntentsOf(n)) > i) /\ Latest(IntentsOf(n)) # i
    BY <2>1, <2>2, <2>3, <2>7
  <2>9. Latest(IntentsOf(n)) < Latest(IntentsOf(h))
    <3>1. Latest(IntentsOf(n)) \in Nat /\ i \in Nat /\ Latest(IntentsOf(h)) \in Nat
      BY <2>4, <2>5, <2>6
    <3>2. QED
      BY <2>6, <2>8, <3>1
  <2>10. QED
    BY <2>1, <2>9 DEF Overtaken
<1>9. QED
  BY <1>6, <1>7, <1>8 DEF FindsLatest, C, F, said

Readings == {{n \in Ids : Validated(n)}, PossiblyDispatched}

(***************************************************************************)
(* The walk never misses a latest message, neither of those the sender has *)
(* validated nor of those that are required of it; and a head too many was *)
(* told again after the last telling of a message that depends on it.      *)
(* (_frontier, whatever was retried, lost or carried by hand.)             *)
(***************************************************************************)
THEOREM WalkFindsAllLatest ==
  CausalSpec =>
    [](\A m \in Ids : Conversation(m) # None => \A S \in Readings : FindsLatest(m, S))
<1>1. ASSUME CInv, NEW m \in Ids, Conversation(m) # None, NEW S \in Readings
      PROVE  FindsLatest(m, S)
  <2>1. S \in SUBSET Ids
    BY DEF Readings, PossiblyDispatched
  <2>2. QED
    BY <1>1, <2>1, WalkFinds
<1>2. CInv => \A m \in Ids : Conversation(m) # None => \A S \in Readings : FindsLatest(m, S)
  BY <1>1
<1>3. QED
  BY <1>2, CausalInvariant, PTL

(***************************************************************************)
(* In particular its heads are exactly the latest messages as long as no   *)
(* message has been sent a second time: retries are all that               *)
(* FrontierIsMaximal lacks.                                                *)
(***************************************************************************)
SentOnce == \A i, j \in DOMAIN intents : intents[i].msg = intents[j].msg => i = j

THEOREM OnlyRetriesAddHeads == CausalSpec => [](SentOnce => FrontierIsMaximal)
<1>1. ASSUME CInv, SentOnce, NEW m \in Ids, Conversation(m) # None, NEW S \in SUBSET Ids
      PROVE  Frontier(Said(To[m], From[m], Conversation(m), S)) = Maximal(Answering(m, S))
  <2> DEFINE C == Answering(m, S)
             F == Frontier(Said(To[m], From[m], Conversation(m), S))
  <2>1. /\ F \subseteq C /\ Maximal(C) \subseteq F
        /\ \A h \in F \ Maximal(C) : Overtaken(h, C)
    BY <1>1, WalkFinds DEF FindsLatest
  <2>2. ASSUME NEW h, NEW n, Precedes(h, n), Latest(IntentsOf(n)) < Latest(IntentsOf(h))
        PROVE  FALSE
    <3>1. /\ IntentsOf(h) # {} /\ IntentsOf(n) # {}
          /\ First(IntentsOf(h)) < First(IntentsOf(n))
      BY <1>1, <2>2, PastEarlier DEF CInv
    <3>2. ASSUME NEW x, IntentsOf(x) # {}
          PROVE  First(IntentsOf(x)) = Latest(IntentsOf(x)) /\ First(IntentsOf(x)) \in Nat
      <4>1. First(IntentsOf(x)) \in IntentsOf(x)
        BY <1>1, <3>2, ContextTyped DEF CInv
      <4>2. Latest(IntentsOf(x)) \in IntentsOf(x)
        BY <1>1, <3>2, IntentsTyped, LatestOf DEF CInv
      <4>3. QED
        BY <1>1, <4>1, <4>2, IntentsTyped DEF SentOnce, IntentsOf, CInv
    <3>3. QED
      BY <2>2, <3>1, <3>2
  <2>3. F \subseteq Maximal(C)
    BY <2>1, <2>2 DEF Overtaken
  <2>4. QED
    BY <2>1, <2>3
<1>2. CInv /\ SentOnce => FrontierIsMaximal
  <2> SUFFICES ASSUME CInv, SentOnce, NEW m \in Ids, Conversation(m) # None,
                      NEW S \in Readings
               PROVE  Frontier(Said(To[m], From[m], Conversation(m), S)) =
                        Maximal({n \in S : From[n] = To[m] /\ To[n] = From[m]
                                           /\ Conversation(n) = Conversation(m)})
    BY DEF FrontierIsMaximal, Readings
  <2>1. S \in SUBSET Ids
    BY DEF Readings, PossiblyDispatched
  <2>2. QED
    BY <1>1, <2>1 DEF Answering
<1>3. QED
  BY <1>2, CausalInvariant, PTL
===============================================================================
