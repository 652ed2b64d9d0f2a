-------------------------- MODULE Primitives_proofs --------------------------
(***************************************************************************)
(* The two primitives a process synchronises its own tasks with, for any   *)
(* number of callers, slots, subscribers and events.                       *)
(*                                                                         *)
(* The semaphore counts its slots in one place and keeps its waiters in    *)
(* another.  That they always agree rests on the queue naming every waiter *)
(* once: a drain of n waiters then adds exactly n holders.  That no slot   *)
(* idles rests on the drain being the longest possible one, and on every   *)
(* operation that adds a slot, a ready waiter or a new head draining.      *)
(***************************************************************************)
EXTENDS Semaphore, DurableSubscription, FiniteSetTheorems, FunctionTheorems, SequenceTheorems, TLAPS

\* Every waiter is in the queue once.
Distinct(q) == \A i, k \in 1..Len(q) : q[i] = q[k] => i = k

Prefix(q, n) == {q[i] : i \in 1..n}
Members(q) == Prefix(q, Len(q))

SemaphoreInv == SlotsKept /\ Distinct(waiters)

-----------------------------------------------------------------------------
(* Queues                                                                  *)

LEMMA CountDistinct ==
    ASSUME NEW S, NEW q \in Seq(S), NEW n \in 0..Len(q), Distinct(q)
    PROVE  /\ IsFiniteSet(Prefix(q, n))
           /\ Cardinality(Prefix(q, n)) = n
<1> DEFINE f == [i \in 1..n |-> q[i]]
           T == Prefix(q, n)
<1>1. n \in Nat /\ 1..n \subseteq 1..Len(q)
  BY LenProperties
<1>2. f \in Bijection(1..n, T)
  <2>1. \A i, k \in 1..n : f[i] = f[k] => i = k
    BY <1>1 DEF Distinct
  <2>2. f \in [1..n -> T] /\ \A t \in T : \E i \in 1..n : f[i] = t
    BY DEF Prefix
  <2>. QED BY <2>1, <2>2, Fun_IsBij DEF Bijection, Injection, Surjection, IsInjective
<1>3. ExistsBijection(1..n, T)
  BY <1>2 DEF ExistsBijection
<1>. QED BY <1>1, <1>3, FS_CountingElements, FS_NatBijection

\* A caller that leaves the queue leaves the others in it, in their order.
LEMMA WithoutCaller ==
    ASSUME NEW S, NEW q \in Seq(S), Distinct(q), NEW c \in Members(q)
    PROVE  /\ Without(q, c) \in Seq(S)
           /\ Distinct(Without(q, c))
           /\ Members(Without(q, c)) = Members(q) \ {c}
<1> DEFINE p == Position(q, c)
           u == SubSeq(q, 1, p - 1)
           v == SubSeq(q, p + 1, Len(q))
<1>1. Len(q) \in Nat /\ DOMAIN q = 1..Len(q) /\ \A i \in 1..Len(q) : q[i] \in S
  BY LenProperties
<1>2. p \in 1..Len(q) /\ q[p] = c
  BY <1>1 DEF Position, Members, Prefix
<1>3. u \in Seq(S) /\ Len(u) = p - 1 /\ \A i \in 1..(p - 1) : u[i] = q[i]
  <2>. HIDE DEF p
  <2>1. 1 \in Int /\ p - 1 \in Int /\ \A i \in 1..(p - 1) : q[i] \in S
    BY <1>1, <1>2
  <2>2. /\ u \in Seq(S)
        /\ Len(u) = IF 1 <= p - 1 THEN (p - 1) - 1 + 1 ELSE 0
        /\ \A i \in 1..((p - 1) - 1 + 1) : u[i] = q[1 + i - 1]
    BY <2>1, SubSeqProperties
  <2>. QED BY <2>2, <1>2, <1>1
<1>4. v \in Seq(S) /\ Len(v) = Len(q) - p /\ \A i \in 1..(Len(q) - p) : v[i] = q[p + i]
  <2>. HIDE DEF p
  <2>1. p + 1 \in Int /\ Len(q) \in Int /\ \A i \in (p + 1)..Len(q) : q[i] \in S
    BY <1>1, <1>2
  <2>2. /\ v \in Seq(S)
        /\ Len(v) = IF p + 1 <= Len(q) THEN Len(q) - (p + 1) + 1 ELSE 0
        /\ \A i \in 1..(Len(q) - (p + 1) + 1) : v[i] = q[(p + 1) + i - 1]
    BY <2>1, SubSeqProperties
  <2>. QED BY <2>2, <1>2, <1>1
<1>5. Without(q, c) = u \o v
  BY DEF Without
<1> DEFINE r == u \o v
<1> HIDE DEF p, u, v
<1>6. /\ r \in Seq(S) /\ Len(r) = Len(q) - 1
      /\ \A i \in 1..(Len(q) - 1) : r[i] = IF i < p THEN q[i] ELSE q[i + 1]
  <2>1. /\ r \in Seq(S) /\ Len(r) = Len(u) + Len(v)
        /\ \A i \in 1..(Len(u) + Len(v)) : r[i] = IF i <= Len(u) THEN u[i] ELSE v[i - Len(u)]
    BY <1>3, <1>4, ConcatProperties
  <2>2. Len(u) + Len(v) = Len(q) - 1
    BY <1>1, <1>2, <1>3, <1>4
  <2>3. ASSUME NEW i \in 1..(Len(q) - 1) PROVE r[i] = IF i < p THEN q[i] ELSE q[i + 1]
    <3>1. CASE i < p
      <4>1. i <= Len(u) /\ i \in 1..(p - 1)
        BY <3>1, <1>1, <1>2, <1>3
      <4>. QED BY <4>1, <3>1, <2>1, <2>2, <1>3
    <3>2. CASE ~ (i < p)
      <4>1. ~ (i <= Len(u)) /\ i - Len(u) \in 1..(Len(q) - p) /\ p + (i - Len(u)) = i + 1
        BY <3>2, <1>1, <1>2, <1>3
      <4>2. r[i] = v[i - Len(u)]
        BY <4>1, <2>1, <2>2
      <4>3. v[i - Len(u)] = q[p + (i - Len(u))]
        BY <4>1, <1>4
      <4>. QED BY <4>1, <4>2, <4>3, <3>2
    <3>. QED BY <3>1, <3>2
  <2>. QED BY <2>1, <2>2, <2>3
<1> HIDE DEF r
<1>7. Distinct(r)
  <2>1. SUFFICES ASSUME NEW i \in 1..(Len(q) - 1), NEW k \in 1..(Len(q) - 1), r[i] = r[k]
                 PROVE  i = k
    BY <1>6 DEF Distinct
  <2> DEFINE at(x) == IF x < p THEN x ELSE x + 1
  <2>2. at(i) \in 1..Len(q) /\ at(k) \in 1..Len(q) /\ r[i] = q[at(i)] /\ r[k] = q[at(k)]
    BY <1>1, <1>2, <1>6
  <2>3. at(i) = at(k)
    BY <2>1, <2>2 DEF Distinct
  <2>. QED BY <2>3, <1>1, <1>2
<1>8. Members(r) = Members(q) \ {c}
  <2>1. ASSUME NEW i \in 1..Len(r) PROVE r[i] \in Members(q) \ {c}
    BY <1>1, <1>2, <1>6 DEF Distinct, Members, Prefix
  <2>2. ASSUME NEW i \in 1..Len(q), q[i] # c PROVE \E k \in 1..Len(r) : r[k] = q[i]
    <3>1. CASE i < p
      BY <3>1, <1>1, <1>2, <1>6
    <3>2. CASE i > p
      <4>1. i - 1 \in 1..Len(r) /\ ~ (i - 1 < p) /\ (i - 1) + 1 = i
        BY <3>2, <1>1, <1>2, <1>6
      <4>. QED BY <4>1, <1>6
    <3>. QED BY <3>1, <3>2, <2>2, <1>1, <1>2
  <2>. QED BY <2>1, <2>2 DEF Members, Prefix
<1>. QED BY <1>5, <1>6, <1>7, <1>8 DEF r

-----------------------------------------------------------------------------
(* #drain                                                                  *)

\* The prefixes of the queue that can be granted have a longest one.
LEMMA GrantCountIsGreatest ==
    ASSUME NEW q \in Seq(Callers), NEW slots \in Nat, NEW rdy
    PROVE  LET n == GrantCount(q, slots, rdy)
           IN /\ n \in Drainable(q, slots, rdy)
              /\ \A m \in Drainable(q, slots, rdy) : m <= n
<1> DEFINE D == Drainable(q, slots, rdy)
           k == Cardinality(D)
<1>1. Len(q) \in Nat
  BY LenProperties
<1>2. D \subseteq 0..Len(q) /\ 0 \in D
  BY <1>1 DEF Drainable
<1>3. \A m \in D : 0..m \subseteq D
  BY <1>1 DEF Drainable
<1>4. IsFiniteSet(D) /\ k \in Nat
  <2>1. IsFiniteSet(0..Len(q))
    BY <1>1, FS_Interval
  <2>2. IsFiniteSet(D)
    BY <2>1, <1>2, FS_Subset
  <2>. QED BY <2>2, FS_CardinalityType
<1> HIDE DEF D, k
<1>5. \A m \in D : m <= k - 1
  <2>1. TAKE m \in D
  <2>2. m \in Nat
    BY <1>1, <1>2
  <2>3. Cardinality(0..m) = m + 1
    BY <2>2, FS_Interval
  <2>4. Cardinality(0..m) <= k
    BY <1>3, <1>4, FS_Subset DEF k
  <2>. QED BY <2>2, <2>3, <2>4, <1>4
<1>6. k - 1 \in D
  <2>1. SUFFICES ASSUME k - 1 \notin D PROVE FALSE
    OBVIOUS
  <2>2. D \subseteq 0..(k - 2)
    <3>1. SUFFICES ASSUME NEW m \in D PROVE m \in 0..(k - 2)
      OBVIOUS
    <3>2. m \in Nat /\ m <= k - 1 /\ m # k - 1
      BY <1>1, <1>2, <1>5, <2>1
    <3>. QED BY <3>2, <1>4
  <2>3. k - 2 \in Int /\ k - 2 >= 0
    BY <2>2, <1>2, <1>4
  <2>4. IsFiniteSet(0..(k - 2)) /\ Cardinality(0..(k - 2)) = k - 1
    BY <2>3, <1>4, FS_Interval
  <2>5. k <= k - 1
    BY <2>2, <2>4, FS_Subset DEF k
  <2>. QED BY <2>5, <1>4
<1>7. \E n \in D : \A m \in D : m <= n
  BY <1>5, <1>6
<1>. QED BY <1>7 DEF GrantCount, D

\* A drain from a queue that names the waiting callers once keeps all that is promised.
LEMMA DrainKeeps ==
    ASSUME NEW q \in Seq(Callers), Distinct(q), NEW slots \in Nat,
           NEW rdy \in [Callers -> BOOLEAN], NEW st \in [Callers -> States],
           Members(q) = {c \in Callers : st[c] = "queued"},
           slots + Cardinality({c \in Callers : st[c] = "holding"}) = Capacity,
           Drain(q, slots, rdy, st)
    PROVE  SemaphoreInv'
<1> DEFINE n == GrantCount(q, slots, rdy)
           D == Drainable(q, slots, rdy)
           G == Prefix(q, n)
           H == {c \in Callers : st[c] = "holding"}
<1>1. n \in D /\ \A m \in D : m <= n
  BY GrantCountIsGreatest
<1>2. Len(q) \in Nat /\ \A i \in 1..Len(q) : q[i] \in Callers
  BY LenProperties
<1>3. n \in 0..Len(q) /\ n <= slots /\ \A i \in 1..n : rdy[q[i]]
  BY <1>1 DEF Drainable
<1>4. /\ waiters' = SubSeq(q, n + 1, Len(q))
      /\ available' = slots - n
      /\ state' = [c \in Callers |-> IF \E i \in 1..n : q[i] = c THEN "holding" ELSE st[c]]
      /\ ready' = rdy
  BY DEF Drain
<1> HIDE DEF n
<1>5. /\ waiters' \in Seq(Callers) /\ Len(waiters') = Len(q) - n
      /\ \A i \in 1..(Len(q) - n) : waiters'[i] = q[n + i]
  <2>1. n + 1 \in Int /\ Len(q) \in Int /\ \A i \in (n + 1)..Len(q) : q[i] \in Callers
    BY <1>2, <1>3
  <2>2. /\ waiters' \in Seq(Callers)
        /\ Len(waiters') = IF n + 1 <= Len(q) THEN Len(q) - (n + 1) + 1 ELSE 0
        /\ \A i \in 1..(Len(q) - (n + 1) + 1) : waiters'[i] = q[(n + 1) + i - 1]
    BY <1>4, <2>1, SubSeqProperties
  <2>. QED BY <2>2, <1>2, <1>3
<1>6. Distinct(waiters')
  <2>1. ASSUME NEW i \in 1..(Len(q) - n), NEW k \in 1..(Len(q) - n), q[n + i] = q[n + k] PROVE i = k
    <3>1. n + i \in 1..Len(q) /\ n + k \in 1..Len(q)
      BY <1>2, <1>3
    <3>. QED BY <2>1, <3>1, <1>3 DEF Distinct
  <2>. QED BY <2>1, <1>5 DEF Distinct
<1>7. Holding' = H \cup G
  BY <1>2, <1>3, <1>4 DEF Holding, Prefix
<1>8. H \cap G = {}
  BY <1>2, <1>3 DEF Members, Prefix
<1>9. IsFiniteSet(G) /\ Cardinality(G) = n
  BY <1>3, CountDistinct
<1>10. IsFiniteSet(H) /\ Cardinality(H) \in Nat
  BY CallersAssumption, FS_Subset, FS_CardinalityType
<1>11. Cardinality(Holding') = Cardinality(H) + n
  <2>1. Cardinality(H \cup G) = Cardinality(H) + Cardinality(G) - Cardinality(H \cap G)
    BY <1>9, <1>10, FS_Union
  <2>2. Cardinality(H \cap G) = 0
    BY <1>8, FS_EmptySet
  <2>. QED BY <2>1, <2>2, <1>7, <1>9, <1>10, <1>3
<1>12. Queued' = {c \in Callers : state'[c] = "queued"}
  <2>1. Queued' = {waiters'[i] : i \in 1..Len(waiters')}
    BY DEF Queued
  <2>2. ASSUME NEW i \in 1..Len(waiters') PROVE waiters'[i] \in Callers /\ state'[waiters'[i]] = "queued"
    <3>1. n + i \in 1..Len(q) /\ waiters'[i] = q[n + i]
      BY <1>2, <1>3, <1>5
    <3>2. q[n + i] \in Callers /\ st[q[n + i]] = "queued"
      BY <3>1 DEF Members, Prefix
    <3>3. \A k \in 1..n : q[k] # q[n + i]
      BY <3>1, <1>2, <1>3 DEF Distinct
    <3>. QED BY <3>1, <3>2, <3>3, <1>4
  <2>3. ASSUME NEW c \in Callers, state'[c] = "queued" PROVE \E i \in 1..Len(waiters') : waiters'[i] = c
    <3>1. st[c] = "queued" /\ \A k \in 1..n : q[k] # c
      BY <2>3, <1>4
    <3>2. PICK k \in 1..Len(q) : q[k] = c
      BY <3>1 DEF Members, Prefix
    <3>3. k > n /\ k - n \in 1..Len(waiters') /\ n + (k - n) = k
      BY <3>1, <3>2, <1>2, <1>3, <1>5
    <3>. QED BY <3>2, <3>3, <1>5
  <2>. QED BY <2>1, <2>2, <2>3
<1>13. Len(waiters') = Cardinality(Queued')
  <2>1. Len(waiters') \in 0..Len(waiters')
    BY <1>5, LenProperties
  <2>2. Cardinality(Prefix(waiters', Len(waiters'))) = Len(waiters')
    BY <2>1, <1>5, <1>6, CountDistinct
  <2>. QED BY <2>2 DEF Queued, Prefix
<1>14. available' + Cardinality(Holding') = Capacity /\ available' \in 0..Capacity
  BY <1>3, <1>4, <1>10, <1>11, CapacityAssumption
<1>15. state' \in [Callers -> States]
  BY <1>4 DEF States
<1>16. NoLostWakeup'
  <2>1. SUFFICES ASSUME waiters' # <<>>, available' > 0, rdy[Head(waiters')] PROVE FALSE
    BY <1>4 DEF NoLostWakeup
  <2>2. Len(waiters') \in Nat \ {0} /\ Head(waiters') = waiters'[1]
    BY <2>1, <1>5, EmptySeq
  <2>3. Head(waiters') = q[n + 1] /\ n + 1 \in 0..Len(q) /\ n + 1 <= slots
    BY <2>1, <2>2, <1>2, <1>3, <1>4, <1>5
  <2>4. \A i \in 1..(n + 1) : rdy[q[i]]
    <3>1. \A i \in 1..(n + 1) : i \in 1..n \/ i = n + 1
      BY <1>3
    <3>. QED BY <3>1, <2>1, <2>3, <1>3
  <2>5. n + 1 \in D
    BY <2>3, <2>4 DEF Drainable
  <2>. QED BY <2>5, <1>1, <1>3
<1>. QED
  BY <1>4, <1>5, <1>6, <1>12, <1>13, <1>14, <1>15, <1>16
  DEF SemaphoreInv, SlotsKept, TypeOK, SlotsConserved

-----------------------------------------------------------------------------
(* The semaphore                                                           *)

LEMMA SemaphoreInit == Init => SemaphoreInv
<1>1. SUFFICES ASSUME Init PROVE SemaphoreInv
  OBVIOUS
<1>2. waiters = <<>> /\ Len(waiters) = 0 /\ waiters \in Seq(Callers)
  BY <1>1, EmptySeq DEF Init
<1>3. Holding = {} /\ {c \in Callers : state[c] = "queued"} = {} /\ Queued = {}
  BY <1>1, <1>2 DEF Init, Holding, Queued
<1>4. Cardinality(Holding) = 0 /\ Cardinality(Queued) = 0
  BY <1>3, FS_EmptySet
<1>5. TypeOK
  BY <1>1, <1>2, CapacityAssumption DEF Init, TypeOK, States
<1>6. SlotsConserved
  BY <1>1, <1>2, <1>3, <1>4, CapacityAssumption DEF Init, SlotsConserved
<1>. QED BY <1>2, <1>5, <1>6 DEF SemaphoreInv, SlotsKept, NoLostWakeup, Distinct

\* What a queue that names every waiter once gives to the steps.
LEMMA SemaphoreFacts ==
    ASSUME SemaphoreInv
    PROVE  /\ waiters \in Seq(Callers) /\ Distinct(waiters) /\ available \in Nat
           /\ ready \in [Callers -> BOOLEAN] /\ state \in [Callers -> States]
           /\ Members(waiters) = {c \in Callers : state[c] = "queued"}
           /\ IsFiniteSet(Holding) /\ Cardinality(Holding) \in Nat
           /\ available + Cardinality(Holding) = Capacity
<1>1. IsFiniteSet(Holding) /\ Cardinality(Holding) \in Nat
  BY CallersAssumption, FS_Subset, FS_CardinalityType DEF Holding
<1>2. Members(waiters) = Queued
  BY DEF Queued, Members, Prefix
<1>. QED
  BY <1>1, <1>2, CapacityAssumption DEF SemaphoreInv, SlotsKept, TypeOK, SlotsConserved

\* A caller leaves the queue and what it gave up is handed on.
LEMMA LeavingKeeps ==
    ASSUME SemaphoreInv, NEW c \in Callers, state[c] = "queued",
           Drain(Without(waiters, c), available, ready, [state EXCEPT ![c] = "rejected"])
    PROVE  SemaphoreInv'
<1> DEFINE q == Without(waiters, c)
           st == [state EXCEPT ![c] = "rejected"]
<1>1. c \in Members(waiters)
  BY SemaphoreFacts
<1>2. q \in Seq(Callers) /\ Distinct(q) /\ Members(q) = Members(waiters) \ {c}
  BY <1>1, SemaphoreFacts, WithoutCaller
<1>3. st \in [Callers -> States]
  BY SemaphoreFacts DEF States
<1>4. Members(q) = {b \in Callers : st[b] = "queued"}
  BY <1>2, SemaphoreFacts
<1>5. {b \in Callers : st[b] = "holding"} = Holding
  BY SemaphoreFacts DEF Holding
<1>6. Drain(q, available, ready, st)
  OBVIOUS
<1>7. available + Cardinality({b \in Callers : st[b] = "holding"}) = Capacity
  BY <1>5, SemaphoreFacts
<1> HIDE DEF q, st
<1>. QED BY <1>2, <1>3, <1>4, <1>6, <1>7, SemaphoreFacts, DrainKeeps

LEMMA SemaphoreStep == SemaphoreInv /\ [Next]_vars => SemaphoreInv'
<1>1. SUFFICES ASSUME SemaphoreInv, [Next]_vars PROVE SemaphoreInv'
  OBVIOUS
<1> USE <1>1
<1>2. ASSUME UNCHANGED vars PROVE SemaphoreInv'
  <2>1. /\ available' = available /\ waiters' = waiters /\ ready' = ready /\ state' = state
    BY <1>2 DEF vars
  <2>2. Holding' = Holding /\ Queued' = Queued
    BY <2>1 DEF Holding, Queued
  <2>. QED
    BY <2>1, <2>2 DEF SemaphoreInv, SlotsKept, TypeOK, SlotsConserved, NoLostWakeup, Distinct
<1>3. ASSUME NEW c \in Callers, AcquireFree(c) PROVE SemaphoreInv'
  <2>1. /\ state[c] = "new" /\ available > 0 /\ available' = available - 1
        /\ state' = [state EXCEPT ![c] = "holding"] /\ waiters' = waiters /\ ready' = ready
    BY <1>3 DEF AcquireFree
  <2>2. Holding' = Holding \cup {c} /\ c \notin Holding
    BY <2>1, SemaphoreFacts DEF Holding
  <2>3. Cardinality(Holding') = Cardinality(Holding) + 1
    BY <2>2, SemaphoreFacts, FS_AddElement
  <2>4. {b \in Callers : state'[b] = "queued"} = {b \in Callers : state[b] = "queued"}
    BY <2>1, SemaphoreFacts
  <2>5. TypeOK'
    BY <2>1, SemaphoreFacts, CapacityAssumption
    DEF SemaphoreInv, SlotsKept, TypeOK, States
  <2>8. Queued' = Queued
    BY <2>1 DEF Queued
  <2>9. (available - 1) + (Cardinality(Holding) + 1) = Capacity
    BY <2>1, SemaphoreFacts
  <2>6. SlotsConserved'
    BY <2>1, <2>3, <2>4, <2>8, <2>9 DEF SemaphoreInv, SlotsKept, SlotsConserved
  <2>7. NoLostWakeup' /\ Distinct(waiters')
    BY <2>1, SemaphoreFacts DEF SemaphoreInv, SlotsKept, NoLostWakeup, Distinct
  <2>. QED BY <2>5, <2>6, <2>7 DEF SemaphoreInv, SlotsKept, Distinct
<1>4. ASSUME NEW c \in Callers, Enqueue(c) PROVE SemaphoreInv'
  <2>1. /\ state[c] = "new" /\ available = 0 /\ available' = 0
        /\ state' = [state EXCEPT ![c] = "queued"] /\ waiters' = Append(waiters, c)
        /\ ready' = ready
    BY <1>4 DEF Enqueue
  <2>2. /\ waiters' \in Seq(Callers) /\ Len(waiters') = Len(waiters) + 1
        /\ \A i \in 1..Len(waiters) : waiters'[i] = waiters[i]
        /\ waiters'[Len(waiters) + 1] = c
    BY <2>1, SemaphoreFacts, AppendProperties
  <2>3. Len(waiters) \in Nat /\ c \notin Members(waiters)
    BY <2>1, SemaphoreFacts, LenProperties
  <2>4. Distinct(waiters')
    BY <2>2, <2>3, SemaphoreFacts DEF Distinct, Members, Prefix
  <2>5. Members(waiters') = Members(waiters) \cup {c}
    BY <2>2, <2>3 DEF Members, Prefix
  <2>6. Members(waiters') = {b \in Callers : state'[b] = "queued"}
    BY <2>1, <2>5, SemaphoreFacts
  <2>7. Queued' = Members(waiters')
    BY DEF Queued, Members, Prefix
  <2>8. Len(waiters') = Cardinality(Queued')
    <3>1. Len(waiters') \in 0..Len(waiters')
      BY <2>2, <2>3
    <3>. QED BY <3>1, <2>2, <2>4, <2>7, CountDistinct DEF Members
  <2>9. Holding' = Holding
    BY <2>1, SemaphoreFacts DEF Holding
  <2>10. TypeOK'
    BY <2>1, <2>2, SemaphoreFacts, CapacityAssumption DEF TypeOK, States
  <2>11. SlotsConserved'
    BY <2>1, <2>6, <2>7, <2>8, <2>9, SemaphoreFacts DEF SlotsConserved
  <2>. QED BY <2>1, <2>4, <2>10, <2>11 DEF SemaphoreInv, SlotsKept, NoLostWakeup, Distinct
<1>5. ASSUME NEW c \in Callers, AcquireAborted(c) PROVE SemaphoreInv'
  <2>1. /\ state[c] = "new" /\ state' = [state EXCEPT ![c] = "rejected"]
        /\ available' = available /\ waiters' = waiters /\ ready' = ready
    BY <1>5 DEF AcquireAborted
  <2>2. Holding' = Holding
    BY <2>1, SemaphoreFacts DEF Holding
  <2>3. {b \in Callers : state'[b] = "queued"} = {b \in Callers : state[b] = "queued"}
    BY <2>1, SemaphoreFacts
  <2>4. Queued' = Queued
    BY <2>1 DEF Queued
  <2>5. TypeOK'
    BY <2>1 DEF SemaphoreInv, SlotsKept, TypeOK, States
  <2>. QED
    BY <2>1, <2>2, <2>3, <2>4, <2>5
    DEF SemaphoreInv, SlotsKept, SlotsConserved, NoLostWakeup, Distinct
<1>6. ASSUME NEW c \in Callers, Announce(c) PROVE SemaphoreInv'
  <2>1. Drain(waiters, available, [ready EXCEPT ![c] = TRUE], state)
    BY <1>6 DEF Announce
  <2>2. [ready EXCEPT ![c] = TRUE] \in [Callers -> BOOLEAN]
    BY SemaphoreFacts
  <2>3. available + Cardinality({b \in Callers : state[b] = "holding"}) = Capacity
    BY SemaphoreFacts DEF Holding
  <2>. QED BY <2>1, <2>2, <2>3, SemaphoreFacts, DrainKeeps
<1>7. ASSUME NEW c \in Callers, AnnounceFails(c) PROVE SemaphoreInv'
  BY <1>7, LeavingKeeps DEF AnnounceFails
<1>8. ASSUME NEW c \in Callers, Abort(c) PROVE SemaphoreInv'
  BY <1>8, LeavingKeeps DEF Abort
<1>9. ASSUME NEW c \in Callers, Release(c) PROVE SemaphoreInv'
  <2> DEFINE st == [state EXCEPT ![c] = "released"]
  <2>1. state[c] = "holding" /\ Drain(waiters, available + 1, ready, st)
    BY <1>9 DEF Release
  <2>2. st \in [Callers -> States]
    BY SemaphoreFacts DEF States
  <2>3. {b \in Callers : st[b] = "holding"} = Holding \ {c} /\ c \in Holding
    BY <2>1, SemaphoreFacts DEF Holding
  <2>4. Cardinality({b \in Callers : st[b] = "holding"}) = Cardinality(Holding) - 1
    BY <2>3, SemaphoreFacts, FS_RemoveElement
  <2>5. Members(waiters) = {b \in Callers : st[b] = "queued"}
    BY <2>1, SemaphoreFacts
  <2>6. available + 1 \in Nat
        /\ (available + 1) + Cardinality({b \in Callers : st[b] = "holding"}) = Capacity
    BY <2>4, SemaphoreFacts, SMTT(30)
  <2> HIDE DEF st
  <2>. QED BY <2>1, <2>2, <2>5, <2>6, SemaphoreFacts, DrainKeeps
<1>. QED BY <1>2, <1>3, <1>4, <1>5, <1>6, <1>7, <1>8, <1>9 DEF Next

\* Whatever number of callers asks for whatever number of slots, and however many of them
\* are aborted while they wait, no slot is lost or granted twice and none idles while the
\* head of the queue may take it.
THEOREM SlotsNeverLost == Spec => []SlotsKept
<1>1. SemaphoreInv => SlotsKept
  BY DEF SemaphoreInv
<1>. QED BY <1>1, SemaphoreInit, SemaphoreStep, PTL DEF Spec

-----------------------------------------------------------------------------
(* Subscriptions                                                           *)

\* What holds of a subscriber s that is at r, when the record ended at end.
SubscriberInv(s, r, end) ==
    /\ r \in Sub
    /\ r.seenTerminal => end \in 1..r.seenCount
    /\ s \in Followers /\ r.step = "done" => r.seenTerminal /\ r.seenCount <= r.cursor
    /\ s \in Waiters /\ r.step = "done" /\ ~ r.expired => r.seenTerminal

\* Every notification was of a commit, and the end that a subscriber saw is the end.
SubscriptionInv ==
    /\ count \in 1..MaxEvents /\ terminalAt \in 0..count
    /\ unnotified \in Nat /\ version \in Nat /\ unnotified + version < count
    /\ shared \in BOOLEAN
    /\ sub = [s \in Subs |-> sub[s]]
    /\ \A s \in Subs : SubscriberInv(s, sub[s], terminalAt)

LEMMA SubscriptionSuffices == SubscriptionInv => NobodyEndsEarly
<1>1. SUFFICES ASSUME SubscriptionInv PROVE NobodyEndsEarly
  OBVIOUS
<1>2. sub \in [Subs -> Sub]
  BY <1>1 DEF SubscriptionInv, SubscriberInv
<1>3. SubTypeOK
  BY <1>1, <1>2, BoundsAssumption DEF SubscriptionInv, SubTypeOK
<1>4. ASSUME NEW s \in Followers, sub[s].step = "done"
      PROVE  terminalAt > 0 /\ sub[s].cursor >= terminalAt
  <2>1. s \in Subs /\ SubscriberInv(s, sub[s], terminalAt) /\ terminalAt \in Nat
    BY <1>1 DEF SubscriptionInv, Subs
  <2>2. /\ sub[s].cursor \in Nat /\ sub[s].seenCount \in Nat
        /\ terminalAt \in 1..sub[s].seenCount /\ sub[s].seenCount <= sub[s].cursor
    BY <1>4, <2>1 DEF SubscriberInv, Sub
  <2>. QED BY <2>1, <2>2
<1>5. WaitReturnsTerminal
  BY <1>1 DEF SubscriptionInv, SubscriberInv, WaitReturnsTerminal, Subs
<1>. QED BY <1>3, <1>4, <1>5 DEF NobodyEndsEarly, EndsAfterTerminalEvent

LEMMA SubscriptionInit == SubInit => SubscriptionInv
<1>1. SUFFICES ASSUME SubInit PROVE SubscriptionInv
  OBVIOUS
<1>2. PICK cursors \in [Subs -> 0..1] :
        sub = [s \in Subs |-> [step |-> "start", cursor |-> cursors[s], upto |-> 0, observed |-> 0,
                               seenCount |-> 0, seenTerminal |-> FALSE, expired |-> FALSE]]
  BY <1>1 DEF SubInit, SubInitOf
<1>3. \A s \in Subs : SubscriberInv(s, sub[s], terminalAt)
  BY <1>2 DEF SubscriberInv, Sub, Steps
<1>4. sub = [s \in Subs |-> sub[s]]
  BY <1>2
<1>. QED BY <1>1, <1>3, <1>4, BoundsAssumption DEF SubInit, SubInitOf, SubscriptionInv

\* A step that commits nothing and leaves one subscriber at r.
LEMMA SubscriberMoves ==
    ASSUME SubscriptionInv, NEW s \in Subs, NEW r, sub' = [sub EXCEPT ![s] = r],
           UNCHANGED <<count, terminalAt, unnotified, version, shared>>,
           SubscriberInv(s, r, terminalAt)
    PROVE  SubscriptionInv'
<1>1. \A t \in Subs : SubscriberInv(t, sub'[t], terminalAt')
  BY DEF SubscriptionInv
<1>2. sub' = [t \in Subs |-> sub'[t]]
  BY DEF SubscriptionInv
<1>. QED BY <1>1, <1>2 DEF SubscriptionInv

\* A subscriber that moves on in its loop without ending.
LEMMA LoopGoesOn ==
    ASSUME NEW s \in Subs, NEW end, NEW r, SubscriberInv(s, r, end), NEW at \in Steps, at # "done"
    PROVE  SubscriberInv(s, [r EXCEPT !.step = at], end)
BY DEF SubscriberInv, Sub, Steps

\* What was seen of the end stays true when events are committed.
LEMMA CommitKeeps ==
    ASSUME SubscriptionInv, CommitEvent, sub' = sub, shared' = shared,
           NEW u \in Nat, NEW v \in Nat, unnotified' = u, version' = v, u + v <= count
    PROVE  SubscriptionInv'
<1>2. /\ count \in Nat /\ count < MaxEvents /\ count' = count + 1 /\ count' \in 1..MaxEvents
      /\ terminalAt' \in 0..count' /\ (terminalAt # 0 => terminalAt' = terminalAt)
  BY BoundsAssumption DEF SubscriptionInv, CommitEvent
<1>3. ASSUME NEW s \in Subs PROVE SubscriberInv(s, sub'[s], terminalAt')
  <2>1. SubscriberInv(s, sub[s], terminalAt)
    BY DEF SubscriptionInv
  <2>2. sub[s].seenTerminal => terminalAt # 0
    BY <2>1 DEF SubscriberInv
  <2>. QED BY <1>2, <2>1, <2>2 DEF SubscriberInv
<1>4. sub' = [s \in Subs |-> sub'[s]]
  BY DEF SubscriptionInv
<1>5. u + v < count'
  BY <1>2
<1>6. unnotified' \in Nat /\ version' \in Nat /\ unnotified' + version' < count'
  BY <1>5
<1>. QED BY <1>2, <1>3, <1>4, <1>6 DEF SubscriptionInv

LEMMA SubscriptionStep == SubscriptionInv /\ [SubNext]_subVars => SubscriptionInv'
<1>1. SUFFICES ASSUME SubscriptionInv, [SubNext]_subVars PROVE SubscriptionInv'
  OBVIOUS
<1> USE <1>1
<1>2. /\ count \in 1..MaxEvents /\ terminalAt \in 0..count /\ count \in Nat /\ terminalAt \in Nat
      /\ unnotified \in Nat /\ version \in Nat /\ unnotified + version < count
  BY BoundsAssumption DEF SubscriptionInv
<1>3. ASSUME NEW s \in Subs PROVE SubscriberInv(s, sub[s], terminalAt) /\ sub[s] \in Sub
  BY DEF SubscriptionInv, SubscriberInv
<1>4. ASSUME UNCHANGED subVars PROVE SubscriptionInv'
  <2>1. /\ count' = count /\ terminalAt' = terminalAt /\ unnotified' = unnotified
        /\ version' = version /\ shared' = shared /\ sub' = sub
    BY <1>4 DEF subVars
  <2>. QED BY <2>1 DEF SubscriptionInv
<1>5. ASSUME CommitLocal PROVE SubscriptionInv'
  <2>1. CommitEvent /\ unnotified' = unnotified + 1 /\ UNCHANGED <<version, shared, sub>>
    BY <1>5 DEF CommitLocal
  <2>2. unnotified + 1 \in Nat /\ version \in Nat /\ (unnotified + 1) + version <= count
    BY <1>2
  <2>. QED BY <2>1, <2>2, CommitKeeps
<1>6. ASSUME CommitRemote PROVE SubscriptionInv'
  <2>1. CommitEvent /\ UNCHANGED <<unnotified, version, shared, sub>>
    BY <1>6 DEF CommitRemote
  <2>2. unnotified \in Nat /\ version \in Nat /\ unnotified + version <= count
    BY <1>2
  <2>. QED BY <2>1, <2>2, CommitKeeps
<1>7. ASSUME NotifyPersisted PROVE SubscriptionInv'
  <2>1. /\ unnotified > 0 /\ unnotified' = unnotified - 1 /\ version' = version + 1
        /\ sub' = [s \in Subs |-> IF Waiting(s) THEN Woken(s) ELSE sub[s]]
        /\ count' = count /\ terminalAt' = terminalAt /\ shared' = shared
    BY <1>7 DEF NotifyPersisted
  <2>2. ASSUME NEW s \in Subs PROVE SubscriberInv(s, sub'[s], terminalAt')
    <3>1. SubscriberInv(s, Woken(s), terminalAt)
      BY <1>3, LoopGoesOn DEF Woken, Steps
    <3>. QED BY <3>1, <2>1, <1>3
  <2>3. sub' = [s \in Subs |-> sub'[s]]
    BY <2>1
  <2>4. unnotified' \in Nat /\ version' \in Nat /\ unnotified' + version' < count
    BY <1>2, <2>1
  <2>. QED BY <2>1, <2>2, <2>3, <2>4, <1>2 DEF SubscriptionInv
<1>8. ASSUME NEW s \in Subs, Begin(s) PROVE SubscriptionInv'
  <2> DEFINE at == IF s \in Followers THEN "fetch" ELSE "get"
             r == [[sub[s] EXCEPT !.step = at] EXCEPT !.observed = version]
  <2>1. sub' = [sub EXCEPT ![s] = r]
    BY <1>8, <1>3 DEF Begin, Sub
  <2>2. SubscriberInv(s, r, terminalAt)
    BY <1>2, <1>3 DEF SubscriberInv, Sub, Steps
  <2>. HIDE DEF r
  <2>. QED BY <2>1, <2>2, <1>8, SubscriberMoves DEF Begin
<1>9. ASSUME NEW s \in Subs, Fetch(s) PROVE SubscriptionInv'
  <2> DEFINE r == [[sub[s] EXCEPT !.step = "yield"] EXCEPT !.upto = count]
  <2>1. sub' = [sub EXCEPT ![s] = r]
    BY <1>9, <1>3 DEF Fetch, Sub
  <2>2. SubscriberInv(s, r, terminalAt)
    BY <1>2, <1>3 DEF SubscriberInv, Sub, Steps
  <2>. HIDE DEF r
  <2>. QED BY <2>1, <2>2, <1>9, SubscriberMoves DEF Fetch
<1>10. ASSUME NEW s \in Subs, Yield(s) PROVE SubscriptionInv'
  <2> DEFINE r == IF sub[s].cursor < sub[s].upto
                    THEN [sub[s] EXCEPT !.cursor = sub[s].cursor + 1]
                    ELSE [sub[s] EXCEPT !.step = "get"]
  <2>1. sub' = [sub EXCEPT ![s] = r] /\ sub[s].step = "yield"
    BY <1>10, <1>3 DEF Yield, Sub
  <2>2. SubscriberInv(s, r, terminalAt)
    BY <1>3, <2>1 DEF SubscriberInv, Sub, Steps
  <2>. HIDE DEF r
  <2>. QED BY <2>1, <2>2, <1>10, SubscriberMoves DEF Yield
<1>11. ASSUME NEW s \in Subs, Get(s) PROVE SubscriptionInv'
  <2> DEFINE r == [[[sub[s] EXCEPT !.step = "decide"] EXCEPT !.seenCount = count]
                                                     EXCEPT !.seenTerminal = (terminalAt > 0)]
  <2>1. sub' = [sub EXCEPT ![s] = r]
    BY <1>11, <1>3 DEF Get, Sub
  <2>2. SubscriberInv(s, r, terminalAt)
    <3>3. (terminalAt > 0) \in BOOLEAN
      BY <1>2
    <3>4. r \in Sub
      BY <1>2, <1>3, <3>3 DEF Sub, Steps
    <3>1. /\ r \in Sub /\ r.step = "decide" /\ r.seenCount = count
          /\ r.seenTerminal = (terminalAt > 0)
      BY <1>3, <3>4 DEF Sub
    <3>. HIDE DEF r
    <3>2. ASSUME r.seenTerminal PROVE terminalAt \in 1..r.seenCount
      <4>1. terminalAt > 0
        BY <3>1, <3>2
      <4>. QED BY <1>2, <3>1, <4>1
    <3>. QED BY <3>1, <3>2 DEF SubscriberInv
  <2>. HIDE DEF r
  <2>. QED BY <2>1, <2>2, <1>11, SubscriberMoves DEF Get
<1>12. ASSUME NEW s \in Subs, Decide(s) PROVE SubscriptionInv'
  <2> DEFINE r == [sub[s] EXCEPT !.step = AfterRead(s)]
  <2>1. sub' = [sub EXCEPT ![s] = r]
    BY <1>12, <1>3 DEF Decide, Sub
  <2>2. CASE Ends(s)
    <3>1. AfterRead(s) = "done"
      BY <2>2 DEF AfterRead
    <3>2. SubscriberInv(s, r, terminalAt)
      BY <2>2, <3>1, <1>3, SubscribersAssumption DEF SubscriberInv, Ends, Sub, Steps, Subs
    <3>. HIDE DEF r
    <3>. QED BY <2>1, <3>2, <1>12, SubscriberMoves DEF Decide
  <2>3. CASE ~ Ends(s)
    <3>1. AfterRead(s) \in {"start", "wait"}
      BY <2>3 DEF AfterRead
    <3>2. AfterRead(s) \in Steps /\ AfterRead(s) # "done"
      BY <3>1 DEF Steps
    <3>3. SubscriberInv(s, r, terminalAt)
      BY <3>2, <1>3, LoopGoesOn
    <3>. HIDE DEF r
    <3>. QED BY <2>1, <3>3, <1>12, SubscriberMoves DEF Decide
  <2>. QED BY <2>2, <2>3
<1>13. ASSUME NEW s \in Subs, RefreshTimer(s) PROVE SubscriptionInv'
  <2>1. SubscriberInv(s, Woken(s), terminalAt)
    BY <1>3, LoopGoesOn DEF Woken, Steps
  <2>. QED BY <2>1, <1>13, SubscriberMoves DEF RefreshTimer
<1>14. ASSUME NEW s \in Subs, Deadline(s) PROVE SubscriptionInv'
  <2> DEFINE r == [sub[s] EXCEPT !.expired = TRUE]
  <2>1. sub' = [sub EXCEPT ![s] = r] /\ sub[s].step # "done"
    BY <1>14, <1>3 DEF Deadline, Sub
  <2>2. SubscriberInv(s, r, terminalAt)
    BY <1>3, <2>1 DEF SubscriberInv, Sub, Steps
  <2>. HIDE DEF r
  <2>. QED BY <2>1, <2>2, <1>14, SubscriberMoves DEF Deadline
<1>15. ASSUME NEW s \in Subs, AbortSubscription(s) PROVE SubscriptionInv'
  <2> DEFINE r == [sub[s] EXCEPT !.step = "aborted"]
  <2>1. sub' = [sub EXCEPT ![s] = r]
    BY <1>15, <1>3 DEF AbortSubscription, Sub
  <2>2. SubscriberInv(s, r, terminalAt)
    BY <1>3, LoopGoesOn DEF Steps
  <2>. HIDE DEF r
  <2>. QED BY <2>1, <2>2, <1>15, SubscriberMoves DEF AbortSubscription
<1>. QED
  BY <1>4, <1>5, <1>6, <1>7, <1>8, <1>9, <1>10, <1>11, <1>12, <1>13, <1>14, <1>15
  DEF SubNext, Step

\* A follower has the terminal event when it ends and a waiter that was not cut off the
\* terminal record, however many events are committed between any two of their reads.
THEOREM SubscribersSeeTheEnd == SubSpec => []NobodyEndsEarly
BY SubscriptionInit, SubscriptionStep, SubscriptionSuffices, PTL DEF SubSpec
=============================================================================
