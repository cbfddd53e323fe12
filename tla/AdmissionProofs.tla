--------------------------- MODULE AdmissionProofs ----------------------------
(***************************************************************************)
(* Proofs about module Admission, for every set of callers, every          *)
(* MaxConcurrent and both values of RejectWhenFull.                        *)
(*                                                                         *)
(* The invariant is AdmInv: the types, the slot accounting written as a    *)
(* sum (the difference of SlotAccounting is not convenient for the         *)
(* arithmetic of a step), the shape of the queue, and NoLostWakeup, which  *)
(* needs the queue: a caller may sleep only behind somebody.               *)
(***************************************************************************)
EXTENDS Admission, FiniteSetTheorems, TLAPS

SlotSum == permits + Cardinality(Holders) = MaxConcurrent

(* The queue holds every waiting or granted caller, and nobody else.       *)
QueueMembers ==
  \A g \in Gens : gen[g] \in {"waiting", "granted"} <=> \E i \in DOMAIN waiters : waiters[i] = g

QueueDistinct == \A i, j \in DOMAIN waiters : waiters[i] = waiters[j] => i = j

GrantedFirst ==
  \A i, j \in DOMAIN waiters :
    (i < j /\ gen[waiters[j]] = "granted") => gen[waiters[i]] = "granted"

AdmInv ==
  /\ AdmTypeOK
  /\ SlotSum
  /\ QueueMembers
  /\ QueueDistinct
  /\ GrantedFirst
  /\ NoLostWakeup

(* The sets of callers are finite, and a caller that holds no slot may be  *)
(* added to the holders.                                                   *)
LEMMA FiniteCallers ==
  /\ IsFiniteSet(Holders) /\ Cardinality(Holders) \in Nat
  /\ \A W \in SUBSET Gens : IsFiniteSet(W) /\ Cardinality(W) \in Nat
<1>1. \A W \in SUBSET Gens : IsFiniteSet(W) /\ Cardinality(W) \in Nat
  BY GensAssumption, FS_Subset, FS_CardinalityType
<1>2. Holders \in SUBSET Gens
  BY DEF Holders
<1>. QED
  BY <1>1, <1>2

(* The cardinality of a disjoint union of sets of callers.                 *)
LEMMA DisjointUnion ==
  ASSUME NEW A \in SUBSET Gens, NEW B \in SUBSET Gens, A \cap B = {}
  PROVE  Cardinality(A \cup B) = Cardinality(A) + Cardinality(B)
<1>1. IsFiniteSet(A) /\ IsFiniteSet(B) /\ Cardinality(A) \in Nat /\ Cardinality(B) \in Nat
  BY FiniteCallers
<1>2. Cardinality(A \cup B) = Cardinality(A) + Cardinality(B) - Cardinality(A \cap B)
  BY <1>1, FS_Union
<1>3. Cardinality(A \cap B) = 0
  BY FS_EmptySet
<1>. QED
  BY <1>1, <1>2, <1>3

(* The slots add up: what a step takes from or gives to the counter is     *)
(* what it adds to or removes from the holders.                            *)
LEMMA SlotsOfHolders ==
  ASSUME AdmTypeOK, SlotSum
  PROVE  /\ permits = MaxConcurrent - Cardinality(Holders)
         /\ Cardinality(Holders) <= MaxConcurrent
         /\ permits \in Nat
<1>. QED
  BY FiniteCallers, MaxConcurrentAssumption DEF AdmTypeOK, SlotSum

LEMMA AdmInitInv == AdmInit => AdmInv
<1> SUFFICES ASSUME AdmInit PROVE AdmInv
  OBVIOUS
<1> USE DEF AdmInit, GenInit
<1>1. AdmTypeOK
  <2>1. draining \in BOOLEAN
    OBVIOUS
  <2>2. gen \in [Gens -> GenStates]
    BY DEF GenStates
  <2>3. permits \in 0 .. MaxConcurrent
    BY MaxConcurrentAssumption
  <2>4. waiters \in Seq(Gens)
    OBVIOUS
  <2>. QED
    BY <2>1, <2>2, <2>3, <2>4 DEF AdmTypeOK
<1>2. SlotSum
  <2>1. Holders = {}
    BY DEF Holders
  <2>. QED
    BY <2>1, FS_EmptySet, MaxConcurrentAssumption DEF SlotSum
<1>3. QueueMembers /\ QueueDistinct /\ GrantedFirst
  BY DEF QueueMembers, QueueDistinct, GrantedFirst
<1>4. NoLostWakeup
  BY DEF NoLostWakeup, Pending
<1>. QED
  BY <1>1, <1>2, <1>3, <1>4 DEF AdmInv

-----------------------------------------------------------------------------
(* Steps that leave the counter, the queue and the holders alone.          *)
LEMMA SameSlots ==
  ASSUME AdmInv, AdmTypeOK', UNCHANGED <<permits, waiters>>,
         \A g \in Gens : gen'[g] = gen[g]
                       \/ {gen[g], gen'[g]} \subseteq {"idle", "refused"}
                       \/ {gen[g], gen'[g]} \subseteq {"running", "replied"}
  PROVE  AdmInv'
<1> USE DEF AdmInv
<1>1. Holders' = Holders
  BY DEF Holders
<1>2. Pending' = Pending
  BY DEF Pending
<1>3. \A g \in Gens : /\ gen'[g] = "granted" <=> gen[g] = "granted"
                      /\ gen'[g] \in {"waiting", "granted"} <=> gen[g] \in {"waiting", "granted"}
  OBVIOUS
<1>4. SlotSum'
  BY <1>1 DEF SlotSum
<1>5. QueueMembers'
  BY <1>3 DEF QueueMembers
<1>6. QueueDistinct'
  BY DEF QueueDistinct
<1>7. GrantedFirst'
  <2>1. \A i \in DOMAIN waiters : waiters[i] \in Gens
    BY DEF AdmTypeOK
  <2>. QED
    BY <2>1, <1>3 DEF GrantedFirst
<1>8. NoLostWakeup'
  BY <1>2, <1>3 DEF NoLostWakeup
<1>. QED
  BY <1>4, <1>5, <1>6, <1>7, <1>8

(* A free slot and an empty queue: the newcomer takes a slot.              *)
LEMMA AcquireInv ==
  ASSUME AdmInv, NEW g \in Gens, Acquire(g)
  PROVE  AdmInv'
<1> USE DEF AdmInv
<1>1. waiters = <<>> /\ permits # 0
  BY DEF Acquire, Locked
<1>2. permits' = permits - 1 /\ waiters' = waiters /\ draining' = draining
  BY DEF Acquire, Taken
<1>3. gen' = [gen EXCEPT ![g] = "running"] /\ gen[g] = "idle"
  BY DEF Acquire
<1>4. permits \in Nat /\ permits <= MaxConcurrent
  BY MaxConcurrentAssumption DEF AdmTypeOK
<1>5. \A h \in Gens : gen[h] \notin {"waiting", "granted"}
  BY <1>1 DEF QueueMembers
<1>6. \A h \in Gens : gen'[h] \notin {"waiting", "granted"}
  BY <1>3, <1>5 DEF AdmTypeOK
<1>7. AdmTypeOK'
  <2>1. permits' \in 0 .. MaxConcurrent
    BY <1>1, <1>2, <1>4, MaxConcurrentAssumption
  <2>2. gen' \in [Gens -> GenStates]
    BY <1>3 DEF AdmTypeOK, GenStates
  <2>3. draining' \in BOOLEAN /\ waiters' \in Seq(Gens)
    BY <1>2 DEF AdmTypeOK
  <2>. QED
    BY <2>1, <2>2, <2>3 DEF AdmTypeOK
<1>8. SlotSum'
  <2>1. Holders' = Holders \cup {g} /\ g \notin Holders
    BY <1>3 DEF Holders, AdmTypeOK
  <2>2. Cardinality(Holders') = Cardinality(Holders) + 1
    BY <2>1, FiniteCallers, FS_AddElement
  <2>. QED
    BY <2>2, <1>2, <1>4, FiniteCallers, MaxConcurrentAssumption DEF SlotSum
<1>9. QueueMembers' /\ QueueDistinct' /\ GrantedFirst'
  BY <1>1, <1>2, <1>6 DEF QueueMembers, QueueDistinct, GrantedFirst
<1>10. NoLostWakeup'
  BY <1>6 DEF NoLostWakeup, Pending
<1>. QED
  BY <1>7, <1>8, <1>9, <1>10

(* No slot, or somebody queued: the newcomer queues up.                    *)
LEMMA AwaitInv ==
  ASSUME AdmInv, NEW g \in Gens, Await(g)
  PROVE  AdmInv'
<1> USE DEF AdmInv
<1>1. waiters' = Append(waiters, g) /\ permits' = permits /\ draining' = draining
  BY DEF Await, Enqueued
<1>2. gen' = [gen EXCEPT ![g] = "waiting"] /\ gen[g] = "idle"
  BY DEF Await
<1>3. waiters \in Seq(Gens) /\ gen \in [Gens -> GenStates]
  BY DEF AdmTypeOK
<1>. DEFINE n == Len(waiters)
<1>4. /\ n \in Nat
      /\ DOMAIN waiters = 1 .. n /\ DOMAIN waiters' = 1 .. n + 1
      /\ \A i \in 1 .. n : waiters'[i] = waiters[i] /\ waiters[i] \in Gens
      /\ waiters'[n + 1] = g
  BY <1>1, <1>3
<1>5. \A i \in 1 .. n : waiters[i] # g
  BY <1>2, <1>4 DEF QueueMembers
<1>6. AdmTypeOK'
  <2>1. gen' \in [Gens -> GenStates]
    BY <1>2, <1>3 DEF GenStates
  <2>2. waiters' \in Seq(Gens)
    BY <1>1, <1>3
  <2>3. draining' \in BOOLEAN /\ permits' \in 0 .. MaxConcurrent
    BY <1>1 DEF AdmTypeOK
  <2>. QED
    BY <2>1, <2>2, <2>3 DEF AdmTypeOK
<1>7. SlotSum'
  <2>1. Holders' = Holders
    BY <1>2, <1>3 DEF Holders
  <2>. QED
    BY <2>1, <1>1 DEF SlotSum
<1>8. QueueMembers'
  <2> SUFFICES ASSUME NEW h \in Gens
               PROVE  gen'[h] \in {"waiting", "granted"} <=> \E i \in 1 .. n + 1 : waiters'[i] = h
    BY <1>4 DEF QueueMembers
  <2>1. CASE h = g
    BY <2>1, <1>2, <1>3, <1>4
  <2>2. CASE h # g
    <3>1. gen'[h] = gen[h]
      BY <2>2, <1>2, <1>3
    <3>2. (\E i \in 1 .. n + 1 : waiters'[i] = h) <=> \E i \in 1 .. n : waiters[i] = h
      BY <2>2, <1>4
    <3>. QED
      BY <3>1, <3>2, <1>4 DEF QueueMembers
  <2>. QED
    BY <2>1, <2>2
<1>9. QueueDistinct'
  BY <1>4, <1>5 DEF QueueDistinct
<1>10. GrantedFirst'
  <2> SUFFICES ASSUME NEW i \in 1 .. n + 1, NEW j \in 1 .. n + 1, i < j,
                      gen'[waiters'[j]] = "granted"
               PROVE  gen'[waiters'[i]] = "granted"
    BY <1>4 DEF GrantedFirst
  <2>1. j \in 1 .. n /\ i \in 1 .. n
    BY <1>2, <1>3, <1>4
  <2>. QED
    BY <2>1, <1>2, <1>3, <1>4, <1>5 DEF GrantedFirst
<1>11. NoLostWakeup'
  <2> SUFFICES ASSUME permits > 0
               PROVE  \E h \in Gens : gen'[h] = "granted"
    BY <1>1 DEF NoLostWakeup
  <2>1. waiters # <<>>
    BY MaxConcurrentAssumption DEF Await, Locked, AdmTypeOK
  <2>2. 1 \in DOMAIN waiters /\ waiters[1] \in Gens
    BY <2>1, <1>3
  <2>3. gen[waiters[1]] \in {"waiting", "granted"}
    BY <2>2 DEF QueueMembers
  <2>4. \E h \in Gens : gen[h] = "granted"
    BY <2>2, <2>3 DEF NoLostWakeup, Pending
  <2>. QED
    BY <2>4, <1>2, <1>3
<1>. QED
  BY <1>6, <1>7, <1>8, <1>9, <1>10, <1>11

(* Waking the n oldest of the queue keeps the granted ones in front.       *)
LEMMA WakeKeepsOrder ==
  ASSUME AdmInv, NEW n, NEW W \in Woken(n),
         NEW i \in DOMAIN waiters, NEW j \in DOMAIN waiters, i < j,
         gen[waiters[j]] = "granted" \/ waiters[j] \in W
  PROVE  gen[waiters[i]] = "granted" \/ waiters[i] \in W
<1> USE DEF AdmInv
<1>1. /\ waiters[i] \in Gens /\ waiters[j] \in Gens
      /\ gen[waiters[i]] \in {"waiting", "granted"}
  BY DEF AdmTypeOK, QueueMembers
<1>2. CASE gen[waiters[j]] = "granted"
  BY <1>2 DEF GrantedFirst
<1>3. CASE waiters[j] \in W
  <2> SUFFICES ASSUME gen[waiters[i]] = "waiting", waiters[i] \notin W
               PROVE  FALSE
    BY <1>1
  <2>1. Before(waiters[j], waiters[i])
    BY <1>1, <1>3 DEF Woken, Pending
  <2>2. PICK k \in DOMAIN waiters, l \in DOMAIN waiters :
          k < l /\ waiters[k] = waiters[j] /\ waiters[l] = waiters[i]
    BY <2>1 DEF Before
  <2>3. k = j /\ l = i
    BY <2>2 DEF QueueDistinct
  <2>4. i \in Nat /\ j \in Nat
    BY DEF AdmTypeOK
  <2>. QED
    BY <2>2, <2>3, <2>4
<1>. QED
  BY <1>2, <1>3

(* The bounds on the set a release or a resumption wakes.                  *)
LEMMA WokenBounds ==
  ASSUME AdmInv, NEW n \in Nat, NEW W \in Woken(n)
  PROVE  /\ W \subseteq Pending /\ W \in SUBSET Gens /\ W \cap Holders = {}
         /\ Cardinality(W) \in Nat /\ Cardinality(W) <= n
         /\ Cardinality(W) = n \/ W = Pending
<1>1. W \subseteq Pending /\ Cardinality(W) <= n /\ (Cardinality(W) = n \/ W = Pending)
  BY DEF Woken
<1>2. W \in SUBSET Gens /\ W \cap Holders = {}
  BY <1>1 DEF Pending, Holders
<1>3. Cardinality(W) \in Nat
  BY <1>2, FiniteCallers
<1>. QED
  BY <1>1, <1>2, <1>3

(* The head of the queue leaves it and passes free slots on.               *)
LEMMA ResumeInv ==
  ASSUME AdmInv, NEW g \in Gens, Resume(g)
  PROVE  AdmInv'
<1> USE DEF AdmInv
<1>1. PICK W \in Woken(permits) :
        /\ gen' = [h \in Gens |-> IF h = g THEN "running"
                                  ELSE IF h \in W THEN "granted" ELSE gen[h]]
        /\ permits' = permits - Cardinality(W)
  BY DEF Resume, WakeOnResume
<1>2. /\ waiters # <<>> /\ g = Head(waiters) /\ gen[g] = "granted"
      /\ waiters' = Tail(waiters) /\ draining' = draining
  BY DEF Resume
<1>3. /\ waiters \in Seq(Gens) /\ gen \in [Gens -> GenStates]
      /\ permits \in Nat /\ permits <= MaxConcurrent
  BY MaxConcurrentAssumption DEF AdmTypeOK
<1>4. /\ W \subseteq Pending /\ W \in SUBSET Gens /\ W \cap Holders = {}
      /\ Cardinality(W) \in Nat /\ Cardinality(W) <= permits
      /\ Cardinality(W) = permits \/ W = Pending
  BY <1>3, WokenBounds
<1>. DEFINE n == Len(waiters)
<1>5. /\ n \in Nat /\ n > 0
      /\ DOMAIN waiters = 1 .. n /\ DOMAIN waiters' = 1 .. n - 1
      /\ \A i \in 1 .. n - 1 : waiters'[i] = waiters[i + 1]
      /\ \A i \in 1 .. n : waiters[i] \in Gens
      /\ waiters[1] = g
  BY <1>2, <1>3
<1>6. \A i \in 1 .. n - 1 : i + 1 \in 1 .. n /\ waiters[i + 1] # g
  BY <1>5 DEF QueueDistinct
<1>7. g \notin W
  BY <1>2, <1>4 DEF Pending
<1>8. AdmTypeOK'
  <2>1. gen' \in [Gens -> GenStates]
    BY <1>1, <1>3 DEF GenStates
  <2>2. waiters' \in Seq(Gens)
    BY <1>2, <1>3
  <2>3. permits' \in 0 .. MaxConcurrent
    BY <1>1, <1>3, <1>4, MaxConcurrentAssumption
  <2>4. draining' \in BOOLEAN
    BY <1>2 DEF AdmTypeOK
  <2>. QED
    BY <2>1, <2>2, <2>3, <2>4 DEF AdmTypeOK
<1>9. SlotSum'
  <2>1. Holders' = Holders \cup W
    BY <1>1, <1>2, <1>4 DEF Holders
  <2>2. Cardinality(Holders') = Cardinality(Holders) + Cardinality(W)
    <3>1. Holders \in SUBSET Gens
      BY DEF Holders
    <3>. QED
      BY <2>1, <3>1, <1>4, DisjointUnion
  <2>. QED
    BY <2>2, <1>1, <1>3, <1>4, FiniteCallers, MaxConcurrentAssumption DEF SlotSum
<1>10. QueueMembers'
  <2> SUFFICES ASSUME NEW h \in Gens
               PROVE  gen'[h] \in {"waiting", "granted"} <=> \E i \in 1 .. n - 1 : waiters'[i] = h
    BY <1>5 DEF QueueMembers
  <2>1. CASE h = g
    BY <2>1, <1>1, <1>5, <1>6
  <2>2. CASE h # g
    <3>1. gen'[h] \in {"waiting", "granted"} <=> gen[h] \in {"waiting", "granted"}
      BY <2>2, <1>1, <1>4 DEF Pending
    <3>2. (\E i \in 1 .. n : waiters[i] = h) => \E i \in 1 .. n - 1 : waiters'[i] = h
      <4> SUFFICES ASSUME NEW k \in 1 .. n, waiters[k] = h
                   PROVE  \E i \in 1 .. n - 1 : waiters'[i] = h
        OBVIOUS
      <4>1. k # 1
        BY <2>2, <1>5
      <4>2. k - 1 \in 1 .. n - 1 /\ (k - 1) + 1 = k
        BY <4>1, <1>5
      <4>. QED
        BY <4>2, <1>5
    <3>3. (\E i \in 1 .. n - 1 : waiters'[i] = h) => \E i \in 1 .. n : waiters[i] = h
      BY <1>5, <1>6
    <3>. QED
      BY <3>1, <3>2, <3>3, <1>5 DEF QueueMembers
  <2>. QED
    BY <2>1, <2>2
<1>11. QueueDistinct'
  <2> SUFFICES ASSUME NEW i \in 1 .. n - 1, NEW j \in 1 .. n - 1, waiters'[i] = waiters'[j]
               PROVE  i = j
    BY <1>5 DEF QueueDistinct
  <2>1. waiters[i + 1] = waiters[j + 1]
    BY <1>5
  <2>2. i + 1 = j + 1
    BY <2>1, <1>5, <1>6 DEF QueueDistinct
  <2>. QED
    BY <2>2
<1>12. GrantedFirst'
  <2> SUFFICES ASSUME NEW i \in 1 .. n - 1, NEW j \in 1 .. n - 1, i < j,
                      gen'[waiters'[j]] = "granted"
               PROVE  gen'[waiters'[i]] = "granted"
    BY <1>5 DEF GrantedFirst
  <2>1. /\ i + 1 \in DOMAIN waiters /\ j + 1 \in DOMAIN waiters /\ i + 1 < j + 1
        /\ waiters'[i] = waiters[i + 1] /\ waiters'[j] = waiters[j + 1]
        /\ waiters[i + 1] \in Gens \ {g} /\ waiters[j + 1] \in Gens \ {g}
    BY <1>5, <1>6
  <2>2. gen[waiters[j + 1]] = "granted" \/ waiters[j + 1] \in W
    BY <2>1, <1>1
  <2>3. gen[waiters[i + 1]] = "granted" \/ waiters[i + 1] \in W
    BY <2>1, <2>2, WakeKeepsOrder
  <2>. QED
    BY <2>1, <2>3, <1>1
<1>13. NoLostWakeup'
  <2>1. CASE Cardinality(W) = permits
    BY <2>1, <1>1, <1>3 DEF NoLostWakeup
  <2>2. CASE W = Pending
    <3>1. Pending' = {}
      BY <2>2, <1>1 DEF Pending
    <3>. QED
      BY <3>1 DEF NoLostWakeup
  <2>. QED
    BY <1>4, <2>1, <2>2
<1>. QED
  BY <1>8, <1>9, <1>10, <1>11, <1>12, <1>13

(* A slot is given back, or handed to the oldest sleeper.                  *)
LEMMA ReleaseInv ==
  ASSUME AdmInv, NEW g \in Gens, Release(g)
  PROVE  AdmInv'
<1> USE DEF AdmInv
<1>1. PICK W \in Woken(1) :
        /\ gen' = [h \in Gens |-> IF h = g THEN "idle"
                                  ELSE IF h \in W THEN "granted" ELSE gen[h]]
        /\ permits' = permits + 1 - Cardinality(W)
  BY DEF Release, WakeOnRelease
<1>2. gen[g] = "replied" /\ waiters' = waiters /\ draining' = draining
  BY DEF Release
<1>3. /\ waiters \in Seq(Gens) /\ gen \in [Gens -> GenStates]
      /\ permits \in Nat /\ permits <= MaxConcurrent
  BY MaxConcurrentAssumption DEF AdmTypeOK
<1>4. /\ W \subseteq Pending /\ W \in SUBSET Gens /\ W \cap Holders = {}
      /\ Cardinality(W) \in Nat /\ Cardinality(W) <= 1
      /\ Cardinality(W) = 1 \/ W = Pending
  BY WokenBounds
<1>5. g \in Holders /\ g \notin W
  BY <1>2, <1>4 DEF Holders
<1>6. \A i \in DOMAIN waiters : waiters[i] \in Gens \ {g}
  BY <1>2, <1>3 DEF QueueMembers
<1>7. SlotSum'
  <2>1. Holders' = (Holders \ {g}) \cup W
    BY <1>1, <1>4, <1>5 DEF Holders
  <2>2. Holders \ {g} \in SUBSET Gens /\ (Holders \ {g}) \cap W = {}
    BY <1>4 DEF Holders
  <2>3. Cardinality(Holders') = Cardinality(Holders \ {g}) + Cardinality(W)
    BY <2>1, <2>2, <1>4, DisjointUnion
  <2>4. Cardinality(Holders \ {g}) = Cardinality(Holders) - 1
    BY <1>5, FiniteCallers, FS_RemoveElement
  <2>. QED
    BY <2>3, <2>4, <1>1, <1>3, <1>4, FiniteCallers, MaxConcurrentAssumption DEF SlotSum
<1>8. AdmTypeOK'
  <2>1. gen' \in [Gens -> GenStates]
    BY <1>1, <1>3 DEF GenStates
  <2>2. permits' \in 0 .. MaxConcurrent
    <3>1. Holders' \in SUBSET Gens
      BY DEF Holders
    <3>2. Cardinality(Holders') \in Nat
      BY <3>1, FiniteCallers
    <3>3. permits' \in Nat
      BY <1>1, <1>3, <1>4
    <3>. QED
      BY <3>2, <3>3, <1>7, MaxConcurrentAssumption DEF SlotSum
  <2>3. draining' \in BOOLEAN /\ waiters' \in Seq(Gens)
    BY <1>2 DEF AdmTypeOK
  <2>. QED
    BY <2>1, <2>2, <2>3 DEF AdmTypeOK
<1>9. QueueMembers'
  <2>1. \A h \in Gens : gen'[h] \in {"waiting", "granted"} <=> gen[h] \in {"waiting", "granted"}
    BY <1>1, <1>2, <1>3, <1>4 DEF Pending
  <2>. QED
    BY <2>1, <1>2 DEF QueueMembers
<1>10. QueueDistinct'
  BY <1>2 DEF QueueDistinct
<1>11. GrantedFirst'
  <2> SUFFICES ASSUME NEW i \in DOMAIN waiters, NEW j \in DOMAIN waiters, i < j,
                      gen'[waiters[j]] = "granted"
               PROVE  gen'[waiters[i]] = "granted"
    BY <1>2 DEF GrantedFirst
  <2>1. gen[waiters[j]] = "granted" \/ waiters[j] \in W
    BY <1>1, <1>6
  <2>2. gen[waiters[i]] = "granted" \/ waiters[i] \in W
    BY <2>1, WakeKeepsOrder
  <2>. QED
    BY <2>2, <1>1, <1>6
<1>12. NoLostWakeup'
  <2>1. CASE W # {}
    <3>1. PICK h \in W : TRUE
      BY <2>1
    <3>. QED
      BY <3>1, <1>1, <1>4, <1>5 DEF NoLostWakeup
  <2>2. CASE W = {}
    <3>1. Pending = {}
      BY <2>2, <1>4, FS_EmptySet
    <3>2. Pending' = {}
      BY <3>1, <1>1 DEF Pending
    <3>. QED
      BY <3>2 DEF NoLostWakeup
  <2>. QED
    BY <2>1, <2>2
<1>. QED
  BY <1>7, <1>8, <1>9, <1>10, <1>11, <1>12

-----------------------------------------------------------------------------
(* The three refusals, the end of a refusal and the terminal reply.        *)
LEMMA QuietInv ==
  ASSUME AdmInv, NEW g \in Gens,
         Refuse(g) \/ Refused(g) \/ Answer(g)
  PROVE  AdmInv'
<1> USE DEF AdmInv
<1>1. UNCHANGED <<draining, permits, waiters>>
  BY DEF Refuse, Refused, Answer
<1>2. gen \in [Gens -> GenStates]
  BY DEF AdmTypeOK
<1>3. \/ gen[g] = "idle" /\ gen' = [gen EXCEPT ![g] = "refused"]
      \/ gen[g] = "refused" /\ gen' = [gen EXCEPT ![g] = "idle"]
      \/ gen[g] = "running" /\ gen' = [gen EXCEPT ![g] = "replied"]
  BY DEF Refuse, Refused, Answer
<1>4. gen' \in [Gens -> GenStates]
  BY <1>2, <1>3 DEF GenStates
<1>5. AdmTypeOK'
  BY <1>1, <1>4 DEF AdmTypeOK
<1>6. \A h \in Gens : gen'[h] = gen[h]
                     \/ {gen[h], gen'[h]} \subseteq {"idle", "refused"}
                     \/ {gen[h], gen'[h]} \subseteq {"running", "replied"}
  BY <1>2, <1>3
<1>. QED
  BY <1>1, <1>5, <1>6, SameSlots

LEMMA GenStepInv ==
  ASSUME AdmInv, NEW g \in Gens, GenStep(g)
  PROVE  AdmInv'
<1>1. CASE Acquire(g)
  BY <1>1, AcquireInv
<1>2. CASE Await(g)
  BY <1>2, AwaitInv
<1>3. CASE Resume(g)
  BY <1>3, ResumeInv
<1>4. CASE Release(g)
  BY <1>4, ReleaseInv
<1>5. CASE Refuse(g) \/ Refused(g) \/ Answer(g)
  BY <1>5, QuietInv
<1>. QED
  BY <1>1, <1>2, <1>3, <1>4, <1>5 DEF GenStep

(* The flag may change in any way, and a new process starts afresh.        *)
LEMMA AdmEnvInv ==
  ASSUME AdmInv, draining' \in BOOLEAN, UNCHANGED genVars
  PROVE  AdmInv'
<1>1. AdmTypeOK'
  BY DEF AdmInv, AdmTypeOK, genVars
<1>. QED
  BY <1>1, SameSlots DEF AdmInv, genVars

LEMMA AdmRestartInv == AdmRestart => AdmInv'
<1> SUFFICES ASSUME AdmRestart PROVE AdmInv'
  OBVIOUS
<1> USE DEF AdmRestart, GenRestart
<1>1. AdmTypeOK'
  <2>1. draining' \in BOOLEAN
    OBVIOUS
  <2>2. gen' \in [Gens -> GenStates]
    BY DEF GenStates
  <2>3. permits' \in 0 .. MaxConcurrent
    BY MaxConcurrentAssumption
  <2>4. waiters' \in Seq(Gens)
    OBVIOUS
  <2>. QED
    BY <2>1, <2>2, <2>3, <2>4 DEF AdmTypeOK
<1>2. SlotSum'
  <2>1. Holders' = {}
    BY DEF Holders
  <2>. QED
    BY <2>1, FS_EmptySet, MaxConcurrentAssumption DEF SlotSum
<1>3. QueueMembers' /\ QueueDistinct' /\ GrantedFirst'
  BY DEF QueueMembers, QueueDistinct, GrantedFirst
<1>4. NoLostWakeup'
  BY DEF NoLostWakeup, Pending
<1>. QED
  BY <1>1, <1>2, <1>3, <1>4 DEF AdmInv

LEMMA AdmNextInv == AdmInv /\ [AdmNext]_admVars => AdmInv'
<1> SUFFICES ASSUME AdmInv, [AdmNext]_admVars PROVE AdmInv'
  OBVIOUS
<1>1. ASSUME NEW g \in Gens, GenStep(g) PROVE AdmInv'
  BY <1>1, GenStepInv
<1>2. CASE BeginDrain
  BY <1>2, AdmEnvInv DEF BeginDrain
<1>3. CASE EndDrain
  BY <1>3, AdmEnvInv DEF EndDrain
<1>4. CASE AdmRestart
  BY <1>4, AdmRestartInv
<1>5. CASE UNCHANGED admVars
  BY <1>5, AdmEnvInv DEF admVars, AdmInv, AdmTypeOK
<1>. QED
  BY <1>1, <1>2, <1>3, <1>4, <1>5 DEF AdmNext

(* AdmInv is an invariant of admission.                                    *)
THEOREM AdmInvariance == AdmSpec => []AdmInv
<1>. QED
  BY AdmInitInv, AdmNextInv, PTL DEF AdmSpec

-----------------------------------------------------------------------------
(* What the invariant says.                                                *)

(* A full counter means an empty set of holders and an empty queue.        *)
LEMMA FullCounterIsIdle == AdmInv => IdleMeansNobody
<1> SUFFICES ASSUME AdmInv, permits = MaxConcurrent PROVE InFlight = {}
  BY DEF IdleMeansNobody
<1>1. Cardinality(Holders) = 0
  BY FiniteCallers, MaxConcurrentAssumption DEF AdmInv, SlotSum
<1>2. Holders = {}
  BY <1>1, FiniteCallers, FS_EmptySet
<1>3. permits > 0
  BY MaxConcurrentAssumption
<1>4. Pending = {}
  BY <1>2, <1>3 DEF AdmInv, NoLostWakeup, Holders
<1>. QED
  BY <1>2, <1>4 DEF InFlight

LEMMA CountsAreExact == AdmInv => SlotAccounting
<1> SUFFICES ASSUME AdmInv PROVE MaxConcurrent - permits = Cardinality(Holders)
  BY DEF SlotAccounting, ActiveRequests
<1>1. permits \in Nat /\ permits + Cardinality(Holders) = MaxConcurrent
  BY MaxConcurrentAssumption DEF AdmInv, AdmTypeOK, SlotSum
<1>. QED
  BY <1>1, FiniteCallers, MaxConcurrentAssumption

LEMMA QueueShape == AdmInv => QueueIsWaiters
<1> SUFFICES ASSUME AdmInv PROVE QueueIsWaiters
  OBVIOUS
<1>1. {waiters[i] : i \in DOMAIN waiters} = {g \in Gens : gen[g] \in {"waiting", "granted"}}
  <2>1. \A i \in DOMAIN waiters : waiters[i] \in Gens
    BY DEF AdmInv, AdmTypeOK
  <2>. QED
    BY <2>1 DEF AdmInv, QueueMembers
<1>. QED
  BY <1>1 DEF AdmInv, QueueIsWaiters, QueueDistinct, GrantedFirst

(* The counter stays between 0 and --max-concurrent.                       *)
THEOREM AdmTypeOKHolds == AdmSpec => []AdmTypeOK
<1>1. AdmInv => AdmTypeOK
  BY DEF AdmInv
<1>. QED
  BY <1>1, AdmInvariance, PTL

(* The heartbeat's active_requests is the number of slots in use, for any  *)
(* --max-concurrent.                                                       *)
THEOREM SlotAccountingHolds == AdmSpec => []SlotAccounting
<1>. QED
  BY AdmInvariance, CountsAreExact, PTL

(* _wait_sem_idle sees the counter at its maximum only when nobody is      *)
(* running and nobody is queued.                                           *)
THEOREM IdleMeansNobodyHolds == AdmSpec => []IdleMeansNobody
<1>. QED
  BY AdmInvariance, FullCounterIsIdle, PTL

(* The semaphore loses no wake-up.                                         *)
THEOREM NoLostWakeupHolds == AdmSpec => []NoLostWakeup
<1>1. AdmInv => NoLostWakeup
  BY DEF AdmInv
<1>. QED
  BY <1>1, AdmInvariance, PTL

(* The queue of futures is exactly the set of queued callers, in an order  *)
(* in which nobody granted stands behind a sleeper.                        *)
THEOREM QueueIsWaitersHolds == AdmSpec => []QueueIsWaiters
<1>. QED
  BY AdmInvariance, QueueShape, PTL

(* With --reject-when-full the queue is always empty.                      *)
THEOREM RejectNeverQueuesHolds == AdmSpec => []RejectNeverQueues
<1>1. AdmInit => RejectNeverQueues
  BY DEF AdmInit, GenInit, RejectNeverQueues
<1>2. AdmInv /\ RejectNeverQueues /\ [AdmNext]_admVars => RejectNeverQueues'
  <2> SUFFICES ASSUME AdmInv, RejectNeverQueues, [AdmNext]_admVars, RejectWhenFull
               PROVE  waiters' = <<>>
    BY DEF RejectNeverQueues
  <2>1. waiters = <<>>
    BY DEF RejectNeverQueues
  <2>2. ASSUME NEW g \in Gens, GenStep(g) PROVE waiters' = <<>>
    <3>1. ~Await(g) /\ ~Resume(g)
      BY <2>1 DEF Await, Resume, MayEnter, Full
    <3>2. waiters' = waiters
      BY <2>2, <3>1 DEF GenStep, Refuse, Refused,
                        Acquire, Answer, Release
    <3>. QED
      BY <2>1, <3>2
  <2>3. CASE BeginDrain \/ EndDrain \/ UNCHANGED admVars
    BY <2>1, <2>3 DEF BeginDrain, EndDrain, admVars, genVars
  <2>4. CASE AdmRestart
    BY <2>4 DEF AdmRestart, GenRestart
  <2>. QED
    BY <2>2, <2>3, <2>4 DEF AdmNext
<1>. QED
  BY <1>1, <1>2, AdmInvariance, PTL DEF AdmSpec

(* While the flag is set nobody enters, whatever the slots look like.      *)
THEOREM DrainOnlyShrinksHolds == AdmSpec => DrainOnlyShrinks
<1>1. AdmInv /\ [AdmNext]_admVars => [draining => InFlight' \subseteq InFlight]_admVars
  <2> SUFFICES ASSUME AdmInv, AdmNext, draining PROVE InFlight' \subseteq InFlight
    OBVIOUS
  <2> USE DEF InFlight, Holders, Pending
  <2>1. ASSUME NEW g \in Gens, GenStep(g) PROVE InFlight' \subseteq InFlight
    <3>1. gen \in [Gens -> GenStates]
      BY DEF AdmInv, AdmTypeOK
    <3>2. ~Acquire(g) /\ ~Await(g)
      BY DEF Acquire, Await, MayEnter
    <3>3. CASE Refuse(g) \/ Refused(g) \/ Answer(g)
      BY <3>1, <3>3 DEF Refuse, Refused, Answer
    <3>4. CASE Resume(g) \/ Release(g)
      BY <3>1, <3>4 DEF Resume, Release, WakeOnResume, WakeOnRelease, Woken
    <3>. QED
      BY <2>1, <3>2, <3>3, <3>4 DEF GenStep
  <2>2. CASE BeginDrain \/ EndDrain
    BY <2>2 DEF BeginDrain, EndDrain, genVars
  <2>3. CASE AdmRestart
    BY <2>3 DEF AdmRestart, GenRestart
  <2>. QED
    BY <2>1, <2>2, <2>3 DEF AdmNext
<1>. QED
  BY <1>1, AdmInvariance, PTL DEF AdmSpec, DrainOnlyShrinks

=============================================================================
