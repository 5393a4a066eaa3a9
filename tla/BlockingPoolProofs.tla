------------------------- MODULE BlockingPoolProofs -------------------------
(***************************************************************************)
(* Proofs about BlockingPool, for any finite number of threads and         *)
(* resources: resources are conserved, no wakeup is lost, and the pool     *)
(* implements ResourcePool.                                                *)
(***************************************************************************)
EXTENDS MCBlockingPool, FiniteSetTheorems, SequenceTheorems, TLAPS

\* The conserved part: who has what.
PoolInv == TypeOK /\ ControlInv /\ EachInOnePlace

-----------------------------------------------------------------------------
(* The vector. *)

\* Taking from the back of a vector without repetitions.
LEMMA TakeFromBack ==
    ASSUME NEW s \in Seq(Resource), s # <<>>,
           \A n, m \in DOMAIN s : s[n] = s[m] => n = m
    PROVE  LET rest == SubSeq(s, 1, Len(s) - 1)
               last == s[Len(s)]
           IN  /\ rest \in Seq(Resource)
               /\ Len(rest) = Len(s) - 1
               /\ last \in Resource
               /\ \A n, m \in DOMAIN rest : rest[n] = rest[m] => n = m
               /\ { rest[n] : n \in DOMAIN rest } = { s[n] : n \in DOMAIN s } \ {last}
<1> DEFINE rest == SubSeq(s, 1, Len(s) - 1)
           last == s[Len(s)]
<1>1. Len(s) \in Nat \ {0} /\ DOMAIN s = 1..Len(s)
  OBVIOUS
<1>2. /\ rest \in Seq(Resource) /\ Len(rest) = Len(s) - 1
      /\ DOMAIN rest = 1..(Len(s) - 1)
      /\ \A n \in 1..(Len(s) - 1) : rest[n] = s[n]
  BY <1>1
<1>3. last \in Resource
  BY <1>1
<1> HIDE DEF rest, last
<1>4. \A n, m \in DOMAIN rest : rest[n] = rest[m] => n = m
  BY <1>1, <1>2
<1>5. { rest[n] : n \in DOMAIN rest } = { s[n] : n \in DOMAIN s } \ {last}
  <2>1. \A n \in DOMAIN rest : n \in DOMAIN s /\ rest[n] = s[n] /\ s[n] # last
    BY <1>1, <1>2 DEF last
  <2>2. \A n \in DOMAIN s : s[n] # last => n \in DOMAIN rest /\ rest[n] = s[n]
    BY <1>1, <1>2 DEF last
  <2> QED BY <2>1, <2>2
<1> QED BY <1>2, <1>3, <1>4, <1>5 DEF rest, last

\* Returning a resource that is not there.
LEMMA ReturnToBack ==
    ASSUME NEW s \in Seq(Resource), NEW r \in Resource,
           r \notin { s[n] : n \in DOMAIN s },
           \A n, m \in DOMAIN s : s[n] = s[m] => n = m
    PROVE  LET more == Append(s, r)
           IN  /\ more \in Seq(Resource)
               /\ Len(more) = Len(s) + 1
               /\ \A n, m \in DOMAIN more : more[n] = more[m] => n = m
               /\ { more[n] : n \in DOMAIN more } = { s[n] : n \in DOMAIN s } \cup {r}
<1> DEFINE more == Append(s, r)
<1>1. /\ Len(s) \in Nat /\ DOMAIN s = 1..Len(s)
      /\ more \in Seq(Resource) /\ Len(more) = Len(s) + 1
      /\ DOMAIN more = 1..(Len(s) + 1)
      /\ \A n \in 1..Len(s) : more[n] = s[n]
      /\ more[Len(s) + 1] = r
  OBVIOUS
<1> HIDE DEF more
<1>2. \A n, m \in DOMAIN more : more[n] = more[m] => n = m
  BY <1>1
<1>3. { more[n] : n \in DOMAIN more } = { s[n] : n \in DOMAIN s } \cup {r}
  BY <1>1
<1> QED BY <1>1, <1>2, <1>3 DEF more

LEMMA InitPool == Init => PoolInv
<1> SUFFICES ASSUME Init PROVE PoolInv
  OBVIOUS
<1> DEFINE n == Cardinality(Resource)
<1>1. n \in Nat
  BY FS_CardinalityType, PoolAssumption
<1>2. free \in [1..n -> Resource] /\ \A k, m \in 1..n : free[k] = free[m] => k = m
  BY DEF Init
<1> HIDE DEF n
<1>3. free \in Seq(Resource)
  BY <1>1, <1>2, SeqDef
<1>4. TypeOK
  BY <1>3, PoolAssumption DEF Init, TypeOK, Control
<1>5. ControlInv
  BY DEF Init, ControlInv
<1>6. free \in Injection(1..n, Resource)
  BY <1>2 DEF Injection, IsInjective
<1>7. IsFiniteSet(1..n) /\ Cardinality(1..n) = n
  <2>1. Cardinality(1..n) = IF 1 > n THEN 0 ELSE n - 1 + 1
    BY <1>1, FS_Interval
  <2>2. Cardinality(1..n) = n
    BY <1>1, <2>1
  <2> QED BY <1>1, <2>2, FS_Interval
<1>8. free \in Surjection(1..n, Resource)
  BY <1>6, <1>7, FS_Injection, PoolAssumption DEF n
<1>9. FreeSet = Resource
  BY <1>2, <1>8 DEF Surjection, FreeSet
<1>10. EachInOnePlace
  BY <1>2, <1>9 DEF Init, EachInOnePlace
<1> QED BY <1>4, <1>5, <1>10 DEF PoolInv

\* Steps that move no resource.
LEMMA QuietStep ==
    ASSUME PoolInv, TypeOK', ControlInv', UNCHANGED <<free, held>>
    PROVE  PoolInv'
BY DEF PoolInv, EachInOnePlace, FreeSet

LEMMA TakeStep ==
    ASSUME PoolInv, NEW t \in Thread, Take(t)
    PROVE  /\ PoolInv' /\ Pool!Take(t)
           /\ Len(free') = Len(free) - 1
<1> USE DEF PoolInv
<1> DEFINE last == free[Len(free)]
<1>1. /\ free \in Seq(Resource) /\ free # <<>> /\ mutex = {t}
      /\ pc[t] = "check" /\ held[t] = {}
      /\ free' = SubSeq(free, 1, Len(free) - 1)
      /\ held' = [held EXCEPT ![t] = {last}]
      /\ pc' = [pc EXCEPT ![t] = "holding"] /\ mutex' = {}
      /\ UNCHANGED counters
  BY DEF Take, Goto, TypeOK, ControlInv
<1>2. /\ free' \in Seq(Resource) /\ Len(free') = Len(free) - 1 /\ last \in Resource
      /\ \A n, m \in DOMAIN free' : free'[n] = free'[m] => n = m
      /\ FreeSet' = FreeSet \ {last}
  <2>1. \A n, m \in DOMAIN free : free[n] = free[m] => n = m
    BY DEF EachInOnePlace
  <2>2. /\ SubSeq(free, 1, Len(free) - 1) \in Seq(Resource)
        /\ Len(SubSeq(free, 1, Len(free) - 1)) = Len(free) - 1
        /\ last \in Resource
        /\ \A n, m \in DOMAIN SubSeq(free, 1, Len(free) - 1) :
              SubSeq(free, 1, Len(free) - 1)[n] = SubSeq(free, 1, Len(free) - 1)[m]
                => n = m
        /\ { SubSeq(free, 1, Len(free) - 1)[n] :
                n \in DOMAIN SubSeq(free, 1, Len(free) - 1) } = FreeSet \ {last}
    BY <1>1, <2>1, TakeFromBack, Zenon DEF FreeSet
  <2>3. FreeSet' = { free'[n] : n \in DOMAIN free' }
    BY DEF FreeSet
  <2> QED BY <1>1, <2>2, <2>3, Zenon
<1>3. last \in FreeSet
  BY <1>1 DEF FreeSet
<1> HIDE DEF last
<1>4. TypeOK'
  BY <1>1, <1>2 DEF TypeOK, Control, counters
<1>5. ControlInv'
  BY <1>1, <1>2 DEF ControlInv, TypeOK
<1>6. EachInOnePlace'
  <2>1. \A u \in Thread : held'[u] \cap FreeSet' = {}
    BY <1>1, <1>2 DEF EachInOnePlace, TypeOK
  <2>2. \A u, v \in Thread : held'[u] \cap held'[v] # {} => u = v
    BY <1>1, <1>3 DEF EachInOnePlace, TypeOK
  <2>3. UNION { held'[u] : u \in Thread } = {last} \cup UNION { held[u] : u \in Thread }
    BY <1>1 DEF TypeOK
  <2>4. FreeSet' \cup UNION { held'[u] : u \in Thread } = Resource
    BY <1>2, <1>3, <2>3 DEF EachInOnePlace
  <2> QED BY <1>2, <2>1, <2>2, <2>4 DEF EachInOnePlace
<1>7. Pool!Take(t)
  BY <1>1, <1>2, <1>3 DEF Pool!Take
<1> QED BY <1>2, <1>4, <1>5, <1>6, <1>7

LEMMA PushStep ==
    ASSUME PoolInv, NEW t \in Thread, Push(t)
    PROVE  /\ PoolInv' /\ Pool!Give(t)
           /\ Len(free') = Len(free) + 1
<1> USE DEF PoolInv
<1>1. PICK r \in Resource : held[t] = {r}
  BY DEF Push, ControlInv
<1>2. /\ free \in Seq(Resource) /\ mutex = {t}
      /\ pc[t] = "push" /\ free' = Append(free, r)
      /\ held' = [held EXCEPT ![t] = {}]
      /\ pc' = [pc EXCEPT ![t] = "notify"] /\ mutex' = {}
      /\ UNCHANGED counters
  BY <1>1 DEF Push, Goto, TypeOK, ControlInv
<1>3. r \notin FreeSet
  BY <1>1 DEF EachInOnePlace
<1>4. /\ free' \in Seq(Resource) /\ Len(free') = Len(free) + 1
      /\ \A n, m \in DOMAIN free' : free'[n] = free'[m] => n = m
      /\ FreeSet' = FreeSet \cup {r}
  BY <1>2, <1>3, ReturnToBack DEF EachInOnePlace, FreeSet
<1>5. TypeOK'
  BY <1>2, <1>4 DEF TypeOK, Control, counters
<1>6. ControlInv'
  BY <1>2 DEF ControlInv, TypeOK
<1>7. EachInOnePlace'
  <2>1. \A u \in Thread : held'[u] \cap FreeSet' = {}
    BY <1>1, <1>2, <1>4 DEF EachInOnePlace, TypeOK
  <2>2. \A u, v \in Thread : held'[u] \cap held'[v] # {} => u = v
    BY <1>2 DEF EachInOnePlace, TypeOK
  <2>3. {r} \cup UNION { held'[u] : u \in Thread } = UNION { held[u] : u \in Thread }
    BY <1>1, <1>2 DEF TypeOK
  <2>4. FreeSet' \cup UNION { held'[u] : u \in Thread } = Resource
    BY <1>4, <2>3 DEF EachInOnePlace
  <2> QED BY <1>4, <2>1, <2>2, <2>4 DEF EachInOnePlace
<1>8. Pool!Give(t)
  BY <1>1, <1>2, <1>4 DEF Pool!Give
<1> QED BY <1>4, <1>5, <1>6, <1>7, <1>8

LEMMA PoolStep ==
    ASSUME PoolInv, [Next]_vars
    PROVE  PoolInv' /\ [Pool!Next]_<<FreeSet, held>>
<1> USE DEF PoolInv
<1>1. ASSUME NEW t \in Thread, Call(t) \/ SpuriousWakeup(t)
      PROVE  PoolInv' /\ UNCHANGED <<FreeSet, held>>
  <2>1. UNCHANGED <<free, held, mutex>>
    BY <1>1 DEF Call, SpuriousWakeup
  <2>2. TypeOK'
    <3>1. /\ free' \in Seq(Resource) /\ mutex' \in SUBSET Thread
          /\ held' \in [Thread -> SUBSET Resource]
      BY <2>1 DEF TypeOK
    <3>2. pc' \in [Thread -> Control]
      BY <1>1 DEF Call, SpuriousWakeup, Goto, TypeOK, Control
    <3>3. calls' \in [Thread -> 0..MaxCalls] /\ spurious' \in 0..MaxSpurious
      BY <1>1, PoolAssumption DEF Call, SpuriousWakeup, TypeOK
    <3> QED BY <3>1, <3>2, <3>3 DEF TypeOK
  <2>3. ControlInv'
    <3>1. CASE Call(t)
      BY <3>1 DEF Call, ControlInv, TypeOK, Goto
    <3>2. CASE SpuriousWakeup(t)
      BY <3>2 DEF SpuriousWakeup, ControlInv, TypeOK, Goto
    <3> QED BY <1>1, <3>1, <3>2
  <2> QED BY <2>1, <2>2, <2>3, QuietStep DEF FreeSet
<1>2. ASSUME NEW t \in Thread, Lock(t) \/ LockToRelease(t) \/ Wait(t) \/ Drop(t)
      PROVE  PoolInv' /\ UNCHANGED <<FreeSet, held>>
  <2>1. UNCHANGED <<free, held>>
    BY <1>2 DEF Lock, LockToRelease, Wait, Drop
  <2>2. TypeOK'
    BY <1>2 DEF Lock, LockToRelease, Wait, Drop, TypeOK, Control, Goto, counters
  <2>3. ControlInv'
    <3>1. CASE Lock(t)
      BY <3>1 DEF Lock, ControlInv, TypeOK, Goto
    <3>2. CASE LockToRelease(t)
      BY <3>2 DEF LockToRelease, ControlInv, TypeOK, Goto
    <3>3. CASE Wait(t)
      BY <3>3 DEF Wait, ControlInv, TypeOK, Goto
    <3>4. CASE Drop(t)
      BY <3>4 DEF Drop, ControlInv, TypeOK, Goto
    <3> QED BY <1>2, <3>1, <3>2, <3>3, <3>4
  <2> QED BY <2>1, <2>2, <2>3, QuietStep DEF FreeSet
<1>3. ASSUME NEW t \in Thread, Notify(t)
      PROVE  PoolInv' /\ UNCHANGED <<FreeSet, held>>
  <2>1. UNCHANGED <<free, held, mutex, counters>>
    BY <1>3 DEF Notify
  <2>2. TypeOK'
    BY <1>3 DEF Notify, TypeOK, Control, Goto, counters
  <2>3. ControlInv'
    BY <1>3 DEF Notify, ControlInv, TypeOK, Goto, Waiting
  <2> QED BY <2>1, <2>2, <2>3, QuietStep DEF FreeSet
<1>4. ASSUME UNCHANGED vars
      PROVE  PoolInv' /\ UNCHANGED <<FreeSet, held>>
  <2>1. TypeOK' /\ ControlInv'
    BY <1>4 DEF vars, counters, TypeOK, ControlInv
  <2> QED BY <1>4, <2>1, QuietStep DEF vars, FreeSet
<1> QED
  BY <1>1, <1>2, <1>3, <1>4, TakeStep, PushStep DEF Next, Step, Finished, Pool!Next

\* No resource is ever lent twice, returned twice or lost.
THEOREM ResourcesConserved == Spec => []EachInOnePlace
<1>1. PoolInv => EachInOnePlace
  BY DEF PoolInv
<1> QED BY <1>1, InitPool, PoolStep, PTL DEF Spec

\* Every variable has its type.
THEOREM PoolTypeCorrect == Spec => []TypeOK
<1>1. PoolInv => TypeOK
  BY DEF PoolInv
<1> QED BY <1>1, InitPool, PoolStep, PTL DEF Spec

\* The pool is one whose resources are taken and given back at one moment.
THEOREM PoolRefinement == Spec => ImplementsResourcePool
<1>1. Init => Pool!Init
  <2> SUFFICES ASSUME Init PROVE Pool!Init
    OBVIOUS
  <2>1. EachInOnePlace
    BY InitPool DEF PoolInv
  <2>2. held = [u \in Thread |-> {}] /\ UNION { held[u] : u \in Thread } = {}
    BY DEF Init
  <2> QED BY <2>1, <2>2 DEF EachInOnePlace, Pool!Init
<1> QED BY <1>1, InitPool, PoolStep, PTL DEF Spec, ImplementsResourcePool, Pool!Spec
-----------------------------------------------------------------------------
(* No wakeup is lost: every step keeps the count of threads that are awake   *)
(* up with the count of free resources.                                      *)

\* Adding one thread that was not awake, and removing one that was.
LEMMA AwakeFinite == IsFiniteSet(Awake) /\ Cardinality(Awake) \in Nat
  BY FS_Subset, FS_CardinalityType, PoolAssumption DEF Awake

LEMMA OneMoreAwake ==
    ASSUME NEW t \in Thread, t \notin Awake, Awake' = Awake \cup {t}
    PROVE  Cardinality(Awake') = Cardinality(Awake) + 1
  BY AwakeFinite, FS_AddElement

LEMMA OneLessAwake ==
    ASSUME NEW t \in Thread, t \in Awake, Awake' = Awake \ {t}
    PROVE  Cardinality(Awake') = Cardinality(Awake) - 1
  BY AwakeFinite, FS_RemoveElement

LEMMA WakeupStep ==
    ASSUME PoolInv, NoLostWakeup, [Next]_vars
    PROVE  NoLostWakeup'
<1> USE DEF PoolInv
<1>0. Len(free) \in Nat /\ Cardinality(Awake) \in Nat
  BY AwakeFinite DEF TypeOK
<1>1. ASSUME NEW t \in Thread, Call(t) PROVE NoLostWakeup'
  <2>1. free' = free /\ Waiting' = Waiting /\ Awake' = Awake
    BY <1>1 DEF Call, Goto, TypeOK, Waiting, Awake
  <2> QED BY <2>1 DEF NoLostWakeup
<1>2. ASSUME NEW t \in Thread, SpuriousWakeup(t) PROVE NoLostWakeup'
  <2>1. free' = free /\ t \in Waiting
    BY <1>2 DEF SpuriousWakeup, Waiting
  <2>2. t \notin Awake /\ Awake' = Awake \cup {t}
    BY <1>2 DEF SpuriousWakeup, Goto, TypeOK, Awake
  <2>3. Cardinality(Awake') = Cardinality(Awake) + 1
    BY <2>2, OneMoreAwake, Zenon
  <2> QED BY <1>0, <2>1, <2>2, <2>3 DEF NoLostWakeup
<1>3. ASSUME NEW t \in Thread, Lock(t) PROVE NoLostWakeup'
  <2>1. free' = free /\ Waiting' = Waiting /\ Awake' = Awake \cup {t}
    BY <1>3 DEF Lock, Goto, TypeOK, Waiting, Awake
  <2>2. CASE t \in Awake
    <3>1. Awake' = Awake
      BY <2>1, <2>2
    <3> QED BY <2>1, <3>1 DEF NoLostWakeup
  <2>3. CASE t \notin Awake
    <3>1. Cardinality(Awake') = Cardinality(Awake) + 1
      BY <2>1, <2>3, OneMoreAwake, Zenon
    <3> QED BY <1>0, <2>1, <3>1 DEF NoLostWakeup
  <2> QED BY <2>2, <2>3
\* A thread goes to sleep only where nothing is free.
<1>4. ASSUME NEW t \in Thread, Wait(t) PROVE NoLostWakeup'
  <2>1. Len(free') = 0
    BY <1>4 DEF Wait
  <2>2. Cardinality(Awake') \in Nat
    <3>1. IsFiniteSet(Awake')
      BY FS_Subset, PoolAssumption DEF Awake
    <3> QED BY <3>1, FS_CardinalityType
  <2> QED BY <2>1, <2>2 DEF NoLostWakeup
\* One awake thread less, and one resource less.
<1>5. ASSUME NEW t \in Thread, Take(t) PROVE NoLostWakeup'
  <2>1. Len(free') = Len(free) - 1
    BY <1>5, TakeStep
  <2>2. Waiting' = Waiting /\ t \in Awake /\ Awake' = Awake \ {t}
    BY <1>5 DEF Take, Goto, TypeOK, Waiting, Awake
  <2>3. Cardinality(Awake') = Cardinality(Awake) - 1
    BY <2>2, OneLessAwake, Zenon
  <2> QED BY <1>0, <2>1, <2>2, <2>3 DEF NoLostWakeup
<1>6. ASSUME NEW t \in Thread, Drop(t) \/ LockToRelease(t) PROVE NoLostWakeup'
  <2>1. free' = free /\ Waiting' = Waiting /\ Awake' = Awake
    BY <1>6 DEF Drop, LockToRelease, Goto, TypeOK, Waiting, Awake
  <2> QED BY <2>1 DEF NoLostWakeup
\* One resource more, and the thread that still has to notify.
<1>7. ASSUME NEW t \in Thread, Push(t) PROVE NoLostWakeup'
  <2>1. Len(free') = Len(free) + 1
    BY <1>7, PushStep
  <2>2. Waiting' = Waiting /\ t \notin Awake /\ Awake' = Awake \cup {t}
    BY <1>7 DEF Push, Goto, TypeOK, Waiting, Awake
  <2>3. Cardinality(Awake') = Cardinality(Awake) + 1
    BY <2>2, OneMoreAwake, Zenon
  <2> QED BY <1>0, <2>1, <2>2, <2>3 DEF NoLostWakeup
\* The thread that wakes takes the place of the one that woke it.
<1>8. ASSUME NEW t \in Thread, Notify(t) PROVE NoLostWakeup'
  <2>1. free' = free
    BY <1>8 DEF Notify
  <2>2. CASE Waiting = {}
    <3>1. Waiting' = {}
      BY <1>8, <2>2 DEF Notify, Goto, TypeOK, Waiting
    <3> QED BY <3>1 DEF NoLostWakeup
  <2>3. CASE Waiting # {}
    <3>1. PICK w \in Waiting : pc' = [pc EXCEPT ![t] = "idle", ![w] = "relock"]
      BY <1>8, <2>3 DEF Notify
    <3>2. /\ w \in Thread /\ w # t /\ t \in Awake /\ w \notin Awake
          /\ Awake' = (Awake \ {t}) \cup {w}
      BY <1>8, <3>1 DEF Notify, TypeOK, Waiting, Awake
    <3>3. /\ IsFiniteSet(Awake \ {t})
          /\ Cardinality(Awake \ {t}) = Cardinality(Awake) - 1
      BY <3>2, AwakeFinite, FS_RemoveElement
    <3>4. Cardinality((Awake \ {t}) \cup {w}) = Cardinality(Awake \ {t}) + 1
      BY <3>2, <3>3, FS_AddElement
    <3>5. Cardinality(Awake') = Cardinality(Awake)
      BY <1>0, <3>2, <3>3, <3>4
    <3> QED BY <2>1, <2>3, <3>5 DEF NoLostWakeup
  <2> QED BY <2>2, <2>3
<1>9. ASSUME UNCHANGED vars PROVE NoLostWakeup'
  BY <1>9 DEF vars, NoLostWakeup, Waiting, Awake
<1> QED
  BY <1>1, <1>2, <1>3, <1>4, <1>5, <1>6, <1>7, <1>8, <1>9 DEF Next, Step, Finished

\* Nobody sleeps beside a free resource unless somebody is awake for it.
THEOREM WakeupsNotLost == Spec => []NoLostWakeup
<1>1. Init => NoLostWakeup
  BY DEF Init, NoLostWakeup, Waiting
<1> QED BY <1>1, InitPool, PoolStep, WakeupStep, PTL DEF Spec
=============================================================================
