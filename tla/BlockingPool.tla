---------------------------- MODULE BlockingPool ----------------------------
(***************************************************************************)
(* detail/blocking_pool.hpp: a vector of free resources behind a mutex, and *)
(* a condition variable for the threads that find it empty.  Both users of *)
(* the pool, DenseIndex's search slots and the read connections, take one  *)
(* handle per call and drop it when the call's scope ends.                 *)
(*                                                                         *)
(* Waiting on the condition variable releases the mutex in the same step;  *)
(* a waiting thread wakes when it is notified, or for no reason at all, and *)
(* then competes for the mutex with threads that have just called.         *)
(***************************************************************************)
EXTENDS Integers, Sequences, FiniteSets

CONSTANTS
    Thread,     \* the threads that call Acquire
    Resource,   \* what the pool was constructed with
    MaxCalls,   \* bound: calls of Acquire a thread makes
    MaxSpurious \* bound: wakeups nobody asked for

ASSUME PoolAssumption ==
    /\ IsFiniteSet(Thread)
    /\ IsFiniteSet(Resource)
    /\ MaxCalls \in Nat
    /\ MaxSpurious \in Nat

VARIABLES
    free,    \* free_, taken from the back and returned to the back
    mutex,   \* the holder of mutex_: {} or a singleton
    pc,      \* where each thread is
    held,    \* what its Handle holds: {} or a singleton
    calls,   \* how often it has called Acquire
    spurious \* how many spurious wakeups there have been

counters == <<calls, spurious>>
vars == <<free, mutex, pc, held, counters>>

Goto(t, l) == pc' = [pc EXCEPT ![t] = l]

\* The vector the pool is constructed from lists every resource once.
Init ==
    /\ free \in { s \in [1..Cardinality(Resource) -> Resource] :
                    \A n, m \in DOMAIN s : s[n] = s[m] => n = m }
    /\ mutex = {}
    /\ pc = [t \in Thread |-> "idle"]
    /\ held = [t \in Thread |-> {}]
    /\ calls = [t \in Thread |-> 0]
    /\ spurious = 0

-----------------------------------------------------------------------------
(* Acquire *)

Call(t) ==
    /\ pc[t] = "idle"
    /\ calls[t] < MaxCalls
    /\ calls' = [calls EXCEPT ![t] = @ + 1]
    /\ Goto(t, "lock")
    /\ UNCHANGED <<free, mutex, held, spurious>>

\* The unique_lock of a new call, or the relocking inside wait().
Lock(t) ==
    /\ pc[t] \in {"lock", "relock"}
    /\ mutex = {}
    /\ mutex' = {t}
    /\ Goto(t, "check")
    /\ UNCHANGED <<free, held, counters>>

\* Mutant: instead of sleeping, a thread tries again.
WaitPolling(t) ==
    /\ pc[t] = "check"
    /\ free = <<>>
    /\ mutex' = {}
    /\ Goto(t, "relock")
    /\ UNCHANGED <<free, held, counters>>

\* The predicate of wait() is false: sleep.
Wait(t) ==
    /\ pc[t] = "check"
    /\ free = <<>>
    /\ mutex' = {}
    /\ Goto(t, "waiting")
    /\ UNCHANGED <<free, held, counters>>

\* Mutant: the resource is copied from the back but not popped.
TakeWithoutPop(t) ==
    /\ pc[t] = "check"
    /\ free # <<>>
    /\ held' = [held EXCEPT ![t] = {free[Len(free)]}]
    /\ mutex' = {}
    /\ Goto(t, "holding")
    /\ UNCHANGED <<free, counters>>

\* It is true: move the last free resource into the Handle, unlock, return.
Take(t) ==
    /\ pc[t] = "check"
    /\ free # <<>>
    /\ held' = [held EXCEPT ![t] = {free[Len(free)]}]
    /\ free' = SubSeq(free, 1, Len(free) - 1)
    /\ mutex' = {}
    /\ Goto(t, "holding")
    /\ UNCHANGED counters

SpuriousWakeup(t) ==
    /\ pc[t] = "waiting"
    /\ spurious < MaxSpurious
    /\ spurious' = spurious + 1
    /\ Goto(t, "relock")
    /\ UNCHANGED <<free, mutex, held, calls>>

-----------------------------------------------------------------------------
(* ~Handle and Release *)

Drop(t) ==
    /\ pc[t] = "holding"
    /\ Goto(t, "release")
    /\ UNCHANGED <<free, mutex, held, counters>>

LockToRelease(t) ==
    /\ pc[t] = "release"
    /\ mutex = {}
    /\ mutex' = {t}
    /\ Goto(t, "push")
    /\ UNCHANGED <<free, held, counters>>

\* Mutant: Release puts back what has been moved out of already.
PushMovedFrom(t) ==
    /\ pc[t] = "push"
    /\ free' = Append(free, "moved from")
    /\ held' = [held EXCEPT ![t] = {}]
    /\ mutex' = {}
    /\ Goto(t, "notify")
    /\ UNCHANGED counters

\* Mutant: a Handle that was moved from still returns the resource.
PushTwice(t) ==
    /\ pc[t] = "push"
    /\ \E r \in held[t] : free' = free \o <<r, r>>
    /\ held' = [held EXCEPT ![t] = {}]
    /\ mutex' = {}
    /\ Goto(t, "notify")
    /\ UNCHANGED counters

Push(t) ==
    /\ pc[t] = "push"
    /\ \E r \in held[t] : free' = Append(free, r)
    /\ held' = [held EXCEPT ![t] = {}]
    /\ mutex' = {}
    /\ Goto(t, "notify")
    /\ UNCHANGED counters

Waiting == { t \in Thread : pc[t] = "waiting" }

\* Mutant: the waiter is notified only when the vector was empty before.
NotifyIfWasEmpty(t) ==
    /\ pc[t] = "notify"
    /\ IF Waiting = {} \/ Len(free) > 1
       THEN Goto(t, "idle")
       ELSE \E w \in Waiting : pc' = [pc EXCEPT ![t] = "idle", ![w] = "relock"]
    /\ UNCHANGED <<free, mutex, held, counters>>

\* notify_one(), after the mutex has been given back: one waiter wakes, if any.
Notify(t) ==
    /\ pc[t] = "notify"
    /\ IF Waiting = {}
       THEN Goto(t, "idle")
       ELSE \E w \in Waiting : pc' = [pc EXCEPT ![t] = "idle", ![w] = "relock"]
    /\ UNCHANGED <<free, mutex, held, counters>>

-----------------------------------------------------------------------------
\* What a thread does once it has called; the caller's own steps are Call, and
\* a spurious wakeup is nobody's.
Step(t) ==
    \/ Lock(t) \/ Wait(t) \/ Take(t)
    \/ Drop(t) \/ LockToRelease(t) \/ Push(t) \/ Notify(t)

\* Every call has been made and every handle dropped.
Finished ==
    /\ \A t \in Thread : pc[t] = "idle" /\ calls[t] = MaxCalls
    /\ UNCHANGED vars

Next ==
    \/ \E t \in Thread : Call(t) \/ SpuriousWakeup(t) \/ Step(t)
    \/ Finished

Spec == Init /\ [][Next]_vars

\* A thread that can go on does; a Handle lives no longer than its call.
FairSpec == Spec /\ \A t \in Thread : WF_vars(Step(t))

-----------------------------------------------------------------------------
(* Properties. *)

Control == {"idle", "lock", "check", "waiting", "relock", "holding", "release",
            "push", "notify"}

\* Every variable has its type.
TypeOK ==
    /\ free \in Seq(Resource)
    /\ mutex \in SUBSET Thread
    /\ pc \in [Thread -> Control]
    /\ held \in [Thread -> SUBSET Resource]
    /\ calls \in [Thread -> 0..MaxCalls]
    /\ spurious \in 0..MaxSpurious

FreeSet == { free[n] : n \in DOMAIN free }

\* No resource is lent twice, returned twice or lost: the free ones are listed
\* once, and each is free or with exactly one thread.
EachInOnePlace ==
    /\ \A n, m \in DOMAIN free : free[n] = free[m] => n = m
    /\ \A t \in Thread : held[t] \cap FreeSet = {}
    /\ \A t, u \in Thread : held[t] \cap held[u] # {} => t = u
    /\ FreeSet \cup UNION { held[t] : t \in Thread } = Resource

\* Threads on their way to the free resources, or to waking one that is.
Awake == { t \in Thread : pc[t] \in {"notify", "relock", "check"} }

\* No lost wakeup: although notify_one comes after the unlock, and although a
\* newcomer may take what a notified thread was woken for, sleeping threads
\* never outlast the free resources without somebody awake for each of them.
NoLostWakeup == Waiting # {} => Len(free) <= Cardinality(Awake)

\* Who has the mutex, and who has a resource, is read off where threads are.
ControlInv ==
    /\ \A t \in Thread : t \in mutex <=> pc[t] \in {"check", "push"}
    /\ \A t, u \in mutex : t = u
    /\ \A t \in Thread :
        IF pc[t] \in {"holding", "release", "push"}
        THEN \E r \in Resource : held[t] = {r}
        ELSE held[t] = {}

\* Every Acquire returns, when threads call finitely often (a thread may be
\* overtaken by newcomers for as long as they keep coming), spurious wakeups
\* end and handles are dropped.
AcquireReturns ==
    \A t \in Thread : pc[t] = "lock" ~> pc[t] = "holding"
=============================================================================
