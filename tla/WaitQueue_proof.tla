--------------------------- MODULE WaitQueue_proof ---------------------------
(***************************************************************************)
(* Proofs about WaitQueue: its queue is well formed and holds every        *)
(* sleeping task, for any set of tasks and any interference from outside;  *)
(* and no wakeup is lost when there is no such interference.               *)
(***************************************************************************)
EXTENDS WaitQueue, QueueLemmas, FiniteSetTheorems, SequenceTheorems, TLAPS

(***************************************************************************)
(* What a queue loses and keeps when its first i entries are dropped, when *)
(* one entry is removed and when a task is appended.                       *)
(***************************************************************************)
Injective(q) == \A i, j \in DOMAIN q : q[i] = q[j] => i = j

LEMMA DropFacts ==
  ASSUME NEW S, NEW q \in Seq(S), NEW i \in DOMAIN q
  PROVE  LET r == SubSeq(q, i + 1, Len(q)) IN
         /\ r \in Seq(S)
         /\ Waiters(r) \subseteq Waiters(q)
         /\ \A j \in DOMAIN q : j > i => q[j] \in Waiters(r)
         /\ Injective(q) => Injective(r) /\ q[i] \notin Waiters(r)
<1> DEFINE r == SubSeq(q, i + 1, Len(q))
<1>1. i \in Nat /\ 1 <= i /\ i <= Len(q) /\ Len(q) \in Nat
  OBVIOUS
<1>2. /\ r \in Seq(S) /\ Len(r) = Len(q) - i /\ DOMAIN r = 1..(Len(q) - i)
      /\ \A j \in 1..(Len(q) - i) : r[j] = q[i + j]
  BY <1>1
<1> HIDE DEF r
<1>3. \A j \in DOMAIN r : i + j \in DOMAIN q /\ i + j > i
  BY <1>1, <1>2
<1>4. Waiters(r) \subseteq Waiters(q)
  BY <1>2, <1>3 DEF Waiters, ToSet
<1>5. \A j \in DOMAIN q : j > i => q[j] \in Waiters(r)
  <2> TAKE j \in DOMAIN q
  <2> HAVE j > i
  <2>1. j - i \in 1..(Len(q) - i) /\ i + (j - i) = j
    BY <1>1
  <2> QED  BY <2>1, <1>2 DEF Waiters, ToSet
<1>6. ASSUME Injective(q) PROVE Injective(r) /\ q[i] \notin Waiters(r)
  <2>1. Injective(r)
    BY <1>1, <1>2, <1>3, <1>6 DEF Injective
  <2>2. q[i] \notin Waiters(r)
    BY <1>1, <1>2, <1>3, <1>6 DEF Injective, Waiters, ToSet
  <2> QED  BY <2>1, <2>2
<1> QED  BY <1>2, <1>4, <1>5, <1>6 DEF r

LEMMA RemoveFacts ==
  ASSUME NEW S, NEW q \in Seq(S), NEW i \in DOMAIN q
  PROVE  LET r == RemoveAt(q, i) IN
         /\ r \in Seq(S)
         /\ Waiters(r) \subseteq Waiters(q)
         /\ Waiters(q) \subseteq Waiters(r) \cup {q[i]}
         /\ Injective(q) => Injective(r) /\ q[i] \notin Waiters(r)
<1> DEFINE r == RemoveAt(q, i)
<1>1. i \in Nat /\ 1 <= i /\ i <= Len(q) /\ Len(q) \in Nat /\ DOMAIN q = 1..Len(q)
  OBVIOUS
<1>2. /\ r \in Seq(S) /\ Len(r) = Len(q) - 1
      /\ \A j \in 1..(Len(q) - 1) : r[j] = IF j < i THEN q[j] ELSE q[j + 1]
  BY RemoveAtFacts
<1> HIDE DEF r
<1>3. DOMAIN r = 1..(Len(q) - 1)
  BY <1>2
<1>4. Waiters(r) \subseteq Waiters(q)
  BY <1>1, <1>2, <1>3 DEF Waiters, ToSet
<1>5. Waiters(q) \subseteq Waiters(r) \cup {q[i]}
  <2> SUFFICES ASSUME NEW k \in DOMAIN q, k # i
               PROVE  q[k] \in Waiters(r)
    BY DEF Waiters, ToSet
  <2>1. CASE k < i
    BY <2>1, <1>1, <1>2, <1>3 DEF Waiters, ToSet
  <2>2. CASE k > i
    <3>1. k - 1 \in DOMAIN r /\ r[k - 1] = q[k]
      BY <2>2, <1>1, <1>2, <1>3
    <3> QED  BY <3>1 DEF Waiters, ToSet
  <2> QED  BY <2>1, <2>2, <1>1
<1>6. ASSUME Injective(q) PROVE Injective(r) /\ q[i] \notin Waiters(r)
  <2> DEFINE at(j) == IF j < i THEN j ELSE j + 1
  <2>1. \A j \in DOMAIN r : at(j) \in DOMAIN q /\ at(j) # i /\ r[j] = q[at(j)]
    BY <1>1, <1>2, <1>3
  <2>2. \A j, k \in DOMAIN r : at(j) = at(k) => j = k
    BY <1>1, <1>3
  <2> HIDE DEF at
  <2>3. Injective(r)
    BY <2>1, <2>2, <1>6 DEF Injective
  <2>4. q[i] \notin Waiters(r)
    BY <2>1, <1>6 DEF Injective, Waiters, ToSet
  <2> QED  BY <2>3, <2>4
<1> QED  BY <1>2, <1>4, <1>5, <1>6 DEF r

LEMMA EnqueueFacts ==
  ASSUME NEW S, NEW q \in Seq(S), NEW t \in S
  PROVE  LET r == Enqueue(q, t) IN
         /\ r \in Seq(S)
         /\ Waiters(r) = Waiters(q) \cup {t}
         /\ Injective(q) => Injective(r)
<1>1. CASE t \in Waiters(q)
  BY <1>1 DEF Enqueue
<1>2. CASE t \notin Waiters(q)
  <2> DEFINE r == Append(q, t)
  <2>1. /\ r \in Seq(S) /\ DOMAIN r = 1..(Len(q) + 1) /\ DOMAIN q = 1..Len(q) /\ Len(q) \in Nat
        /\ \A j \in 1..Len(q) : r[j] = q[j]
        /\ r[Len(q) + 1] = t
    OBVIOUS
  <2> HIDE DEF r
  <2>2. Waiters(r) = Waiters(q) \cup {t}
    BY <2>1 DEF Waiters, ToSet
  <2>3. Injective(q) => Injective(r)
    BY <2>1, <1>2 DEF Injective, Waiters, ToSet
  <2> QED  BY <2>1, <2>2, <2>3, <1>2 DEF Enqueue, r
<1> QED  BY <1>1, <1>2
-----------------------------------------------------------------------------
(***************************************************************************)
(* Every notify leaves a queue of tasks that is part of the old one.       *)
(***************************************************************************)
LEMMA OutcomeFacts ==
  ASSUME TypeOK, Injective(wq), NEW o,
         \/ o \in NotifyOneOutcomes(wq, runstate)
         \/ o = NotifyAllOutcome(wq)
         \/ \E u \in Tasks : o \in NotifySpecificOutcomes(wq, u)
  PROVE  /\ o.queue \in Seq(Tasks)
         /\ Injective(o.queue)
         /\ Waiters(o.queue) \subseteq Waiters(wq)
         /\ \A u \in Waiters(wq) \ Waiters(o.queue) : u \in o.woken \/ ~CanUnblock(runstate[u])
         /\ o.woken \subseteq Waiters(wq)
         /\ o.woken \cap Waiters(o.queue) = {}
<1>0. wq \in Seq(Tasks)
  BY DEF TypeOK
<1>e. <<>> \in Seq(Tasks) /\ Injective(<<>>) /\ Waiters(<<>>) = {}
  BY DEF Injective, Waiters, ToSet
<1>1. CASE o \in NotifyOneOutcomes(wq, runstate)
  <2>1. CASE Live(wq, runstate) = {}
    <3>1. o = [queue |-> <<>>, woken |-> {}]
      BY <1>1, <2>1 DEF NotifyOneOutcomes
    <3>2. \A u \in Waiters(wq) : ~CanUnblock(runstate[u])
      BY <2>1 DEF Live, Waiters, ToSet
    <3> QED  BY <3>1, <3>2, <1>e
  <2>2. CASE Live(wq, runstate) # {}
    <3>1. PICK i \in Live(wq, runstate) :
            /\ \A k \in Live(wq, runstate) : i <= k
            /\ o = [queue |-> SubSeq(wq, i + 1, Len(wq)), woken |-> {wq[i]}]
      BY <1>1, <2>2 DEF NotifyOneOutcomes
    <3>2. i \in DOMAIN wq
      BY DEF Live
    <3>3. /\ o.queue \in Seq(Tasks)
          /\ Waiters(o.queue) \subseteq Waiters(wq)
          /\ \A j \in DOMAIN wq : j > i => wq[j] \in Waiters(o.queue)
          /\ Injective(o.queue) /\ wq[i] \notin Waiters(o.queue)
      BY <1>0, <3>1, <3>2, DropFacts
    <3>4. ASSUME NEW u \in Waiters(wq) \ Waiters(o.queue), u \notin o.woken
          PROVE  ~CanUnblock(runstate[u])
      <4>1. PICK j \in DOMAIN wq : wq[j] = u
        BY DEF Waiters, ToSet
      <4>2. j \in Nat /\ i \in Nat /\ ~(j > i) /\ j # i
        BY <1>0, <3>1, <3>2, <3>3, <3>4, <4>1
      <4>3. j \notin Live(wq, runstate)
        BY <3>1, <4>2
      <4> QED  BY <4>1, <4>3 DEF Live
    <3>5. o.woken \subseteq Waiters(wq)
      BY <3>1, <3>2 DEF Waiters, ToSet
    <3> QED  BY <3>1, <3>3, <3>4, <3>5
  <2> QED  BY <2>1, <2>2
<1>2. CASE o = NotifyAllOutcome(wq)
  BY <1>2, <1>e DEF NotifyAllOutcome
<1>3. ASSUME NEW u \in Tasks, o \in NotifySpecificOutcomes(wq, u)
      PROVE  /\ o.queue \in Seq(Tasks)
             /\ Injective(o.queue)
             /\ Waiters(o.queue) \subseteq Waiters(wq)
             /\ \A v \in Waiters(wq) \ Waiters(o.queue) : v \in o.woken \/ ~CanUnblock(runstate[v])
             /\ o.woken \subseteq Waiters(wq)
             /\ o.woken \cap Waiters(o.queue) = {}
  <2>1. PICK i \in DOMAIN wq : wq[i] = u /\ o = [queue |-> RemoveAt(wq, i), woken |-> {u}]
    BY <1>3 DEF NotifySpecificOutcomes
  <2>2. /\ o.queue \in Seq(Tasks)
        /\ Waiters(o.queue) \subseteq Waiters(wq)
        /\ Waiters(wq) \subseteq Waiters(o.queue) \cup {u}
        /\ Injective(o.queue) /\ u \notin Waiters(o.queue)
    BY <1>0, <2>1, RemoveFacts
  <2>3. u \in Waiters(wq)
    BY <2>1 DEF Waiters, ToSet
  <2> QED  BY <2>1, <2>2, <2>3
<1> QED  BY <1>1, <1>2, <1>3

(***************************************************************************)
(* A notify of any kind, whoever calls it.                                 *)
(***************************************************************************)
Notify(o) ==
  /\ \/ o \in NotifyOneOutcomes(wq, runstate)
     \/ o = NotifyAllOutcome(wq)
     \/ \E u \in Tasks : o \in NotifySpecificOutcomes(wq, u)
  /\ Apply(o)

LEMMA RunStateFacts ==
  ASSUME NEW rs \in [Tasks -> RunStates], NEW S
  PROVE  /\ UnblockAll(rs, S) \in [Tasks -> RunStates]
         /\ \A u \in Tasks : UnblockAll(rs, S)[u] =
              IF u \in S /\ rs[u] \in {Runnable, Blocked} THEN Runnable ELSE rs[u]
         /\ \A t \in Tasks :
              /\ Block(rs, t) \in [Tasks -> RunStates]
              /\ \A u \in Tasks : Block(rs, t)[u] =
                   IF u = t /\ rs[u] \in {Runnable, Blocked} THEN Blocked ELSE rs[u]
  BY DEF UnblockAll, Block, CanBlock, CanUnblock, RunStates,
         Initing, Runnable, Blocked, Exited, Reaped

(***************************************************************************)
(* The queue invariant: types, no duplicates, every sleeper is queued.     *)
(***************************************************************************)
QueueInv == TypeOK /\ NoDuplicates /\ SleepersQueued

LEMMA NotifyKeepsQueueInv ==
  ASSUME QueueInv, NEW o, Notify(o), pc' \in [Tasks -> PCs], avail' = avail, disturbed' = disturbed,
         \A u \in Tasks : pc'[u] = "asleep" => pc[u] = "asleep"
  PROVE  QueueInv'
<1>0. TypeOK /\ Injective(wq) /\ SleepersQueued
  BY DEF QueueInv, NoDuplicates, Injective
<1>1. /\ o.queue \in Seq(Tasks)
      /\ Injective(o.queue)
      /\ Waiters(o.queue) \subseteq Waiters(wq)
      /\ \A u \in Waiters(wq) \ Waiters(o.queue) : u \in o.woken \/ ~CanUnblock(runstate[u])
      /\ o.woken \subseteq Waiters(wq)
  BY <1>0, OutcomeFacts DEF Notify
<1>2. /\ wq' = o.queue
      /\ runstate' = UnblockAll(runstate, o.woken)
  BY DEF Notify, Apply
<1>3. /\ runstate' \in [Tasks -> RunStates]
      /\ \A u \in Tasks : runstate'[u] =
           IF u \in o.woken /\ runstate[u] \in {Runnable, Blocked} THEN Runnable ELSE runstate[u]
  BY <1>0, <1>2, RunStateFacts DEF TypeOK
<1>4. Waiters(wq) \subseteq Tasks
  BY <1>0 DEF TypeOK, Waiters, ToSet
<1>5. TypeOK'
  BY <1>0, <1>1, <1>2, <1>3, <1>4 DEF TypeOK
<1>6. NoDuplicates'
  BY <1>1, <1>2 DEF NoDuplicates, Injective
<1>7. SleepersQueued'
  <2> SUFFICES ASSUME NEW u \in Tasks, pc'[u] = "asleep", runstate'[u] = Blocked
               PROVE  u \in Waiters(wq')
    BY DEF SleepersQueued, Asleep
  <2>1. runstate[u] = Blocked /\ u \notin o.woken
    BY <1>3 DEF Blocked, Runnable
  <2>2. u \in Waiters(wq)
    BY <2>1, <1>0 DEF SleepersQueued, Asleep
  <2>3. CanUnblock(runstate[u])
    BY <2>1 DEF CanUnblock
  <2> QED  BY <1>1, <1>2, <2>1, <2>2, <2>3
<1> QED  BY <1>5, <1>6, <1>7 DEF QueueInv

LEMMA QueueInvInductive == QueueInv /\ [Next]_vars => QueueInv'
<1> SUFFICES ASSUME QueueInv, [Next]_vars
             PROVE  QueueInv'
  OBVIOUS
<1> USE WaitQueueAssumption
<1>0. TypeOK /\ NoDuplicates /\ SleepersQueued
  BY DEF QueueInv
<1>u. CASE UNCHANGED vars
  BY <1>0, <1>u DEF vars, QueueInv, TypeOK, NoDuplicates, SleepersQueued, Asleep
<1>n. ASSUME NEW t \in Tasks,
             \/ CallWaitUntil(t) \/ ConditionHolds(t) \/ EnqueueAndBlock(t) \/ Resume(t)
             \/ CallWait(t) \/ ReturnFromWait(t)
             \/ MakeAvailable(t) \/ NotifyOne(t) \/ NotifyAll(t)
             \/ \E u \in Tasks : NotifySpecific(t, u)
             \/ Kill(t) \/ ExternalUnblock(t)
      PROVE  QueueInv'
  <2>1. CASE CallWaitUntil(t) \/ CallWait(t)
    BY <1>0, <2>1 DEF CallWaitUntil, CallWait, QueueInv, TypeOK, PCs, NoDuplicates, SleepersQueued, Asleep
  <2>2. CASE ConditionHolds(t) \/ MakeAvailable(t)
    BY <1>0, <2>2 DEF ConditionHolds, MakeAvailable, QueueInv, TypeOK, PCs, NoDuplicates, SleepersQueued, Asleep
  <2>3. CASE EnqueueAndBlock(t)
    <3>1. /\ wq' \in Seq(Tasks) /\ Waiters(wq') = Waiters(wq) \cup {t}
          /\ Injective(wq) => Injective(wq')
      BY <1>0, <2>3, EnqueueFacts DEF EnqueueAndBlock, TypeOK
    <3>2. /\ runstate' \in [Tasks -> RunStates]
          /\ \A u \in Tasks \ {t} : runstate'[u] = runstate[u]
      BY <1>0, <2>3, RunStateFacts DEF EnqueueAndBlock, TypeOK
    <3>3. TypeOK'
      BY <1>0, <2>3, <3>1, <3>2 DEF EnqueueAndBlock, TypeOK, PCs
    <3>4. NoDuplicates'
      BY <1>0, <3>1 DEF NoDuplicates, Injective
    <3>5. SleepersQueued'
      <4> SUFFICES ASSUME NEW u \in Tasks, u # t, pc'[u] = "asleep", runstate'[u] = Blocked
                   PROVE  u \in Waiters(wq)
        BY <3>1 DEF SleepersQueued, Asleep
      <4>1. pc[u] = "asleep" /\ runstate[u] = Blocked
        BY <1>0, <2>3, <3>2 DEF EnqueueAndBlock, TypeOK
      <4> QED  BY <4>1, <1>0 DEF SleepersQueued, Asleep
    <3> QED  BY <3>3, <3>4, <3>5 DEF QueueInv
  <2>4. CASE Resume(t) \/ ReturnFromWait(t)
    BY <1>0, <2>4 DEF Resume, ReturnFromWait, QueueInv, TypeOK, PCs, NoDuplicates, SleepersQueued, Asleep
  <2>5. CASE NotifyOne(t) \/ NotifyAll(t)
    <3>1. PICK o : Notify(o)
      BY <2>5 DEF NotifyOne, NotifyAll, Notify
    <3>2. /\ pc' \in [Tasks -> PCs] /\ avail' = avail /\ disturbed' = disturbed
          /\ \A u \in Tasks : pc'[u] = "asleep" => pc[u] = "asleep"
      BY <1>0, <2>5 DEF NotifyOne, NotifyAll, TypeOK, PCs
    <3> QED  BY <3>1, <3>2, NotifyKeepsQueueInv
  <2>6. CASE \E u \in Tasks : NotifySpecific(t, u)
    <3>1. PICK o : Notify(o)
      BY <2>6 DEF NotifySpecific, Notify
    <3>2. /\ pc' \in [Tasks -> PCs] /\ avail' = avail /\ disturbed' = disturbed
          /\ \A u \in Tasks : pc'[u] = "asleep" => pc[u] = "asleep"
      BY <1>0, <2>6 DEF NotifySpecific, TypeOK
    <3> QED  BY <3>1, <3>2, NotifyKeepsQueueInv
  <2>7. CASE Kill(t)
    BY <1>0, <2>7 DEF Kill, QueueInv, TypeOK, NoDuplicates, SleepersQueued, Asleep,
       RunStates, Exited, Blocked
  <2>8. CASE ExternalUnblock(t)
    <3>1. /\ runstate' \in [Tasks -> RunStates]
          /\ \A u \in Tasks : runstate'[u] = Blocked => runstate[u] = Blocked
      <4>1. runstate \in [Tasks -> RunStates] /\ runstate' = UnblockAll(runstate, {t})
        BY <1>0, <2>8 DEF ExternalUnblock, Unblock, TypeOK
      <4> QED  BY <4>1, RunStateFacts DEF Runnable, Blocked
    <3> QED  BY <1>0, <2>8, <3>1 DEF ExternalUnblock, QueueInv, TypeOK, NoDuplicates, SleepersQueued, Asleep
  <2> QED  BY <1>n, <2>1, <2>2, <2>3, <2>4, <2>5, <2>6, <2>7, <2>8
<1> QED  BY <1>u, <1>n DEF Next

LEMMA InitQueueInv == Init => QueueInv
<1> SUFFICES ASSUME Init
             PROVE  QueueInv
  OBVIOUS
<1>1. disturbed \in BOOLEAN
  BY Zenon DEF Init
<1>2. runstate \in [Tasks -> RunStates] /\ wq \in Seq(Tasks) /\ pc \in [Tasks -> PCs] /\ avail \in 0..MaxAvail
  BY WaitQueueAssumption DEF Init, PCs, RunStates, Runnable
<1>3. NoDuplicates /\ SleepersQueued
  BY DEF Init, NoDuplicates, SleepersQueued, Asleep
<1> QED  BY <1>1, <1>2, <1>3 DEF QueueInv, TypeOK

LEMMA QueueInvAlways == Spec => []QueueInv
  BY InitQueueInv, QueueInvInductive, PTL DEF Spec

(***************************************************************************)
(* The state of the wait queue and its tasks stays well typed.             *)
(***************************************************************************)
THEOREM TypeCorrect == Spec => []TypeOK
  BY QueueInvAlways, PTL DEF QueueInv

(***************************************************************************)
(* A task that sleeps in wait_until is on the queue, whatever tasks are    *)
(* killed and whoever else unblocks tasks.                                 *)
(***************************************************************************)
THEOREM SleepersAreQueued == Spec => []SleepersQueued
  BY QueueInvAlways, PTL DEF QueueInv

(***************************************************************************)
(* No task is on the queue twice: the contains() test of wait_until is     *)
(* enough, also against tasks that are unblocked from outside.             *)
(***************************************************************************)
THEOREM QueueHasNoDuplicates == Spec => []NoDuplicates
  BY QueueInvAlways, PTL DEF QueueInv
-----------------------------------------------------------------------------
(***************************************************************************)
(* Until a task is killed or unblocked from outside, a queued task really  *)
(* sleeps, so that a notify is never spent on a task that is already       *)
(* awake.  This is what NoLostWakeup needs to be inductive: NotifyOne      *)
(* trades the notifier for one woken sleeper.                              *)
(***************************************************************************)
QueuedAsleep == \A u \in Waiters(wq) : pc[u] = "asleep" /\ runstate[u] = Blocked

WakeInv ==
  /\ QueueInv
  /\ \A u \in Tasks : runstate[u] \in {Runnable, Blocked}
  /\ QueuedAsleep
  /\ Covered

LEMMA InFlightFinite ==
  /\ IsFiniteSet(InFlight) /\ Cardinality(InFlight) \in Nat
  /\ IsFiniteSet(InFlight') /\ Cardinality(InFlight') \in Nat
<1>1. InFlight \in SUBSET Tasks /\ InFlight' \in SUBSET Tasks
  BY DEF InFlight
<1> QED  BY <1>1, WaitQueueAssumption, FS_Subset, FS_CardinalityType

(***************************************************************************)
(* A notify wakes some sleepers: they join those in flight.                *)
(***************************************************************************)
LEMMA NotifyWakes ==
  ASSUME WakeInv, NEW o, Notify(o)
  PROVE  /\ \A u \in Tasks : runstate'[u] = IF u \in o.woken THEN Runnable ELSE runstate[u]
         /\ o.woken \subseteq Asleep
         /\ Waiters(wq') \subseteq Waiters(wq) \ o.woken
         /\ Waiters(wq) \subseteq Waiters(wq') \cup o.woken
<1>0. TypeOK /\ Injective(wq) /\ QueuedAsleep /\ \A u \in Tasks : runstate[u] \in {Runnable, Blocked}
  BY DEF WakeInv, QueueInv, NoDuplicates, Injective
<1>1. /\ Waiters(o.queue) \subseteq Waiters(wq)
      /\ \A u \in Waiters(wq) \ Waiters(o.queue) : u \in o.woken \/ ~CanUnblock(runstate[u])
      /\ o.woken \subseteq Waiters(wq)
      /\ o.woken \cap Waiters(o.queue) = {}
  BY <1>0, OutcomeFacts DEF Notify
<1>2. wq' = o.queue /\ runstate' = UnblockAll(runstate, o.woken)
  BY DEF Notify, Apply
<1>3. Waiters(wq) \subseteq Tasks
  BY <1>0 DEF TypeOK, Waiters, ToSet
<1>4. \A u \in Tasks : runstate'[u] = IF u \in o.woken THEN Runnable ELSE runstate[u]
  BY <1>0, <1>2, RunStateFacts DEF TypeOK
<1>5. o.woken \subseteq Asleep
  BY <1>0, <1>1, <1>3 DEF QueuedAsleep, Asleep
<1>6. \A u \in Tasks : CanUnblock(runstate[u])
  BY <1>0 DEF CanUnblock
<1> QED  BY <1>1, <1>2, <1>3, <1>4, <1>5, <1>6

LEMMA WakeInvInductive ==
  ASSUME WakeInv, [Next]_vars, disturbed' = FALSE
  PROVE  WakeInv'
<1>0. /\ TypeOK /\ SleepersQueued /\ QueuedAsleep
      /\ \A u \in Tasks : runstate[u] \in {Runnable, Blocked}
      /\ Covered
  BY DEF WakeInv, QueueInv
<1>1. QueueInv'
  BY QueueInvInductive DEF WakeInv
<1>b. Runnable # Blocked
  BY DEF Runnable, Blocked
<1>w. Waiters(wq) \subseteq Tasks
  BY <1>0 DEF TypeOK, Waiters, ToSet
<1>f. /\ IsFiniteSet(InFlight) /\ Cardinality(InFlight) \in Nat
      /\ IsFiniteSet(InFlight') /\ Cardinality(InFlight') \in Nat
      /\ avail \in Nat
  BY <1>0, InFlightFinite, WaitQueueAssumption DEF TypeOK
<1>u. CASE UNCHANGED vars
  BY <1>0, <1>1, <1>u DEF vars, WakeInv, QueuedAsleep, Covered, Asleep, InFlight
<1>n. ASSUME NEW t \in Tasks,
             \/ CallWaitUntil(t) \/ ConditionHolds(t) \/ EnqueueAndBlock(t) \/ Resume(t)
             \/ CallWait(t) \/ ReturnFromWait(t)
             \/ MakeAvailable(t) \/ NotifyOne(t) \/ NotifyAll(t)
             \/ \E u \in Tasks : NotifySpecific(t, u)
             \/ Kill(t) \/ ExternalUnblock(t)
      PROVE  WakeInv'
  <2>p. pc \in [Tasks -> PCs]
    BY <1>0 DEF TypeOK
  <2>1. CASE CallWaitUntil(t) \/ CallWait(t)
    <3>1. QueuedAsleep' /\ Asleep' = Asleep /\ avail' = avail /\ runstate' = runstate
      BY <1>0, <1>w, <2>p, <2>1 DEF CallWaitUntil, CallWait, QueuedAsleep, Asleep
    <3>2. InFlight \subseteq InFlight'
      BY <2>p, <2>1 DEF CallWaitUntil, CallWait, InFlight
    <3>3. Covered'
      BY <1>0, <1>f, <3>1, <3>2, FS_Subset DEF Covered
    <3> QED  BY <1>0, <1>1, <3>1, <3>3 DEF WakeInv
  <2>2. CASE ConditionHolds(t)
    <3>1. QueuedAsleep' /\ Asleep' = Asleep /\ avail' = avail - 1 /\ runstate' = runstate
      BY <1>0, <1>w, <2>p, <2>2 DEF ConditionHolds, QueuedAsleep, Asleep
    <3>2. InFlight' = InFlight \ {t} /\ t \in InFlight
      BY <2>p, <2>2 DEF ConditionHolds, InFlight
    <3>3. Cardinality(InFlight') = Cardinality(InFlight) - 1
      BY <1>f, <3>2, FS_RemoveElement
    <3>4. Covered'
      BY <1>0, <1>f, <3>1, <3>3 DEF Covered
    <3> QED  BY <1>0, <1>1, <3>1, <3>4 DEF WakeInv
  <2>3. CASE EnqueueAndBlock(t)
    <3>1. /\ Waiters(wq') = Waiters(wq) \cup {t}
          /\ \A u \in Tasks : runstate'[u] = IF u = t THEN Blocked ELSE runstate[u]
          /\ avail' = 0
      <4>1. Waiters(wq') = Waiters(wq) \cup {t} /\ avail' = 0
        BY <1>0, <2>3, EnqueueFacts DEF EnqueueAndBlock, TypeOK
      <4>2. runstate \in [Tasks -> RunStates] /\ runstate' = Block(runstate, t)
        BY <1>0, <2>3 DEF EnqueueAndBlock, TypeOK
      <4>3. \A u \in Tasks : runstate'[u] =
              IF u = t /\ runstate[u] \in {Runnable, Blocked} THEN Blocked ELSE runstate[u]
        BY <4>2, RunStateFacts
      <4> QED  BY <4>1, <4>3, <1>0
    <3>2. pc' = [pc EXCEPT ![t] = "asleep"]
      BY <1>0, <2>3 DEF EnqueueAndBlock, CanBlock
    <3>3. QueuedAsleep'
      BY <1>0, <1>w, <2>p, <3>1, <3>2 DEF QueuedAsleep
    <3>4. Covered'
      BY <1>f, <3>1 DEF Covered
    <3> QED  BY <1>0, <1>1, <3>1, <3>3, <3>4 DEF WakeInv
  <2>4. CASE Resume(t)
    <3>1. QueuedAsleep' /\ Asleep' = Asleep /\ avail' = avail /\ runstate' = runstate
      BY <1>0, <1>b, <1>w, <2>p, <2>4 DEF Resume, QueuedAsleep, Asleep
    <3>2. InFlight' = InFlight
      BY <2>p, <2>4 DEF Resume, InFlight
    <3> QED  BY <1>0, <1>1, <3>1, <3>2 DEF WakeInv, Covered
  <2>5. CASE ReturnFromWait(t)
    <3>1. QueuedAsleep' /\ Asleep' = Asleep /\ avail' = avail /\ runstate' = runstate
      BY <1>0, <1>w, <2>p, <2>5 DEF ReturnFromWait, QueuedAsleep, Asleep
    <3>2. InFlight' = InFlight
      BY <2>p, <2>5 DEF ReturnFromWait, InFlight
    <3> QED  BY <1>0, <1>1, <3>1, <3>2 DEF WakeInv, Covered
  <2>6. CASE MakeAvailable(t)
    <3>1. QueuedAsleep' /\ Asleep' = Asleep /\ avail' = avail + 1 /\ runstate' = runstate
      BY <1>0, <1>w, <2>p, <2>6 DEF MakeAvailable, QueuedAsleep, Asleep
    <3>2. InFlight' = InFlight \cup {t} /\ t \notin InFlight
      BY <2>p, <2>6 DEF MakeAvailable, InFlight
    <3>3. Cardinality(InFlight') = Cardinality(InFlight) + 1
      BY <1>f, <3>2, FS_AddElement
    <3>4. Covered'
      BY <1>0, <1>f, <3>1, <3>3 DEF Covered
    <3> QED  BY <1>0, <1>1, <3>1, <3>4 DEF WakeInv
  <2>7. ASSUME NEW o, Notify(o), avail' = avail,
               \/ pc[t] = "notify" /\ pc' = [pc EXCEPT ![t] = "idle"]
               \/ pc' = pc
        PROVE  /\ QueuedAsleep' /\ \A u \in Tasks : runstate'[u] \in {Runnable, Blocked}
               /\ Asleep' = Asleep \ o.woken
               /\ (InFlight \ {t}) \cup o.woken \subseteq InFlight'
               /\ pc' = pc => InFlight \subseteq InFlight'
    <3>1. /\ \A u \in Tasks : runstate'[u] = IF u \in o.woken THEN Runnable ELSE runstate[u]
          /\ o.woken \subseteq Asleep
          /\ Waiters(wq') \subseteq Waiters(wq) \ o.woken
      BY <2>7, NotifyWakes
    <3>2. QueuedAsleep'
      BY <1>0, <1>w, <2>p, <2>7, <3>1 DEF QueuedAsleep
    <3>3. Asleep' = Asleep \ o.woken
      BY <1>b, <2>p, <2>7, <3>1 DEF Asleep
    <3>4. (InFlight \ {t}) \cup o.woken \subseteq InFlight' /\ (pc' = pc => InFlight \subseteq InFlight')
      BY <1>b, <2>p, <2>7, <3>1 DEF Asleep, InFlight
    <3> QED  BY <1>0, <3>1, <3>2, <3>3, <3>4
  <2>8. CASE NotifyOne(t)
    <3>1. PICK o \in NotifyOneOutcomes(wq, runstate) : Apply(o)
      BY <2>8 DEF NotifyOne
    <3>2. Notify(o) /\ avail' = avail /\ pc[t] = "notify" /\ pc' = [pc EXCEPT ![t] = "idle"]
      BY <2>8, <3>1 DEF NotifyOne, Notify
    <3>3. /\ QueuedAsleep' /\ \A u \in Tasks : runstate'[u] \in {Runnable, Blocked}
          /\ Asleep' = Asleep \ o.woken
          /\ (InFlight \ {t}) \cup o.woken \subseteq InFlight'
          /\ o.woken \subseteq Asleep
      BY <2>7, <3>2, NotifyWakes
    <3>4. CASE Live(wq, runstate) = {}
      <4>1. Waiters(wq) = {}
        BY <1>0, <1>w, <3>4 DEF Live, Waiters, ToSet, CanUnblock
      <4>2. Asleep' = {}
        BY <1>0, <4>1, <3>3 DEF SleepersQueued
      <4> QED  BY <1>1, <3>3, <4>2 DEF WakeInv, Covered
    <3>5. CASE Live(wq, runstate) # {}
      <4>1. PICK u \in Tasks : o.woken = {u}
        <5>1. PICK i \in Live(wq, runstate) : o.woken = {wq[i]}
          BY <3>1, <3>5 DEF NotifyOneOutcomes
        <5>2. wq[i] \in Tasks
          BY <1>0 DEF Live, TypeOK
        <5> QED  BY <5>1, <5>2
      <4>2. t \in InFlight /\ u \notin InFlight
        BY <1>b, <3>2, <3>3, <4>1 DEF InFlight, Asleep
      <4>3. /\ IsFiniteSet(InFlight \ {t})
            /\ Cardinality(InFlight \ {t}) = Cardinality(InFlight) - 1
        BY <1>f, <4>2, FS_RemoveElement
      <4>4. /\ IsFiniteSet((InFlight \ {t}) \cup {u})
            /\ Cardinality((InFlight \ {t}) \cup {u}) = Cardinality(InFlight \ {t}) + 1
        BY <4>2, <4>3, FS_AddElement
      <4>5. Cardinality((InFlight \ {t}) \cup {u}) <= Cardinality(InFlight')
        BY <1>f, <3>3, <4>1, FS_Subset
      <4>6. Cardinality(InFlight) <= Cardinality(InFlight')
        BY <1>f, <4>3, <4>4, <4>5
      <4>7. Covered'
        BY <1>0, <1>f, <3>2, <3>3, <4>6 DEF Covered
      <4> QED  BY <1>1, <3>3, <4>7 DEF WakeInv
    <3> QED  BY <3>4, <3>5
  <2>9. CASE NotifyAll(t)
    <3> DEFINE o == NotifyAllOutcome(wq)
    <3>1. Notify(o) /\ avail' = avail /\ pc[t] = "notify" /\ pc' = [pc EXCEPT ![t] = "idle"]
      BY <2>9 DEF NotifyAll, Notify
    <3>2. o.woken = Waiters(wq)
      BY DEF NotifyAllOutcome
    <3> HIDE DEF o
    <3>3. /\ QueuedAsleep' /\ \A u \in Tasks : runstate'[u] \in {Runnable, Blocked}
          /\ Asleep' = Asleep \ o.woken
      BY <2>7, <3>1
    <3>4. Asleep' = {}
      BY <1>0, <3>2, <3>3 DEF SleepersQueued
    <3> QED  BY <1>1, <3>3, <3>4 DEF WakeInv, Covered
  <2>10. CASE \E u \in Tasks : NotifySpecific(t, u)
    <3>1. PICK o : Notify(o)
      BY <2>10 DEF NotifySpecific, Notify
    <3>2. avail' = avail /\ pc' = pc
      BY <2>10 DEF NotifySpecific
    <3>3. /\ QueuedAsleep' /\ \A u \in Tasks : runstate'[u] \in {Runnable, Blocked}
          /\ Asleep' = Asleep \ o.woken
          /\ InFlight \subseteq InFlight'
      BY <2>7, <3>1, <3>2
    <3>4. Cardinality(InFlight) <= Cardinality(InFlight')
      BY <1>f, <3>3, FS_Subset
    <3>5. Covered'
      BY <1>0, <1>f, <3>2, <3>3, <3>4 DEF Covered
    <3> QED  BY <1>1, <3>3, <3>5 DEF WakeInv
  <2>11. CASE Kill(t) \/ ExternalUnblock(t)
    BY <2>11 DEF Kill, ExternalUnblock
  <2> QED  BY <1>n, <2>1, <2>2, <2>3, <2>4, <2>5, <2>6, <2>8, <2>9, <2>10, <2>11
<1> QED  BY <1>u, <1>n DEF Next

(***************************************************************************)
(* Until a task is killed or unblocked from outside, while a task sleeps   *)
(* there is for every available resource a task that is about to notify or *)
(* to look at the condition: the order in which wait_until checks, queues  *)
(* and blocks under the lock loses no wakeup.                              *)
(***************************************************************************)
THEOREM NoWakeupIsLost == Spec => []NoLostWakeup
<1> DEFINE CalmInv == disturbed = FALSE => WakeInv
<1>1. Init => CalmInv
  <2>1. Init => Covered
    BY DEF Init, Covered, Asleep
  <2>2. Init => QueuedAsleep /\ \A u \in Tasks : runstate[u] \in {Runnable, Blocked}
    BY DEF Init, QueuedAsleep, Waiters, ToSet
  <2> QED  BY <2>1, <2>2, InitQueueInv DEF WakeInv
<1>2. CalmInv /\ [Next]_vars => CalmInv'
  <2> SUFFICES ASSUME CalmInv, [Next]_vars, disturbed' = FALSE
               PROVE  WakeInv'
    OBVIOUS
  <2>1. disturbed = FALSE
    BY DEF Next, vars, CallWaitUntil, ConditionHolds, EnqueueAndBlock, Resume, CallWait, ReturnFromWait,
           MakeAvailable, NotifyOne, NotifyAll, NotifySpecific, Kill, ExternalUnblock
  <2> QED  BY <2>1, WakeInvInductive
<1>3. CalmInv => NoLostWakeup
  BY DEF WakeInv, NoLostWakeup
<1> QED  BY <1>1, <1>2, <1>3, PTL DEF Spec
=============================================================================
