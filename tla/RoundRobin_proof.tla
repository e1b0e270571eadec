-------------------------- MODULE RoundRobin_proof --------------------------
(***************************************************************************)
(* Proof that the round robin scheduler bypasses a runnable task fewer     *)
(* times than there are tasks, and selects the idle task only when no task *)
(* waits all through the scan, for any finite set of tasks.                *)
(***************************************************************************)
EXTENDS RoundRobin, QueueLemmas, FiniteSetTheorems, TLAPS

(***************************************************************************)
(* Where move_to_end() takes the element at place i from, in a queue of n. *)
(***************************************************************************)
From(n, k, i) == IF i = n THEN k ELSE IF i = k - 1 THEN 1 ELSE i + 1

LEMMA FromFacts ==
  ASSUME NEW n \in Nat, NEW k \in 1..n
  PROVE  /\ \A i \in 1..n : From(n, k, i) \in 1..n
         /\ \A i, j \in 1..n : From(n, k, i) = From(n, k, j) => i = j
<1>1. ASSUME NEW i \in 1..n PROVE From(n, k, i) \in 1..n
  <2>1. CASE i = n
    BY <2>1 DEF From
  <2>2. CASE i # n /\ i = k - 1
    BY <2>2 DEF From
  <2>3. CASE i # n /\ i # k - 1
    BY <2>3 DEF From
  <2> QED  BY <2>1, <2>2, <2>3
<1>2. ASSUME NEW i \in 1..n, NEW j \in 1..n, From(n, k, i) = From(n, k, j) PROVE i = j
  BY <1>2 DEF From
<1> QED  BY <1>1, <1>2

(***************************************************************************)
(* move_to_end() permutes the queue.                                       *)
(***************************************************************************)
Moved(S, q, k, r) ==
  /\ r \in Seq(S) /\ Len(r) = Len(q) /\ DOMAIN r = DOMAIN q
  /\ \A i \in DOMAIN r :
       r[i] = IF i = Len(q) THEN q[k] ELSE IF i = k - 1 THEN q[1] ELSE q[i + 1]
  /\ \A i, j \in DOMAIN r : r[i] = r[j] => i = j
  /\ \A i \in DOMAIN q : \E j \in DOMAIN r : r[j] = q[i]

LEMMA MoveToEndFacts ==
  ASSUME NEW S, NEW q \in Seq(S), NEW k \in DOMAIN q, NEW r, r = MoveToEnd(q, k),
         \A i, j \in DOMAIN q : q[i] = q[j] => i = j
  PROVE  Moved(S, q, k, r)
<1>1. Len(q) \in Nat /\ DOMAIN q = 1..Len(q) /\ k \in 1..Len(q)
  OBVIOUS
<1>2. \A i \in 1..Len(q) : q[i] \in S
  BY <1>1
<1>3. /\ DOMAIN r = 1..Len(q)
      /\ \A i \in 1..Len(q) :
           r[i] = IF i = Len(q) THEN q[k] ELSE IF i = k - 1 THEN q[1] ELSE q[i + 1]
      /\ r = [i \in 1..Len(q) |-> r[i]]
  BY <1>1 DEF MoveToEnd
<1>4. \A i \in 1..Len(q) : r[i] \in S
  BY <1>1, <1>2, <1>3
<1>5. r \in Seq(S) /\ Len(r) = Len(q)
  BY <1>1, <1>3, <1>4
<1>6. \A i \in 1..Len(q) : r[i] = q[From(Len(q), k, i)]
  BY <1>3, Zenon DEF From
<1>7. /\ \A i \in 1..Len(q) : From(Len(q), k, i) \in 1..Len(q)
      /\ \A i, j \in 1..Len(q) : From(Len(q), k, i) = From(Len(q), k, j) => i = j
  BY <1>1, FromFacts, Zenon
<1>8. \A i, j \in 1..Len(q) : r[i] = r[j] => i = j
  <2>1. \A i, j \in 1..Len(q) : q[i] = q[j] => i = j
    BY <1>1
  <2> SUFFICES ASSUME NEW i \in 1..Len(q), NEW j \in 1..Len(q), r[i] = r[j]
               PROVE  i = j
    OBVIOUS
  <2>2. q[From(Len(q), k, i)] = q[From(Len(q), k, j)]
    BY <1>6, Zenon
  <2>3. From(Len(q), k, i) \in 1..Len(q) /\ From(Len(q), k, j) \in 1..Len(q)
    BY <1>7, Zenon
  <2>4. From(Len(q), k, i) = From(Len(q), k, j)
    BY <2>1, <2>2, <2>3, Zenon
  <2> QED  BY <2>4, <1>7, Zenon
<1>9. \A i \in 1..Len(q) : \E j \in 1..Len(q) : r[j] = q[i]
  <2> TAKE i \in 1..Len(q)
  <2>1. CASE i = k
    BY <2>1, <1>1, <1>3
  <2>2. CASE i # k /\ i = 1
    <3>1. k - 1 \in 1..Len(q) /\ k - 1 # Len(q)
      BY <2>2, <1>1
    <3> QED  BY <3>1, <2>2, <1>3
  <2>3. CASE i # k /\ i # 1
    <3>1. i - 1 \in 1..Len(q) /\ i - 1 # Len(q) /\ i - 1 # k - 1 /\ (i - 1) + 1 = i
      BY <2>3, <1>1
    <3> QED  BY <3>1, <1>3
  <2> QED  BY <2>1, <2>2, <2>3
<1> QED  BY <1>1, <1>3, <1>5, <1>8, <1>9, Zenon DEF Moved

(***************************************************************************)
(* A selection preserves the invariant: the chosen task goes to the back,  *)
(* the front task, if it is moved backwards, had been passed by the scan,  *)
(* and every other task moves one place forward.                           *)
(***************************************************************************)
LEMMA ChoosePreserves ==
  ASSUME PlaceInv, NEW k \in DOMAIN queue, k <= scan, Choose(k), UNCHANGED runnable
  PROVE  PlaceInv'
<1> USE RoundRobinAssumption
<1>1. /\ queue \in Seq(Tasks) /\ Len(queue) \in Nat /\ DOMAIN queue = 1..Len(queue)
      /\ k \in 1..Len(queue) /\ scan \in Nat /\ bypass \in [Tasks -> Nat]
      /\ \A i \in 1..Len(queue) : queue[i] \in Tasks
  BY DEF PlaceInv, TypeOK
<1>2. /\ queue' \in Seq(Tasks) /\ Len(queue') = Len(queue) /\ DOMAIN queue' = DOMAIN queue
      /\ \A i \in DOMAIN queue' :
           queue'[i] = IF i = Len(queue) THEN queue[k]
                       ELSE IF i = k - 1 THEN queue[1] ELSE queue[i + 1]
      /\ NoDuplicates'
      /\ \A i \in DOMAIN queue : \E j \in DOMAIN queue' : queue'[j] = queue[i]
  <2>1. queue' = MoveToEnd(queue, k) /\ \A i, j \in DOMAIN queue : queue[i] = queue[j] => i = j
    BY DEF PlaceInv, NoDuplicates, Choose
  <2>2. queue \in Seq(Tasks)
    BY <1>1
  <2>3. Moved(Tasks, queue, k, queue')
    BY <2>1, <2>2, MoveToEndFacts, Zenon
  <2> QED  BY <2>3, Zenon DEF Moved, NoDuplicates
<1>3. /\ bypass' = [t \in Tasks |-> IF t \in Waiting \ {queue[k]} THEN bypass[t] + 1 ELSE 0]
      /\ scan' = 0 /\ idleAt' = 0 /\ runnable' = runnable /\ stayed' = {}
  BY DEF Choose
<1>4. bypass' \in [Tasks -> Nat] /\ \A t \in Tasks : bypass'[t] <= bypass[t] + 1
  BY <1>1, <1>3
<1>5. bypass'[queue[k]] = 0
  BY <1>1, <1>3
<1>6. TypeOK' /\ UnlockedIsReset' /\ NotPassedItself' /\ Passed'
  <2>1. queue' \in Seq(Tasks) /\ Len(queue') \in Nat /\ DOMAIN queue' = 1..Len(queue')
    BY <1>2
  <2>2. runnable' \subseteq Tasks
    BY <1>3 DEF PlaceInv, TypeOK
  <2>3. TypeOK'
    BY <2>1, <2>2, <1>3, <1>4 DEF TypeOK
  <2>4. \A i \in DOMAIN queue' : ~(i < scan')
    BY <2>1, <1>3
  <2> QED  BY <2>3, <2>4, <1>3 DEF UnlockedIsReset, NotPassedItself, Passed
<1>7. Cardinality(Tasks) \in Nat /\ Len(queue) <= Cardinality(Tasks)
  BY <1>1, LengthBound DEF PlaceInv, NoDuplicates
<1>8. PlacePaysForBypass'
  <2> SUFFICES ASSUME NEW i \in 1..Len(queue)
               PROVE  bypass'[queue'[i]] + i <= Cardinality(Tasks)
    BY <1>1, <1>2 DEF PlacePaysForBypass
  <2>0. queue'[i] = IF i = Len(queue) THEN queue[k]
                    ELSE IF i = k - 1 THEN queue[1] ELSE queue[i + 1]
    BY <1>1, <1>2, Zenon
  <2>1. CASE i = Len(queue)
    <3>1. bypass'[queue'[i]] = 0
      BY <2>0, <2>1, <1>5, Zenon
    <3> QED  BY <3>1, <2>1, <1>7
  <2>2. CASE i # Len(queue) /\ i = k - 1
    <3>0. queue'[i] = queue[1]
      BY <2>0, <2>2, Zenon
    <3>1. queue'[i] = queue[1] /\ 1 \in DOMAIN queue /\ 1 < scan
      BY <3>0, <2>2, <1>1
    <3>2. bypass[queue[1]] = 0 /\ queue[1] \in Tasks
      BY <3>1, <1>1 DEF PlaceInv, Passed
    <3>3. bypass'[queue[1]] <= 1 /\ bypass'[queue[1]] \in Nat
      BY <3>2, <1>4
    <3> QED  BY <2>2, <3>1, <3>3, <1>1, <1>7
  <2>3. CASE i # Len(queue) /\ i # k - 1
    <3>0. queue'[i] = queue[i + 1]
      BY <2>0, <2>3, Zenon
    <3>1. queue'[i] = queue[i + 1] /\ i + 1 \in DOMAIN queue /\ queue[i + 1] \in Tasks
      <4>1. i + 1 \in 1..Len(queue)
        <5>1. Len(queue) \in Nat
          BY <1>1
        <5> QED  BY <5>1, <2>3
      <4> QED  BY <3>0, <4>1, <1>1, Zenon
    <3>2. bypass[queue[i + 1]] + (i + 1) <= Cardinality(Tasks)
      BY <3>1 DEF PlaceInv, PlacePaysForBypass
    <3>3. /\ bypass'[queue[i + 1]] <= bypass[queue[i + 1]] + 1
          /\ bypass'[queue[i + 1]] \in Nat /\ bypass[queue[i + 1]] \in Nat
      BY <3>1, <1>1, <1>4
    <3> QED  BY <3>1, <3>2, <3>3, <1>7
  <2> QED  BY <2>1, <2>2, <2>3
<1>9. OthersNotBypassed'
  <2>1. Queued \subseteq Queued'
    BY <1>2 DEF Queued, ToSet
  <2>2. \A t \in Tasks : t \notin Waiting' => t \notin Waiting
    BY <2>1, <1>3 DEF Waiting
  <2> QED  BY <2>2, <1>3 DEF OthersNotBypassed
<1> QED  BY <1>2, <1>6, <1>8, <1>9 DEF PlaceInv

(***************************************************************************)
(* The invariant is inductive.                                             *)
(***************************************************************************)
LEMMA InitPlaceInv == Init => PlaceInv
<1> SUFFICES ASSUME Init PROVE PlaceInv
  OBVIOUS
<1> USE RoundRobinAssumption
<1>1. queue = <<Idle>> /\ Len(queue) = 1 /\ DOMAIN queue = {1} /\ queue[1] = Idle
  BY DEF Init
<1>2. Cardinality(Tasks) \in Nat /\ Cardinality(Tasks) # 0
  BY FS_CardinalityType, FS_EmptySet
<1>3. TypeOK
  BY <1>1 DEF Init, TypeOK
<1> QED
  BY <1>1, <1>2, <1>3 DEF Init, PlaceInv, UnlockedIsReset, NotPassedItself, NoDuplicates,
     Passed, PlacePaysForBypass, OthersNotBypassed

LEMMA AddPreserves == ASSUME PlaceInv, NEW t \in Tasks, AddTask(t) PROVE PlaceInv'
<1> USE RoundRobinAssumption
<1>1. /\ queue \in Seq(Tasks) /\ Len(queue) \in Nat /\ DOMAIN queue = 1..Len(queue)
      /\ bypass \in [Tasks -> Nat] /\ scan = 0 /\ idleAt = 0 /\ runnable \subseteq Tasks
      /\ stayed' = stayed /\ stayed \subseteq Tasks
      /\ \A i \in 1..Len(queue) : queue[i] \in Tasks
  BY DEF PlaceInv, TypeOK, UnlockedIsReset, AddTask
<1>2. /\ queue' \in Seq(Tasks) /\ Len(queue') = Len(queue) + 1
      /\ DOMAIN queue' = 1..(Len(queue) + 1)
      /\ queue'[Len(queue) + 1] = t
      /\ \A i \in 1..Len(queue) : queue'[i] = queue[i]
  BY <1>1 DEF AddTask
<1>3. \A i \in 1..Len(queue) : queue[i] # t
  BY <1>1 DEF AddTask, Queued, ToSet
<1>4. scan' = 0 /\ idleAt' = 0 /\ runnable' = runnable /\ bypass' = [bypass EXCEPT ![t] = 0]
  BY <1>1 DEF AddTask, Reset
<1>5. NoDuplicates'
  <2> SUFFICES ASSUME NEW i \in 1..(Len(queue) + 1), NEW j \in 1..(Len(queue) + 1),
                      queue'[i] = queue'[j]
               PROVE  i = j
    BY <1>2 DEF NoDuplicates
  <2>1. CASE i \in 1..Len(queue) /\ j \in 1..Len(queue)
    BY <2>1, <1>1, <1>2 DEF PlaceInv, NoDuplicates
  <2>2. CASE i = Len(queue) + 1 \/ j = Len(queue) + 1
    <3>1. \A n \in 1..(Len(queue) + 1) : n = Len(queue) + 1 \/ n \in 1..Len(queue)
      BY <1>1
    <3>2. \A n \in 1..(Len(queue) + 1) : queue'[n] = t => n = Len(queue) + 1
      BY <3>1, <1>2, <1>3, Zenon
    <3>3. queue'[i] = t /\ queue'[j] = t
      BY <2>2, <1>2, Zenon
    <3> QED  BY <3>2, <3>3, Zenon
  <2> QED  BY <2>1, <2>2, <1>1
<1>6. TypeOK' /\ UnlockedIsReset' /\ NotPassedItself' /\ Passed'
  BY <1>1, <1>2, <1>4 DEF TypeOK, UnlockedIsReset, NotPassedItself, Passed
<1>7. Len(queue) + 1 <= Cardinality(Tasks) /\ Cardinality(Tasks) \in Nat
  BY <1>2, <1>5, LengthBound DEF NoDuplicates
<1>8. PlacePaysForBypass'
  <2> SUFFICES ASSUME NEW i \in 1..(Len(queue) + 1)
               PROVE  bypass'[queue'[i]] + i <= Cardinality(Tasks)
    BY <1>2 DEF PlacePaysForBypass
  <2>1. CASE i = Len(queue) + 1
    BY <2>1, <1>1, <1>2, <1>4, <1>7
  <2>2. CASE i \in 1..Len(queue)
    BY <2>2, <1>1, <1>2, <1>3, <1>4 DEF PlaceInv, PlacePaysForBypass
  <2> QED  BY <2>1, <2>2, <1>1
<1>9. OthersNotBypassed'
  <2>1. Queued \subseteq Queued'
    BY <1>1, <1>2 DEF Queued, ToSet
  <2>2. \A u \in Tasks : u \notin Waiting' => u \notin Waiting
    BY <2>1, <1>4 DEF Waiting
  <2> QED  BY <2>2, <1>1, <1>4 DEF PlaceInv, OthersNotBypassed
<1> QED  BY <1>5, <1>6, <1>8, <1>9 DEF PlaceInv

LEMMA RemovePreserves == ASSUME PlaceInv, NEW t \in Tasks, RemoveTask(t) PROVE PlaceInv'
<1> USE RoundRobinAssumption
<1>1. /\ queue \in Seq(Tasks) /\ Len(queue) \in Nat /\ DOMAIN queue = 1..Len(queue)
      /\ bypass \in [Tasks -> Nat] /\ scan = 0 /\ idleAt = 0 /\ runnable \subseteq Tasks
      /\ stayed' = stayed /\ stayed \subseteq Tasks
      /\ \A i \in 1..Len(queue) : queue[i] \in Tasks
  BY DEF PlaceInv, TypeOK, UnlockedIsReset, RemoveTask
<1>2. PICK k \in DOMAIN queue : queue[k] = t /\ queue' = RemoveAt(queue, k)
  BY DEF RemoveTask
<1>3. /\ queue' \in Seq(Tasks) /\ Len(queue') = Len(queue) - 1
      /\ DOMAIN queue' = 1..(Len(queue) - 1)
      /\ \A j \in 1..(Len(queue) - 1) : queue'[j] = IF j < k THEN queue[j] ELSE queue[j + 1]
  <2>1. /\ queue' \in Seq(Tasks) /\ Len(queue') = Len(queue) - 1
        /\ \A j \in 1..(Len(queue) - 1) : queue'[j] = IF j < k THEN queue[j] ELSE queue[j + 1]
    BY <1>1, <1>2, RemoveAtFacts
  <2> QED  BY <2>1
<1>4. scan' = 0 /\ idleAt' = 0 /\ runnable' = runnable /\ bypass' = [bypass EXCEPT ![t] = 0]
  BY <1>1 DEF RemoveTask, Reset
<1> DEFINE from(j) == IF j < k THEN j ELSE j + 1
<1>a. \A j \in 1..(Len(queue) - 1) :
        from(j) \in 1..Len(queue) /\ j <= from(j) /\ queue'[j] = queue[from(j)]
  <2> TAKE j \in 1..(Len(queue) - 1)
  <2>1. from(j) \in 1..Len(queue) /\ j <= from(j)
    BY <1>1
  <2>2. queue'[j] = queue[from(j)]
    BY <1>3, Zenon
  <2> QED  BY <2>1, <2>2
<1>b. \A i, j \in 1..(Len(queue) - 1) : from(i) = from(j) => i = j
  <2>1. k \in Int /\ \A j \in 1..(Len(queue) - 1) : j \in Int
    BY <1>1
  <2>2. \A i, j \in Int : from(i) = from(j) => i = j
    <3> SUFFICES ASSUME NEW i \in Int, NEW j \in Int, from(i) = from(j) PROVE i = j
      OBVIOUS
    <3>1. CASE i < k /\ j < k  BY <3>1
    <3>2. CASE i < k /\ ~(j < k)  BY <2>1, <3>2
    <3>3. CASE ~(i < k) /\ j < k  BY <2>1, <3>3
    <3>4. CASE ~(i < k) /\ ~(j < k)  BY <3>4
    <3> QED  BY <3>1, <3>2, <3>3, <3>4
  <2> HIDE DEF from
  <2> QED  BY <2>1, <2>2
<1> HIDE DEF from
<1>5. NoDuplicates'
  <2>1. \A i, j \in 1..Len(queue) : queue[i] = queue[j] => i = j
    BY <1>1 DEF PlaceInv, NoDuplicates
  <2>2. \A i, j \in 1..(Len(queue) - 1) : queue'[i] = queue'[j] => i = j
    BY <2>1, <1>a, <1>b, Zenon
  <2> QED  BY <2>2, <1>3 DEF NoDuplicates
<1>6. TypeOK' /\ UnlockedIsReset' /\ NotPassedItself' /\ Passed'
  BY <1>1, <1>2, <1>3, <1>4 DEF TypeOK, UnlockedIsReset, NotPassedItself, Passed
<1>7. Cardinality(Tasks) \in Nat
  BY FS_CardinalityType
<1>8. PlacePaysForBypass'
  <2> SUFFICES ASSUME NEW i \in 1..(Len(queue) - 1)
               PROVE  bypass'[queue'[i]] + i <= Cardinality(Tasks)
    BY <1>3 DEF PlacePaysForBypass
  <2>1. \E j \in DOMAIN queue : i <= j /\ queue'[i] = queue[j]
    BY <1>1, <1>a, Zenon
  <2>2. PICK j \in DOMAIN queue : i <= j /\ queue'[i] = queue[j]
    BY <2>1
  <2>3. bypass[queue[j]] + j <= Cardinality(Tasks) /\ queue[j] \in Tasks /\ j \in Nat
    BY <1>1 DEF PlaceInv, PlacePaysForBypass
  <2>4. bypass'[queue[j]] <= bypass[queue[j]] /\ bypass'[queue[j]] \in Nat /\ bypass[queue[j]] \in Nat
    BY <2>3, <1>1, <1>4
  <2> QED  BY <2>2, <2>3, <2>4, <1>7
<1>9. OthersNotBypassed'
  <2>1. \A u \in Queued \ {t} : u \in Queued'
    <3> SUFFICES ASSUME NEW j \in 1..Len(queue), j # k
                 PROVE  \E i \in 1..(Len(queue) - 1) : queue'[i] = queue[j]
      <4>1. Queued = {queue[j] : j \in 1..Len(queue)}
        BY <1>1 DEF Queued, ToSet
      <4>2. Queued' = {queue'[i] : i \in 1..(Len(queue) - 1)}
        BY <1>3 DEF Queued, ToSet
      <4> QED  BY <4>1, <4>2, <1>2, Zenon
    <3>1. CASE j < k
      <4>1. j \in 1..(Len(queue) - 1)
        BY <3>1, <1>1
      <4> QED  BY <3>1, <4>1, <1>3
    <3>2. CASE j > k
      <4>1. j - 1 \in 1..(Len(queue) - 1) /\ ~(j - 1 < k) /\ (j - 1) + 1 = j
        BY <3>2, <1>1
      <4> QED  BY <4>1, <1>3
    <3> QED  BY <3>1, <3>2, <1>1
  <2>2. \A u \in Tasks \ {t} : u \notin Waiting' => u \notin Waiting
    BY <2>1, <1>4 DEF Waiting
  <2> QED  BY <2>2, <1>1, <1>4 DEF PlaceInv, OthersNotBypassed
<1> QED  BY <1>5, <1>6, <1>8, <1>9 DEF PlaceInv

(***************************************************************************)
(* Blocking and unblocking change one task's history and no place.         *)
(***************************************************************************)
LEMMA RunStatePreserves ==
  ASSUME PlaceInv, NEW t \in Tasks, Block(t) \/ Unblock(t)
  PROVE  PlaceInv'
<1> USE RoundRobinAssumption
<1>1. /\ queue' = queue /\ scan' = scan /\ idleAt' = idleAt
      /\ bypass' = [bypass EXCEPT ![t] = 0] /\ runnable' \subseteq Tasks
      /\ stayed' \subseteq Tasks /\ runnable \ {t} = runnable' \ {t}
  BY DEF PlaceInv, TypeOK, Block, Unblock, Reset
<1>2. /\ bypass \in [Tasks -> Nat] /\ queue \in Seq(Tasks) /\ DOMAIN queue = 1..Len(queue)
      /\ \A i \in DOMAIN queue : queue[i] \in Tasks
  BY DEF PlaceInv, TypeOK
<1>3. bypass' \in [Tasks -> Nat] /\ \A u \in Tasks : bypass'[u] = 0 \/ bypass'[u] = bypass[u]
  BY <1>1, <1>2
<1>4. TypeOK' /\ UnlockedIsReset' /\ NotPassedItself' /\ NoDuplicates'
  BY <1>1, <1>3 DEF PlaceInv, TypeOK, UnlockedIsReset, NotPassedItself, NoDuplicates
<1>5. Passed'
  BY <1>1, <1>2, <1>3 DEF PlaceInv, Passed
<1>6. PlacePaysForBypass'
  <2> SUFFICES ASSUME NEW i \in DOMAIN queue
               PROVE  bypass'[queue[i]] + i <= Cardinality(Tasks)
    BY <1>1 DEF PlacePaysForBypass
  <2>1. bypass[queue[i]] + i <= Cardinality(Tasks) /\ bypass[queue[i]] \in Nat /\ i \in Nat
    BY <1>2 DEF PlaceInv, PlacePaysForBypass
  <2>2. Cardinality(Tasks) \in Nat
    BY FS_CardinalityType
  <2>3. bypass'[queue[i]] = 0 \/ bypass'[queue[i]] = bypass[queue[i]]
    BY <1>2, <1>3, Zenon
  <2>4. i <= Cardinality(Tasks)
    BY <2>1, <2>2
  <2>5. CASE bypass'[queue[i]] = 0
    BY <2>1, <2>2, <2>4, <2>5
  <2>6. CASE bypass'[queue[i]] = bypass[queue[i]]
    BY <2>1, <2>6
  <2> QED  BY <2>3, <2>5, <2>6
<1>7. OthersNotBypassed'
  <2>1. \A u \in Tasks \ {t} : u \notin Waiting' => u \notin Waiting
    BY <1>1 DEF Waiting, Queued
  <2> QED  BY <2>1, <1>1, <1>2 DEF PlaceInv, OthersNotBypassed
<1> QED  BY <1>4, <1>5, <1>6, <1>7 DEF PlaceInv

(***************************************************************************)
(* A step of the scan that selects nothing.                                *)
(***************************************************************************)
LEMMA ScanPreserves ==
  ASSUME PlaceInv, UNCHANGED <<queue, bypass, runnable>>, stayed' \subseteq Tasks,
         scan' \in 0 .. Len(queue) + 1,
         scan' = 0 => idleAt' = 0, idleAt' \in 0 .. Len(queue), idleAt' < scan' \/ idleAt' = 0,
         \A i \in DOMAIN queue : i < scan' => i < scan \/ bypass[queue[i]] = 0
  PROVE  PlaceInv'
<1>1. TypeOK' /\ UnlockedIsReset' /\ NotPassedItself' /\ NoDuplicates'
  BY DEF PlaceInv, TypeOK, UnlockedIsReset, NotPassedItself, NoDuplicates
<1>2. Passed' /\ PlacePaysForBypass'
  BY DEF PlaceInv, Passed, PlacePaysForBypass
<1>3. OthersNotBypassed'
  BY DEF PlaceInv, OthersNotBypassed, Waiting, Queued
<1> QED  BY <1>1, <1>2, <1>3 DEF PlaceInv

LEMMA LookPreserves == ASSUME PlaceInv, Look PROVE PlaceInv'
<1>1. /\ queue \in Seq(Tasks) /\ Len(queue) \in Nat /\ DOMAIN queue = 1..Len(queue)
      /\ scan \in 1..Len(queue) /\ idleAt \in 0 .. Len(queue) /\ queue[scan] \in Tasks
      /\ runnable' = runnable
  BY DEF PlaceInv, TypeOK, Look
<1>2. CASE queue[scan] # Idle /\ queue[scan] \in runnable
  BY <1>1, <1>2, ChoosePreserves DEF Look
<1>3. CASE ~(queue[scan] # Idle /\ queue[scan] \in runnable)
  <2>1. /\ scan' = scan + 1 /\ idleAt' = (IF queue[scan] = Idle THEN scan ELSE idleAt)
        /\ queue' = queue /\ bypass' = bypass /\ stayed' \subseteq Tasks
    BY <1>3 DEF Look, PlaceInv, TypeOK
  <2>2. bypass[queue[scan]] = 0
    BY <1>1, <1>3 DEF PlaceInv, OthersNotBypassed, Waiting
  <2>3. \A i \in DOMAIN queue : i < scan' => i < scan \/ bypass[queue[i]] = 0
    BY <1>1, <2>1, <2>2
  <2>4. /\ idleAt' \in 0 .. Len(queue) /\ (idleAt' < scan' \/ idleAt' = 0)
        /\ scan' \in 0 .. Len(queue) + 1 /\ scan' # 0
    BY <1>1, <2>1 DEF PlaceInv, NotPassedItself
  <2> QED  BY <1>1, <2>1, <2>3, <2>4, ScanPreserves
<1> QED  BY <1>2, <1>3

LEMMA NextPlaceInv == PlaceInv /\ [Next]_vars => PlaceInv'
<1> SUFFICES ASSUME PlaceInv, [Next]_vars PROVE PlaceInv'
  OBVIOUS
<1>0. Len(queue) \in Nat /\ DOMAIN queue = 1..Len(queue) /\ scan \in Nat /\ idleAt \in 0 .. Len(queue)
  BY DEF PlaceInv, TypeOK
<1>1. ASSUME NEW t \in Tasks, AddTask(t) PROVE PlaceInv'
  BY <1>1, AddPreserves
<1>2. ASSUME NEW t \in Tasks, RemoveTask(t) PROVE PlaceInv'
  BY <1>2, RemovePreserves
<1>3. ASSUME NEW t \in Tasks, Block(t) \/ Unblock(t) PROVE PlaceInv'
  BY <1>3, RunStatePreserves
<1>4. CASE LockQueue
  <2>1. /\ scan' = 1 /\ idleAt' = 0 /\ UNCHANGED <<queue, bypass, runnable>>
        /\ stayed' \subseteq Tasks
    BY <1>4 DEF LockQueue, PlaceInv, TypeOK, UnlockedIsReset, Waiting
  <2>2. \A i \in DOMAIN queue : ~(i < scan')
    BY <1>0, <2>1
  <2> QED  BY <1>0, <2>1, <2>2, ScanPreserves
<1>5. CASE Look
  BY <1>5, LookPreserves
<1>6. CASE TakeIdle
  <2>1. CASE idleAt # 0
    <3>1. idleAt \in DOMAIN queue /\ idleAt <= scan /\ Choose(idleAt) /\ UNCHANGED runnable
      BY <1>0, <1>6, <2>1 DEF TakeIdle
    <3> QED  BY <3>1, ChoosePreserves
  <2>2. CASE idleAt = 0
    <3>1. scan' = 0 /\ idleAt' = 0 /\ stayed' = {} /\ UNCHANGED <<queue, bypass, runnable>>
      BY <1>6, <2>2 DEF TakeIdle
    <3>2. \A i \in DOMAIN queue : ~(i < scan')
      BY <1>0, <3>1
    <3> QED  BY <1>0, <3>1, <3>2, ScanPreserves
  <2> QED  BY <2>1, <2>2
<1>7. CASE UNCHANGED vars
  BY <1>7 DEF vars, PlaceInv, TypeOK, UnlockedIsReset, NotPassedItself, NoDuplicates, Passed,
     PlacePaysForBypass, OthersNotBypassed, Waiting, Queued
<1> QED  BY <1>1, <1>2, <1>3, <1>4, <1>5, <1>6, <1>7 DEF Next

(***************************************************************************)
(* The tasks that stay runnable remain ahead of the scan: only a look      *)
(* moves the scan, past a task that is the idle one or not runnable, and   *)
(* nothing else moves in the queue while the scan goes on.                 *)
(***************************************************************************)
LEMMA NextStayed == PlaceInv /\ StayedIsAhead /\ [Next]_vars => StayedIsAhead'
<1> SUFFICES ASSUME PlaceInv, StayedIsAhead, [Next]_vars PROVE StayedIsAhead'
  OBVIOUS
<1>0. Len(queue) \in Nat /\ DOMAIN queue = 1..Len(queue) /\ scan \in Nat
  BY DEF PlaceInv, TypeOK
<1>1. ASSUME stayed' = {} PROVE StayedIsAhead'
  BY <1>1 DEF StayedIsAhead
<1>2. ASSUME NEW t \in Tasks, AddTask(t) \/ RemoveTask(t) PROVE StayedIsAhead'
  <2>1. stayed' = {}
    BY <1>2 DEF AddTask, RemoveTask, StayedIsAhead
  <2> QED  BY <2>1, <1>1
<1>3. ASSUME NEW t \in Tasks, Block(t) \/ Unblock(t) PROVE StayedIsAhead'
  BY <1>3 DEF StayedIsAhead, Block, Unblock, Waiting, Queued
<1>4. CASE LockQueue
  <2>1. stayed' = Waiting' /\ scan' = 1 /\ queue' = queue
    BY <1>4 DEF LockQueue, Waiting, Queued
  <2> QED  BY <1>0, <2>1 DEF StayedIsAhead
<1>5. CASE Look
  <2>1. CASE queue[scan] # Idle /\ queue[scan] \in runnable
    BY <1>1, <1>5, <2>1 DEF Look, Choose
  <2>2. CASE ~(queue[scan] # Idle /\ queue[scan] \in runnable)
    <3>1. scan' = scan + 1 /\ scan # 0 /\ UNCHANGED <<queue, runnable, stayed>>
      BY <1>0, <1>5, <2>2 DEF Look
    <3>2. queue[scan] \notin stayed
      BY <2>2 DEF StayedIsAhead, Waiting
    <3>3. \A i \in DOMAIN queue : i < scan + 1 => i < scan \/ i = scan
      BY <1>0
    <3> QED  BY <1>0, <3>1, <3>2, <3>3 DEF StayedIsAhead, Waiting, Queued
  <2> QED  BY <2>1, <2>2
<1>6. CASE TakeIdle
  BY <1>1, <1>6 DEF TakeIdle, Choose
<1>7. CASE UNCHANGED vars
  BY <1>7 DEF vars, StayedIsAhead, Waiting, Queued
<1> QED  BY <1>2, <1>3, <1>4, <1>5, <1>6, <1>7 DEF Next

(***************************************************************************)
(* The place of a task pays for its bypasses; as a place is at least 1,    *)
(* there are fewer of them than tasks.                                     *)
(***************************************************************************)
LEMMA PlaceInvBounds == PlaceInv => BoundedBypass
<1> SUFFICES ASSUME PlaceInv, NEW t \in Tasks PROVE bypass[t] < Cardinality(Tasks)
  BY DEF BoundedBypass
<1>1. Cardinality(Tasks) \in Nat /\ Cardinality(Tasks) # 0 /\ bypass[t] \in Nat
  BY RoundRobinAssumption, FS_CardinalityType, FS_EmptySet DEF PlaceInv, TypeOK
<1>2. CASE t \in Waiting
  <2>1. PICK i \in DOMAIN queue : queue[i] = t
    BY <1>2 DEF Waiting, Queued, ToSet
  <2>2. i \in Nat /\ i >= 1
    BY <2>1 DEF PlaceInv, TypeOK
  <2> QED  BY <1>1, <2>1, <2>2 DEF PlaceInv, PlacePaysForBypass
<1>3. CASE t \notin Waiting
  BY <1>1, <1>3 DEF PlaceInv, OthersNotBypassed
<1> QED  BY <1>2, <1>3

(***************************************************************************)
(* For any finite set of tasks, the invariant of the runqueue holds: the   *)
(* place of a task plus the times it was bypassed never exceeds the number *)
(* of tasks, and a task that stays runnable during a scan is ahead of it   *)
(* (select_next_task, move_to_end).                                        *)
(***************************************************************************)
THEOREM RunqueueInvariant == Spec => []IInv
<1>1. Init => IInv
  BY InitPlaceInv DEF Init, IInv, StayedIsAhead
<1>2. IInv /\ [Next]_vars => IInv'
  BY NextPlaceInv, NextStayed DEF IInv
<1> QED  BY <1>1, <1>2, PTL DEF Spec

(***************************************************************************)
(* A runnable task is bypassed fewer times than there are tasks.           *)
(***************************************************************************)
THEOREM NoStarvation == Spec => []BoundedBypass
<1>1. IInv => BoundedBypass
  BY PlaceInvBounds DEF IInv
<1> QED  BY RunqueueInvariant, <1>1, PTL

(***************************************************************************)
(* A step that selects the idle task has scanned the whole queue.          *)
(***************************************************************************)
IdleStep == scan # 0 /\ scan' = 0 /\ Last(queue') = Idle => stayed = {}

LEMMA NextIdleStep == IInv /\ [Next]_vars => [IdleStep]_vars
<1> SUFFICES ASSUME IInv, [Next]_vars, scan # 0, scan' = 0, Last(queue') = Idle
             PROVE  stayed = {}
  BY DEF IdleStep
<1>1. /\ queue \in Seq(Tasks) /\ Len(queue) \in Nat /\ DOMAIN queue = 1..Len(queue)
      /\ scan \in Nat /\ NoDuplicates /\ StayedIsAhead
  BY DEF IInv, PlaceInv, TypeOK
<1>2. CASE Look
  <2>1. scan \in DOMAIN queue /\ queue' = MoveToEnd(queue, scan) /\ queue[scan] # Idle
    BY <1>1, <1>2 DEF Look, Choose
  <2>2. Moved(Tasks, queue, scan, queue')
    BY <1>1, <2>1, MoveToEndFacts DEF NoDuplicates
  <2>3. Len(queue') = Len(queue) /\ Len(queue) \in DOMAIN queue'
    BY <1>1, <2>1, <2>2 DEF Moved
  <2>4. queue'[Len(queue')] = queue[scan]
    BY <2>2, <2>3 DEF Moved
  <2> QED  BY <2>1, <2>4 DEF Last
<1>3. CASE TakeIdle
  <2>1. \A i \in DOMAIN queue : i < scan
    BY <1>1, <1>3 DEF TakeIdle
  <2>2. \A i \in DOMAIN queue : queue[i] \notin stayed
    BY <1>1, <2>1 DEF StayedIsAhead
  <2> QED  BY <1>1, <2>2 DEF StayedIsAhead, Waiting, Queued, ToSet
<1>4. ~LockQueue /\ \A t \in Tasks : ~(AddTask(t) \/ RemoveTask(t) \/ Block(t) \/ Unblock(t))
  BY DEF LockQueue, AddTask, RemoveTask, Block, Unblock
<1>5. ~UNCHANGED vars
  BY DEF vars
<1> QED  BY <1>2, <1>3, <1>4, <1>5 DEF Next

(***************************************************************************)
(* For any finite set of tasks, the idle task is selected only when no     *)
(* other task has been runnable all through the scan (select_next_task).   *)
(***************************************************************************)
THEOREM IdleOnlyWhenNoneWaits == Spec => IdleIsLast
<1>1. [][IdleStep]_vars => IdleIsLast
  BY DEF IdleStep, IdleIsLast
<1> QED  BY <1>1, RunqueueInvariant, NextIdleStep, PTL DEF Spec
=============================================================================
