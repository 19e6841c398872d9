-------------------------- MODULE MapReduceProofs --------------------------
(***************************************************************************)
(* The invariants of the coordinator of module MapReduce, for any tasks,   *)
(* any workers and any number of dispatches.  Module MapReduceWorkProofs   *)
(* has shown that a step keeps WorkInv; here the tasks are counted.        *)
(***************************************************************************)
EXTENDS MapReduceWorkProofs, FiniteSetTheorems

\* The provers of a leaf that names none, in the order they are tried.
USE ZenonT(2), SMTT(30), Zenon

----------------------------------------------------------------------------
(* Counting.                                                               *)

\* The number of times a task is in a queue is a number.
LEMMA CountType ==
  ASSUME NEW q \in Seq(Task), NEW t
  PROVE  IsFiniteSet({n \in DOMAIN q : q[n] = t}) /\ Count(q, t) \in Nat
<1>1. DOMAIN q = 1..Len(q) /\ Len(q) \in Nat BY SMTT(30)
<1>2. IsFiniteSet(1..Len(q)) BY <1>1, FS_Interval, SMTT(30)
<1>3. {n \in DOMAIN q : q[n] = t} \in SUBSET (1..Len(q)) BY <1>1
<1>4. IsFiniteSet({n \in DOMAIN q : q[n] = t}) BY <1>2, <1>3, FS_Subset
<1> QED BY <1>4, FS_CardinalityType DEF Count

\* One more task at the front of a queue.
LEMMA CountFront ==
  ASSUME NEW p \in Seq(Task), NEW q \in Seq(Task), NEW t,
         Len(p) = Len(q) + 1, \A n \in 1..Len(q) : q[n] = p[n + 1]
  PROVE  Count(p, t) = Count(q, t) + (IF p[1] = t THEN 1 ELSE 0)
<1> DEFINE A == {n \in DOMAIN q : q[n] = t}
           B == {n \in DOMAIN p : p[n] = t}
           f == [n \in A |-> n + 1]
<1>1. IsFiniteSet(A) /\ IsFiniteSet(B) BY CountType, ZenonT(30)
<1>2. DOMAIN q = 1..Len(q) /\ DOMAIN p = 1..Len(p) /\ Len(q) \in Nat BY SMTT(30)
<1>3. f \in Bijection(A, B \ {1})
  <2>1. \A n \in A : f[n] \in B \ {1} BY <1>2, SMTT(30)
  <2>2. f \in [A -> B \ {1}] BY <2>1
  <2>3. \A a, b \in A : f[a] = f[b] => a = b BY <1>2, SMTT(30)
  <2>4. \A b \in B \ {1} : \E a \in A : f[a] = b
    <3>1. SUFFICES ASSUME NEW b \in B \ {1} PROVE \E a \in A : f[a] = b
      OBVIOUS
    <3>2. b - 1 \in A /\ f[b - 1] = b BY <1>2, SMTT(30)
    <3> QED BY <3>2
  <2> QED BY <2>2, <2>3, <2>4 DEF Bijection, Injection, Surjection, IsInjective
<1>4. Cardinality(B \ {1}) = Cardinality(A)
  BY <1>1, <1>3, FS_Bijection DEF ExistsBijection
<1>5. Cardinality(B \ {1}) = IF 1 \in B THEN Cardinality(B) - 1 ELSE Cardinality(B)
  BY <1>1, FS_RemoveElement, ZenonT(30)
<1>6. 1 \in B <=> p[1] = t BY <1>2, SMTT(30)
<1>7. Count(p, t) = Cardinality(B) /\ Count(q, t) = Cardinality(A) BY DEF Count
<1>8. Cardinality(A) \in Nat /\ Cardinality(B) \in Nat
  BY <1>1, FS_CardinalityType
<1> HIDE DEF A, B
<1> QED BY <1>4, <1>5, <1>6, <1>7, <1>8, SMTT(30)

\* getTask takes the front of a queue.
LEMMA CountTail ==
  ASSUME NEW q \in Seq(Task), NEW t, q # << >>
  PROVE  Count(q, t) = Count(Tail(q), t) + (IF Head(q) = t THEN 1 ELSE 0)
<1>1. /\ Tail(q) \in Seq(Task) /\ Len(q) = Len(Tail(q)) + 1
      /\ \A n \in 1..Len(Tail(q)) : Tail(q)[n] = q[n + 1]
      /\ Head(q) = q[1]
  BY SMTT(30)
<1> QED BY <1>1, CountFront, ZenonT(30)

\* A sequence as long as the set it enumerates has every element once.
LEMMA CountInit ==
  ASSUME NEW q \in [1..Cardinality(MapTask) -> MapTask],
         {q[n] : n \in DOMAIN q} = MapTask,
         NEW t \in MapTask
  PROVE  Count(q, t) = 1
<1> DEFINE S == 1..Cardinality(MapTask)
<1>1. Cardinality(MapTask) \in Nat BY MRAssumption, FS_CardinalityType
<1>2. IsFiniteSet(S) /\ Cardinality(S) = Cardinality(MapTask)
  BY <1>1, FS_Interval, SMTT(30)
<1>3. q \in Surjection(S, MapTask) BY DEF Surjection
<1>4. q \in Injection(S, MapTask)
  BY <1>2, <1>3, FS_SurjSameCardinalityImpliesInj
<1>5. PICK n \in S : q[n] = t OBVIOUS
<1>6. \A m \in S : q[m] = t => m = n
  BY <1>4, <1>5 DEF Injection, IsInjective
<1>7. {m \in DOMAIN q : q[m] = t} = {n} BY <1>5, <1>6
<1> QED BY <1>7, FS_Singleton, ZenonT(30) DEF Count

----------------------------------------------------------------------------
(* What a step does to the places and the counters.                        *)

\* The sets behind the counters are finite.
LEMMA FiniteSets ==
  ASSUME Typed
  PROVE  /\ \A t : IsFiniteSet(Live(t)) /\ Cardinality(Live(t)) \in Nat
         /\ \A S \in SUBSET Task :
              IsFiniteSet(Open(S)) /\ Cardinality(Open(S)) \in Nat
<1>1. Len(task) \in Nat BY SMTT(30) DEF Typed
<1>2. IsFiniteSet(ID) BY <1>1, FS_Interval, SMTT(30) DEF ID
<1>3. ASSUME NEW t PROVE IsFiniteSet(Live(t)) /\ Cardinality(Live(t)) \in Nat
  <2>1. Live(t) \in SUBSET ID BY DEF Live, Dispatches
  <2>2. IsFiniteSet(Live(t)) BY <1>2, <2>1, FS_Subset
  <2> QED BY <2>2, FS_CardinalityType
<1>4. IsFiniteSet(Task) BY MRAssumption, FS_Union, ZenonT(30) DEF Task
<1>5. ASSUME NEW S \in SUBSET Task
      PROVE  IsFiniteSet(Open(S)) /\ Cardinality(Open(S)) \in Nat
  <2>1. Open(S) \in SUBSET Task BY DEF Open
  <2>2. IsFiniteSet(Open(S)) BY <1>4, <2>1, FS_Subset
  <2> QED BY <2>2, FS_CardinalityType
<1> QED BY <1>3, <1>5

\* The part of the invariant that is shown here: the WaitGroups are bounded,
\* every task has its place, the counters are exact, the phases are right.
Placed == TypeOK /\ OnePlace /\ CountersExact /\ Phases

\* A step that moves no task, times nothing out and finishes nothing.
LEMMA Frame ==
  ASSUME Placed, Typed', UNCHANGED <<queue, hand, wg, phase, toAdd, adding, panicked>>,
         \A t \in Task : Live(t)' = Live(t) /\ (Finished(t)' <=> Finished(t))
  PROVE  Placed'
<1> USE DEF Placed
<1>1. Added' = Added BY DEF Added
<1>2. OnePlace' BY <1>1 DEF OnePlace
<1>3. /\ Open(MapTask)' = Open(MapTask)
      /\ Open(Added \cap ReduceTask)' = Open(Added \cap ReduceTask)
  BY <1>1 DEF Open, Task
<1>4. CountersExact' BY <1>1, <1>3 DEF CountersExact
<1>5. Phases' BY DEF Phases, Task
<1>6. TypeOK' BY DEF TypeOK
<1> QED BY <1>2, <1>4, <1>5, <1>6

\* Such a step that is neither the timeout nor the count.
LEMMA MonMovesSame ==
  ASSUME Typed, NEW i \in ID, NEW to \in MonState \ {"late", "over"},
         mon[i] \notin {"late", "over"},
         task' = task, mon' = [mon EXCEPT ![i] = to]
  PROVE  \A t : Live(t)' = Live(t) /\ (Finished(t)' <=> Finished(t))
<1>1. /\ \A j \in ID : mon'[j] = IF j = i THEN to ELSE mon[j]
      /\ \A t : Dispatches(t)' = Dispatches(t)
  BY MonMoves, ZenonT(30)
<1>2. \A t : Dispatches(t) \subseteq ID BY DEF Dispatches
<1>3. ASSUME NEW t PROVE Live(t)' = Live(t)
  BY <1>1, <1>2 DEF Live
<1>4. ASSUME NEW t PROVE Finished(t)' <=> Finished(t)
  BY <1>1, <1>2 DEF Finished
<1> QED BY <1>3, <1>4

\* A dispatch that has not timed out is the only one of its task, which then
\* is in no queue, and has been added.
LEMMA OnlyLive ==
  ASSUME Typed, OnePlace, NEW i \in ID, mon[i] # "late"
  PROVE  /\ task[i] \in Added
         /\ \A j \in ID : task[j] = task[i] /\ mon[j] # "late" => j = i
         /\ hand[TypeOf(task[i])] # task[i]
         /\ Live(task[i]) = {i}
<1> DEFINE t == task[i]
<1>1. t \in Task BY SMTT(30) DEF Typed, ID
<1>2. i \in Live(t) BY DEF Live, Dispatches
<1>3. IsFiniteSet(Live(t)) /\ Cardinality(Live(t)) \in Nat BY FiniteSets
<1>4. Cardinality(Live(t)) # 0 BY <1>2, <1>3, FS_EmptySet
<1>5. TypeOf(t) \in Type BY DEF TypeOf, Type
<1>6. Count(queue[TypeOf(t)], t) \in Nat BY <1>5, CountType, ZenonT(30) DEF Typed
<1>7. Count(queue[TypeOf(t)], t) + (IF hand[TypeOf(t)] = t THEN 1 ELSE 0)
        + Cardinality(Live(t)) = (IF t \in Added THEN 1 ELSE 0)
  BY <1>1 DEF OnePlace
<1>8. t \in Added /\ Cardinality(Live(t)) = 1 /\ hand[TypeOf(t)] # t
  BY <1>3, <1>4, <1>6, <1>7, SMTT(30)
<1>9. Live(t) = {i} BY <1>2, <1>3, <1>8, FS_Singleton, SMTT(30)
<1>10. ASSUME NEW j \in ID, task[j] = t, mon[j] # "late" PROVE j = i
  BY <1>9, <1>10, SMTT(30) DEF Live, Dispatches
<1> QED BY <1>8, <1>9, <1>10

\* addTask puts one more occurrence of a task into its queue.
LEMMA AddTaskCount ==
  ASSUME Typed, NEW h \in Task,
         queue' = [queue EXCEPT ![TypeOf(h)] = << h >> \o @], NEW t \in Task
  PROVE  /\ Count(queue[TypeOf(t)], t) \in Nat
         /\ Count(queue'[TypeOf(t)], t)
              = Count(queue[TypeOf(t)], t) + (IF h = t THEN 1 ELSE 0)
<1>1. /\ queue' \in [Type -> Seq(Task)]
      /\ \A y \in Type : y # TypeOf(h) => queue'[y] = queue[y]
      /\ Len(queue'[TypeOf(h)]) = Len(queue[TypeOf(h)]) + 1
      /\ queue'[TypeOf(h)][1] = h
      /\ \A n \in 1..Len(queue[TypeOf(h)]) :
           queue[TypeOf(h)][n] = queue'[TypeOf(h)][n + 1]
  BY AddTask
<1>2. TypeOf(t) \in Type /\ TypeOf(h) \in Type BY DEF TypeOf, Type
<1>3. queue[TypeOf(t)] \in Seq(Task) /\ queue[TypeOf(h)] \in Seq(Task)
  BY <1>2 DEF Typed
<1>4. queue'[TypeOf(h)] \in Seq(Task) BY <1>1, <1>2
<1>5. Count(queue[TypeOf(t)], t) \in Nat BY <1>3, CountType, ZenonT(30)
<1>6. CASE TypeOf(t) = TypeOf(h)
  <2>1. Count(queue'[TypeOf(h)], t)
          = Count(queue[TypeOf(h)], t) + (IF queue'[TypeOf(h)][1] = t THEN 1 ELSE 0)
    <3> DEFINE p == queue'[TypeOf(h)]
               q == queue[TypeOf(h)]
    <3>1. /\ p \in Seq(Task) /\ q \in Seq(Task) /\ Len(p) = Len(q) + 1
          /\ \A n \in 1..Len(q) : q[n] = p[n + 1]
      BY <1>1, <1>3, <1>4, ZenonT(30)
    <3> HIDE DEF p, q
    <3>2. Count(p, t) = Count(q, t) + (IF p[1] = t THEN 1 ELSE 0)
      BY <3>1, CountFront, ZenonT(30)
    <3> QED BY <3>2 DEF p, q
  <2> QED BY <1>1, <1>5, <1>6, <2>1
<1>7. CASE TypeOf(t) # TypeOf(h)
  <2>1. queue'[TypeOf(t)] = queue[TypeOf(t)] /\ h # t BY <1>1, <1>2, <1>7
  <2> QED BY <1>5, <2>1, SMTT(30)
<1> QED BY <1>5, <1>6, <1>7

----------------------------------------------------------------------------
(* The steps that move a task, or finish one.                              *)

\* getTask moves a task from the front of its queue to a new dispatch.
LEMMA GetTaskPlaced ==
  ASSUME Typed, Typed', Placed, NEW w \in Worker, GetTask(w)
  PROVE  Placed'
<1> USE DEF Placed
<1> DEFINE y == IF queue["map"] # << >> THEN "map" ELSE "reduce"
           h == Head(queue[y])
           n == Len(task) + 1
<1>1. /\ queue[y] # << >>
      /\ queue' = [queue EXCEPT ![y] = Tail(@)]
      /\ task' = Append(task, h) /\ mon' = Append(mon, "new")
      /\ UNCHANGED <<hand, wg, phase, toAdd, adding, panicked>>
  BY DEF GetTask, endVars
<1>2. y \in Type BY DEF Type
<1> HIDE DEF y
<1>3. /\ queue[y] \in Seq(Task) /\ Tail(queue[y]) \in Seq(Task) /\ h \in Task
      /\ \A m \in 1..Len(Tail(queue[y])) : Tail(queue[y])[m] = queue[y][m + 1]
      /\ Len(Tail(queue[y])) = Len(queue[y]) - 1
      /\ Len(queue[y]) \in Nat /\ h = queue[y][1] /\ Len(queue[y]) > 0
  BY <1>1, <1>2, SMTT(30) DEF Typed
<1>4. TypeOf(h) = y BY <1>2, <1>3, SMTT(30) DEF Typed
<1> HIDE DEF h
<1>5. /\ Len(task) \in Nat /\ task \in Seq(Task) /\ mon \in Seq(MonState)
      /\ Len(mon) = Len(task) /\ ID = 1..Len(task)
  BY SMTT(30) DEF Typed, ID
<1>6. /\ task' \in Seq(Task) /\ Len(task') = n /\ task'[n] = h
      /\ \A j \in ID : task'[j] = task[j]
  BY <1>1, <1>3, <1>5, SMTT(30)
<1>7. /\ mon' \in Seq(MonState) /\ Len(mon') = n /\ mon'[n] = "new"
      /\ \A j \in ID : mon'[j] = mon[j]
  BY <1>1, <1>5, SMTT(30) DEF MonState
<1>8. n \in Nat /\ n \notin ID /\ ID' = ID \cup {n}
  BY <1>5, <1>6, SMTT(30) DEF ID
<1> HIDE DEF n
<1>9. \A t : Dispatches(t)' = Dispatches(t) \cup (IF t = h THEN {n} ELSE {})
  BY <1>6, <1>8 DEF Dispatches
<1>10. \A t : Live(t)' = Live(t) \cup (IF t = h THEN {n} ELSE {})
  <2>1. ASSUME NEW t PROVE Live(t)' = Live(t) \cup (IF t = h THEN {n} ELSE {})
    <3>1. \A j \in Dispatches(t) : j \in ID BY DEF Dispatches
    <3>2. \A j : j \in Live(t)' <=> j \in Dispatches(t)' /\ mon'[j] # "late"
      BY DEF Live
    <3>3. \A j : j \in Live(t) <=> j \in Dispatches(t) /\ mon[j] # "late"
      BY DEF Live
    <3>4. \A j : j \in Live(t)' <=> j \in Live(t) \/ (t = h /\ j = n)
      BY <1>7, <1>9, <3>1, <3>2, <3>3
    <3> QED BY <3>4
  <2> QED BY <2>1
<1>11. \A t : Finished(t)' <=> Finished(t)
  <2>1. ASSUME NEW t PROVE Finished(t)' <=> Finished(t)
    <3>1. Dispatches(t) \subseteq ID BY DEF Dispatches
    <3>2. \A j \in Dispatches(t)' : mon'[j] = "over" => j \in Dispatches(t)
      BY <1>7, <1>9
    <3>3. Dispatches(t) \subseteq Dispatches(t)' BY <1>9
    <3> QED BY <1>7, <3>1, <3>2, <3>3 DEF Finished
  <2> QED BY <2>1
<1>12. Added' = Added BY <1>1 DEF Added
<1>13. OnePlace'
  <2>1. SUFFICES ASSUME NEW t \in Task
                 PROVE    Count(queue'[TypeOf(t)], t)
                        + (IF hand'[TypeOf(t)] = t THEN 1 ELSE 0)
                        + Cardinality(Live(t)')
                        = (IF t \in Added' THEN 1 ELSE 0)
    BY DEF OnePlace
  <2>2. TypeOf(t) \in Type BY DEF TypeOf, Type
  <2>3. IsFiniteSet(Live(t)) /\ Cardinality(Live(t)) \in Nat
    BY FiniteSets
  <2>4. Count(queue[TypeOf(t)], t) = Count(queue'[TypeOf(t)], t)
                                     + (IF h = t THEN 1 ELSE 0)
    <3>1. CASE TypeOf(t) = y
      <4>1. queue'[TypeOf(t)] = Tail(queue[y])
        BY <1>1, <1>2, <3>1 DEF Typed
      <4> QED BY <1>1, <1>3, <3>1, <4>1, CountTail, SMTT(30) DEF h
    <3>2. CASE TypeOf(t) # y
      <4>1. h # t /\ queue'[TypeOf(t)] = queue[TypeOf(t)]
        BY <1>1, <1>4, <2>2, <3>2 DEF Typed
      <4>2. Count(queue[TypeOf(t)], t) \in Nat
        BY <2>2, CountType, ZenonT(30) DEF Typed
      <4> QED BY <4>1, <4>2, SMTT(30)
    <3> QED BY <3>1, <3>2
  <2>5. Cardinality(Live(t)') = Cardinality(Live(t)) + (IF h = t THEN 1 ELSE 0)
    <3>1. n \notin Live(t) BY <1>8 DEF Live, Dispatches
    <3>2. CASE h = t BY <1>10, <2>3, <3>1, <3>2, FS_AddElement
    <3>3. CASE h # t
      <4>1. Live(t)' = Live(t) BY <1>10, <3>3
      <4> QED BY <2>3, <3>3, <4>1, SMTT(30)
    <3> QED BY <3>2, <3>3
  <2>6. Count(queue'[TypeOf(t)], t) \in Nat
    BY <2>2, CountType, ZenonT(30) DEF Typed
  <2>7.   Count(queue[TypeOf(t)], t) + (IF hand[TypeOf(t)] = t THEN 1 ELSE 0)
        + Cardinality(Live(t)) = (IF t \in Added THEN 1 ELSE 0)
    BY DEF OnePlace
  <2>8. hand' = hand /\ (t \in Added' <=> t \in Added) BY <1>1, <1>12
  <2> QED BY <2>3, <2>4, <2>5, <2>6, <2>7, <2>8, SMTT(30)
<1>14. CountersExact'
  <2>1. /\ Open(MapTask)' = Open(MapTask)
        /\ Open(Added \cap ReduceTask)' = Open(Added \cap ReduceTask)
    BY <1>11, <1>12 DEF Open
  <2> QED BY <1>1, <2>1 DEF CountersExact
<1>15. Phases' BY <1>1, <1>11 DEF Phases
<1>16. TypeOK' BY <1>1 DEF TypeOK
<1> QED BY <1>13, <1>14, <1>15, <1>16

\* timeOut: a task on its way back to its queue; the dispatch is late.
LEMMA TimeOutPlaced ==
  ASSUME Typed, Typed', Placed, NEW i \in ID, TimeOut(i)
  PROVE  Placed'
<1> USE DEF Placed
<1> DEFINE h == task[i]
           y == TypeOf(h)
<1>1. /\ mon[i] = "timer" /\ mon' = [mon EXCEPT ![i] = "late"] /\ hand[y] = None
      /\ hand' = [hand EXCEPT ![y] = h]
      /\ UNCHANGED <<queue, wg, task, phase, toAdd, adding, panicked>>
  BY DEF TimeOut, MonStep, endVars
<1>2. y \in Type /\ h \in Task /\ h # None
  BY MRAssumption, SMTT(30) DEF TypeOf, Type, Typed, ID, Task
<1>3. /\ mon' \in Seq(MonState) /\ Len(mon') = Len(mon) /\ ID' = ID
      /\ \A j \in ID : mon'[j] = IF j = i THEN "late" ELSE mon[j]
      /\ \A t : Dispatches(t)' = Dispatches(t)
  BY <1>1, MonMoves, ZenonT(30) DEF MonState
<1>4. \A t : Live(t)' = IF t = h THEN Live(t) \ {i} ELSE Live(t)
  BY <1>1, <1>3 DEF Live, Dispatches
<1>5. i \in Live(h) BY <1>1 DEF Live, Dispatches
<1>6. \A t : Finished(t)' <=> Finished(t)
  <2>1. ASSUME NEW t PROVE Finished(t)' <=> Finished(t)
    <3>1. Dispatches(t) \subseteq ID BY DEF Dispatches
    <3>2. \A j \in Dispatches(t) : mon'[j] = "over" <=> mon[j] = "over"
      BY <1>1, <1>3, <3>1, SMTT(30)
    <3> QED BY <1>3, <3>2 DEF Finished
  <2> QED BY <2>1
<1>7. Added' = Added BY <1>1 DEF Added
<1> HIDE DEF h
<1>8. OnePlace'
  <2>1. SUFFICES ASSUME NEW t \in Task
                 PROVE    Count(queue'[TypeOf(t)], t)
                        + (IF hand'[TypeOf(t)] = t THEN 1 ELSE 0)
                        + Cardinality(Live(t)')
                        = (IF t \in Added' THEN 1 ELSE 0)
    BY DEF OnePlace
  <2>2. TypeOf(t) \in Type BY DEF TypeOf, Type
  <2>3. IsFiniteSet(Live(t)) /\ Cardinality(Live(t)) \in Nat BY FiniteSets
  <2>4. Count(queue[TypeOf(t)], t) \in Nat BY <2>2, CountType, ZenonT(30) DEF Typed
  <2>5.   Count(queue[TypeOf(t)], t) + (IF hand[TypeOf(t)] = t THEN 1 ELSE 0)
        + Cardinality(Live(t)) = (IF t \in Added THEN 1 ELSE 0)
    BY DEF OnePlace
  <2>6. queue' = queue /\ (t \in Added' <=> t \in Added) BY <1>1, <1>7
  <2>7. CASE t = h
    <3>1. Cardinality(Live(t)') = Cardinality(Live(t)) - 1
      BY <1>4, <1>5, <2>3, <2>7, FS_RemoveElement
    <3>2. hand[TypeOf(t)] # t /\ hand'[TypeOf(t)] = t
      BY <1>1, <1>2, <2>7 DEF Typed
    <3> QED BY <2>3, <2>4, <2>5, <2>6, <3>1, <3>2, SMTT(30)
  <2>8. CASE t # h
    <3>1. Live(t)' = Live(t) BY <1>4, <2>8
    <3>2. hand[TypeOf(t)] = t <=> hand'[TypeOf(t)] = t
      BY <1>1, <1>2, <2>2, <2>8, MRAssumption, SMTT(30) DEF Typed, Task
    <3> QED BY <2>3, <2>4, <2>5, <2>6, <3>1, <3>2
  <2> QED BY <2>7, <2>8
<1>9. CountersExact'
  <2>1. /\ Open(MapTask)' = Open(MapTask)
        /\ Open(Added \cap ReduceTask)' = Open(Added \cap ReduceTask)
    BY <1>6, <1>7 DEF Open
  <2> QED BY <1>1, <2>1 DEF CountersExact
<1>10. Phases' BY <1>1, <1>6 DEF Phases
<1>11. TypeOK' BY <1>1 DEF TypeOK
<1> QED BY <1>8, <1>9, <1>10, <1>11

\* addTimeoutTask puts the task back.
LEMMA AddTimeoutTaskPlaced ==
  ASSUME Typed, Typed', Placed, NEW y \in Type, AddTimeoutTask(y)
  PROVE  Placed'
<1> USE DEF Placed
<1> DEFINE h == hand[y]
<1>1. /\ h # None /\ queue' = [queue EXCEPT ![y] = << h >> \o @]
      /\ hand' = [hand EXCEPT ![y] = None]
      /\ UNCHANGED <<wg, task, mon, phase, toAdd, adding, panicked>>
  BY DEF AddTimeoutTask, monVars, endVars
<1>2. h \in Task /\ TypeOf(h) = y BY <1>1 DEF Typed
<1>3. \A t \in Task : /\ Count(queue[TypeOf(t)], t) \in Nat
                       /\ Count(queue'[TypeOf(t)], t)
                            = Count(queue[TypeOf(t)], t) + (IF h = t THEN 1 ELSE 0)
  BY <1>1, <1>2, AddTaskCount
<1>4. \A t : Live(t)' = Live(t) /\ (Finished(t)' <=> Finished(t))
  BY <1>1 DEF Live, Finished, Dispatches, ID
<1>5. Added' = Added BY <1>1 DEF Added
<1>6. OnePlace'
  <2>1. SUFFICES ASSUME NEW t \in Task
                 PROVE    Count(queue'[TypeOf(t)], t)
                        + (IF hand'[TypeOf(t)] = t THEN 1 ELSE 0)
                        + Cardinality(Live(t)')
                        = (IF t \in Added' THEN 1 ELSE 0)
    BY DEF OnePlace
  <2>2. TypeOf(t) \in Type /\ t # None
    BY MRAssumption DEF TypeOf, Type, Task
  <2>3. Cardinality(Live(t)) \in Nat /\ Live(t)' = Live(t) BY <1>4, FiniteSets
  <2>4.   Count(queue[TypeOf(t)], t) + (IF hand[TypeOf(t)] = t THEN 1 ELSE 0)
        + Cardinality(Live(t)) = (IF t \in Added THEN 1 ELSE 0)
    BY DEF OnePlace
  <2>5. (hand[TypeOf(t)] = t <=> h = t \/ hand'[TypeOf(t)] = t)
        /\ ~(h = t /\ hand'[TypeOf(t)] = t)
    BY <1>1, <1>2, <2>2, SMTT(30) DEF Typed
  <2> HIDE DEF h
  <2> QED BY <1>3, <1>5, <2>3, <2>4, <2>5, SMTT(30)
<1>7. CountersExact'
  <2>1. /\ Open(MapTask)' = Open(MapTask)
        /\ Open(Added \cap ReduceTask)' = Open(Added \cap ReduceTask)
    BY <1>4, <1>5 DEF Open
  <2> QED BY <1>1, <2>1 DEF CountersExact
<1>8. Phases' BY <1>1, <1>4 DEF Phases
<1>9. TypeOK' BY <1>1 DEF TypeOK
<1> QED BY <1>6, <1>7, <1>8, <1>9

\* WaitGroup.Done: the dispatch is the only one of its task that counts.
LEMMA WGDonePlaced ==
  ASSUME Typed, Typed', Placed, NEW i \in ID, WGDone(i)
  PROVE  Placed'
<1> USE DEF Placed
<1> DEFINE t == task[i]
           y == TypeOf(t)
<1>1. /\ ~panicked /\ mon[i] = "count" /\ mon' = [mon EXCEPT ![i] = "over"]
      /\ \/ wg[y] = 0 /\ panicked' = TRUE /\ wg' = wg
         \/ wg[y] # 0 /\ panicked' = panicked /\ wg' = [wg EXCEPT ![y] = @ - 1]
      /\ UNCHANGED <<queue, hand, task, phase, toAdd, adding>>
  BY DEF WGDone, MonStep, Running, queueVars, endVars
<1>2. /\ mon' \in Seq(MonState) /\ Len(mon') = Len(mon) /\ ID' = ID
      /\ \A j \in ID : mon'[j] = IF j = i THEN "over" ELSE mon[j]
      /\ \A u : Dispatches(u)' = Dispatches(u)
  BY <1>1, MonMoves, ZenonT(30) DEF MonState
<1>3. t \in Task /\ y \in Type BY SMTT(30) DEF Typed, ID, TypeOf, Type
<1>4. \A u : Live(u)' = Live(u) BY <1>1, <1>2, SMTT(30) DEF Live, Dispatches
<1>5. t \in Added /\ \A j \in ID : task[j] = t /\ mon[j] # "late" => j = i
  BY <1>1, OnlyLive
<1>6. ~Finished(t) BY <1>1, <1>5 DEF Finished, Dispatches
<1>7. i \in Dispatches(t) BY DEF Dispatches
<1>8. \A u : Finished(u)' <=> Finished(u) \/ u = t
  <2>1. ASSUME NEW u PROVE Finished(u)' <=> Finished(u) \/ u = t
    <3>1. Dispatches(u) \subseteq ID /\ (i \in Dispatches(u) => u = t)
      BY DEF Dispatches
    <3>2. \A j \in Dispatches(u) : mon'[j] = "over" <=> mon[j] = "over" \/ j = i
      BY <1>2, <3>1
    <3> QED BY <1>2, <1>7, <3>1, <3>2 DEF Finished
  <2> QED BY <2>1
<1>9. Added' = Added BY <1>1 DEF Added
<1> HIDE DEF t
<1>10. /\ \A S : Open(S)' = Open(S) \ {t}
       /\ Open(Added \cap ReduceTask)' = Open(Added \cap ReduceTask) \ {t}
  BY <1>8, <1>9 DEF Open
<1>11. /\ t \in MapTask => t \in Open(MapTask) /\ t \notin Open(Added \cap ReduceTask)
       /\ t \in ReduceTask => t \in Open(Added \cap ReduceTask) /\ t \notin Open(MapTask)
  BY <1>5, <1>6, MRAssumption DEF Open
<1>12. /\ IsFiniteSet(Open(MapTask)) /\ Cardinality(Open(MapTask)) \in Nat
       /\ IsFiniteSet(Open(Added \cap ReduceTask))
       /\ Cardinality(Open(Added \cap ReduceTask)) \in Nat
  BY FiniteSets DEF Task
<1>13. CountersExact'
  <2>1. /\ wg["map"] = Cardinality(Open(MapTask))
        /\ wg["reduce"] = Cardinality(Open(Added \cap ReduceTask))
                            - (IF adding = None THEN 0 ELSE 1)
    BY <1>1 DEF CountersExact
  <2>2. CASE t \in MapTask
    <3>1. y = "map" BY <2>2 DEF TypeOf
    <3>2. /\ Cardinality(Open(MapTask)') = Cardinality(Open(MapTask)) - 1
          /\ Open(Added \cap ReduceTask)' = Open(Added \cap ReduceTask)
      <4>1. /\ Open(MapTask)' = Open(MapTask) \ {t}
            /\ Open(Added \cap ReduceTask)' = Open(Added \cap ReduceTask)
        BY <1>10, <1>11, <2>2
      <4> QED BY <1>11, <1>12, <2>2, <4>1, FS_RemoveElement, ZenonT(30)
    <3>3. wg["map"] # 0
      BY <1>11, <1>12, <2>1, <2>2, FS_EmptySet
    <3>4. /\ panicked' = panicked /\ wg'["map"] = wg["map"] - 1
          /\ wg'["reduce"] = wg["reduce"] /\ adding' = adding
      BY <1>1, <3>1, <3>3, SMTT(30) DEF Typed, Type
    <3> QED BY <1>1, <2>1, <3>2, <3>4 DEF CountersExact
  <2>3. CASE t \notin MapTask
    <3>1. y = "reduce" /\ t \in ReduceTask BY <1>3, <2>3 DEF TypeOf, Task
    <3>2. /\ Cardinality(Open(Added \cap ReduceTask)')
               = Cardinality(Open(Added \cap ReduceTask)) - 1
          /\ Open(MapTask)' = Open(MapTask)
      <4>1. /\ Open(Added \cap ReduceTask)' = Open(Added \cap ReduceTask) \ {t}
            /\ Open(MapTask)' = Open(MapTask)
        BY <1>10, <1>11, <3>1
      <4> QED BY <1>11, <1>12, <3>1, <4>1, FS_RemoveElement, ZenonT(30)
    <3>3. Cardinality(Open(Added \cap ReduceTask)) # 0
      BY <1>11, <1>12, <3>1, FS_EmptySet
    <3>4. CASE wg["reduce"] = 0
      <4>1. panicked' = TRUE /\ adding' = adding BY <1>1, <3>1, <3>4
      <4>2. adding # None BY <1>12, <2>1, <3>3, <3>4, SMTT(30)
      <4> QED BY <4>1, <4>2 DEF CountersExact
    <3>5. CASE wg["reduce"] # 0
      <4>1. /\ panicked' = panicked /\ wg'["reduce"] = wg["reduce"] - 1
            /\ wg'["map"] = wg["map"] /\ adding' = adding
        BY <1>1, <3>1, <3>5, SMTT(30) DEF Typed, Type
      <4> QED BY <1>1, <1>12, <2>1, <3>2, <4>1, SMTT(30) DEF CountersExact
    <3> QED BY <3>4, <3>5
  <2> QED BY <2>2, <2>3
<1>14. TypeOK'
  <2>1. Cardinality(MapTask) \in Nat /\ Cardinality(ReduceTask) \in Nat
    BY MRAssumption, FS_CardinalityType
  <2>2. wg \in [Type -> Nat] BY DEF Typed
  <2>3. wg'["map"] <= wg["map"] /\ wg'["reduce"] <= wg["reduce"]
    BY <1>1, <1>3, <2>2, SMTT(30) DEF Type
  <2>4. /\ wg["map"] \in Nat /\ wg'["map"] \in Nat
        /\ wg["reduce"] \in Nat /\ wg'["reduce"] \in Nat
    BY SMTT(30) DEF Typed, Type
  <2> QED BY <2>1, <2>3, <2>4, SMTT(30) DEF TypeOK
<1>15. OnePlace' BY <1>1, <1>4, <1>9 DEF OnePlace
<1>16. Phases' BY <1>1, <1>8 DEF Phases
<1> QED BY <1>13, <1>14, <1>15, <1>16

----------------------------------------------------------------------------
(* monitorMapEnd, reduce and monitorReduceEnd.                             *)

\* A step that moves no task and finishes nothing.
LEMMA StillPlaced ==
  ASSUME Typed, Placed, Added' = Added, UNCHANGED <<queue, hand, task, mon>>
  PROVE  /\ OnePlace' /\ \A t : Finished(t)' <=> Finished(t)
         /\ Open(MapTask)' = Open(MapTask)
         /\ Open(Added \cap ReduceTask)' = Open(Added \cap ReduceTask)
<1>1. \A t : Live(t)' = Live(t) /\ (Finished(t)' <=> Finished(t))
  BY DEF Live, Finished, Dispatches, ID
<1>2. OnePlace' BY <1>1 DEF Placed, OnePlace
<1> QED BY <1>1, <1>2 DEF Open

\* mapWG.Wait returns: every map task is finished.
LEMMA MapEndPlaced ==
  ASSUME Typed, Typed', Placed, MapEnd
  PROVE  Placed'
<1> USE DEF Placed
<1>1. /\ ~panicked /\ phase = "map" /\ wg["map"] = 0 /\ phase' = "reduce"
      /\ toAdd' = ReduceTask
      /\ UNCHANGED <<queue, hand, wg, task, mon, adding, panicked>>
  BY DEF MapEnd, Running, queueVars, monVars
<1>2. Added' = Added BY <1>1 DEF Added
<1>3. /\ OnePlace' /\ \A t : Finished(t)' <=> Finished(t)
      /\ Open(MapTask)' = Open(MapTask)
      /\ Open(Added \cap ReduceTask)' = Open(Added \cap ReduceTask)
  BY <1>1, <1>2, StillPlaced
<1>4. TypeOK' BY <1>1 DEF TypeOK
<1>5. CountersExact' BY <1>1, <1>3 DEF CountersExact
<1>6. Phases'
  <2>1. Cardinality(Open(MapTask)) = 0 BY <1>1 DEF CountersExact
  <2>2. Open(MapTask) = {} BY <2>1, FiniteSets, FS_EmptySet DEF Task
  <2>3. \A t \in MapTask : Finished(t)' BY <1>3, <2>2 DEF Open
  <2>4. adding' = None BY <1>1 DEF Phases
  <2> QED BY <1>1, <2>3, <2>4 DEF Phases
<1> QED BY <1>3, <1>4, <1>5, <1>6

\* reduceWG.Wait returns: every reduce task is finished.
LEMMA ReduceEndPlaced ==
  ASSUME Typed, Typed', Placed, ReduceEnd
  PROVE  Placed'
<1> USE DEF Placed
<1>1. /\ ~panicked /\ phase = "reduce" /\ toAdd = {} /\ adding = None
      /\ wg["reduce"] = 0 /\ phase' = "ending"
      /\ UNCHANGED <<queue, hand, wg, task, mon, toAdd, adding, panicked>>
  BY DEF ReduceEnd, Running, queueVars, monVars
<1>2. Added' = Added BY <1>1 DEF Added
<1>3. /\ OnePlace' /\ \A t : Finished(t)' <=> Finished(t)
      /\ Open(MapTask)' = Open(MapTask)
      /\ Open(Added \cap ReduceTask)' = Open(Added \cap ReduceTask)
  BY <1>1, <1>2, StillPlaced
<1>4. TypeOK' BY <1>1 DEF TypeOK
<1>5. CountersExact' BY <1>1, <1>3 DEF CountersExact
<1>6. Phases'
  <2>1. Added \cap ReduceTask = ReduceTask BY <1>1 DEF Added
  <2>2. Cardinality(Open(ReduceTask)) - 0 = 0 BY <1>1, <2>1 DEF CountersExact
  <2>3. IsFiniteSet(Open(ReduceTask)) /\ Cardinality(Open(ReduceTask)) \in Nat
    BY FiniteSets DEF Task
  <2>4. Open(ReduceTask) = {} BY <2>2, <2>3, FS_EmptySet, SMTT(30)
  <2>5. \A t \in ReduceTask : Finished(t)' BY <1>3, <2>4 DEF Open
  <2>6. \A t \in MapTask : Finished(t)' BY <1>1, <1>3 DEF Phases
  <2> QED BY <1>1, <2>5, <2>6 DEF Phases
<1> QED BY <1>3, <1>4, <1>5, <1>6

\* end.
LEMMA EndPlaced ==
  ASSUME Typed, Typed', Placed, End
  PROVE  Placed'
<1> USE DEF Placed
<1>1. /\ phase = "ending" /\ phase' = "done"
      /\ UNCHANGED <<queue, hand, wg, task, mon, toAdd, adding, panicked>>
  BY DEF End, queueVars, monVars
<1>2. Added' = Added BY <1>1 DEF Added
<1>3. /\ OnePlace' /\ \A t : Finished(t)' <=> Finished(t)
      /\ Open(MapTask)' = Open(MapTask)
      /\ Open(Added \cap ReduceTask)' = Open(Added \cap ReduceTask)
  BY <1>1, <1>2, StillPlaced
<1>4. TypeOK' BY <1>1 DEF TypeOK
<1>5. CountersExact' BY <1>1, <1>3 DEF CountersExact
<1>6. Phases' BY <1>1, <1>3 DEF Phases
<1> QED BY <1>3, <1>4, <1>5, <1>6

\* addReduceTask counts the task.
LEMMA AddReduceCountPlaced ==
  ASSUME Typed, Typed', Placed, AddReduceCount
  PROVE  Placed'
<1> USE DEF Placed
<1> DEFINE A == Open(Added \cap ReduceTask)
<1>1. /\ ~panicked /\ adding # None
      /\ wg' = [wg EXCEPT !["reduce"] = @ + 1] /\ adding' = None
      /\ UNCHANGED <<queue, hand, task, mon, phase, toAdd, panicked>>
  BY DEF AddReduceCount, Running, queueVars, monVars
<1>2. Added' = Added BY <1>1 DEF Added
<1>3. /\ OnePlace' /\ \A t : Finished(t)' <=> Finished(t)
      /\ Open(MapTask)' = Open(MapTask)
      /\ Open(Added \cap ReduceTask)' = A
  BY <1>1, <1>2, StillPlaced
<1>4. IsFiniteSet(A) /\ Cardinality(A) \in Nat BY FiniteSets DEF Task
<1>5. wg["map"] = Cardinality(Open(MapTask)) /\ wg["reduce"] = Cardinality(A) - 1
  BY <1>1 DEF CountersExact
<1>6. Cardinality(A) <= Cardinality(ReduceTask)
  <2>1. A \in SUBSET ReduceTask BY DEF Open
  <2> QED BY <2>1, MRAssumption, FS_Subset, ZenonT(30)
<1> HIDE DEF A
<1>7. /\ wg' \in [Type -> Nat]
      /\ wg'["map"] = wg["map"] /\ wg'["reduce"] = Cardinality(A)
  <2>1. wg \in [Type -> Nat] BY DEF Typed
  <2> QED BY <1>1, <1>4, <1>5, <2>1, SMTT(30) DEF Type
<1>8. TypeOK'
  <2>1. wg["map"] <= Cardinality(MapTask) BY DEF TypeOK
  <2> QED BY <1>6, <1>7, <2>1 DEF TypeOK
<1>9. CountersExact' BY <1>1, <1>3, <1>4, <1>5, <1>7, SMTT(30) DEF CountersExact
<1>10. Phases' BY <1>1, <1>3 DEF Phases
<1> QED BY <1>3, <1>8, <1>9, <1>10

\* addReduceTask puts a task in the queue, and has not counted it yet.
LEMMA AddReduceTaskPlaced ==
  ASSUME Typed, Typed', Placed, NEW x \in ReduceTask, AddReduceTask(x)
  PROVE  Placed'
<1> USE DEF Placed
<1>1. /\ ~panicked /\ x \in toAdd /\ adding = None
      /\ queue' = [queue EXCEPT !["reduce"] = << x >> \o @]
      /\ toAdd' = toAdd \ {x} /\ adding' = x
      /\ UNCHANGED <<hand, wg, task, mon, phase, panicked>>
  BY DEF AddReduceTask, Running, monVars
<1>2. /\ x \in Task /\ TypeOf(x) = "reduce" /\ x # None
      /\ "reduce" \in Type /\ queue["reduce"] \in Seq(Task)
  BY MRAssumption DEF Typed, TypeOf, Task, Type
<1>3. \A t \in Task : /\ Count(queue[TypeOf(t)], t) \in Nat
                       /\ Count(queue'[TypeOf(t)], t)
                            = Count(queue[TypeOf(t)], t) + (IF x = t THEN 1 ELSE 0)
  BY <1>1, <1>2, AddTaskCount
<1>4. \A t : Live(t)' = Live(t) /\ (Finished(t)' <=> Finished(t))
  BY <1>1 DEF Live, Finished, Dispatches, ID
<1>5. phase = "reduce" BY <1>1 DEF Phases
<1>6. Added' = Added \cup {x} /\ x \notin Added
  BY <1>1, <1>5, MRAssumption DEF Added
<1>7. TypeOK' BY <1>1 DEF TypeOK
<1>8. OnePlace'
  <2>1. SUFFICES ASSUME NEW t \in Task
                 PROVE    Count(queue'[TypeOf(t)], t)
                        + (IF hand'[TypeOf(t)] = t THEN 1 ELSE 0)
                        + Cardinality(Live(t)')
                        = (IF t \in Added' THEN 1 ELSE 0)
    BY DEF OnePlace
  <2>2. Cardinality(Live(t)) \in Nat /\ Live(t)' = Live(t) /\ hand' = hand
    BY <1>1, <1>4, FiniteSets
  <2>3.   Count(queue[TypeOf(t)], t) + (IF hand[TypeOf(t)] = t THEN 1 ELSE 0)
        + Cardinality(Live(t)) = (IF t \in Added THEN 1 ELSE 0)
    BY DEF OnePlace
  <2> QED BY <1>3, <1>6, <2>2, <2>3, SMTT(30)
<1>9. CountersExact'
  <2> DEFINE A == Open(Added \cap ReduceTask)
  <2>1. ~Finished(x)
    <3>1. Cardinality(Live(x)) = 0
      <4>1. Count(queue["reduce"], x) \in Nat BY <1>2, CountType, ZenonT(30)
      <4>2. Cardinality(Live(x)) \in Nat BY FiniteSets
      <4>3.   Count(queue["reduce"], x)
            + (IF hand["reduce"] = x THEN 1 ELSE 0) + Cardinality(Live(x)) = 0
        BY <1>2, <1>6 DEF OnePlace
      <4> QED BY <4>1, <4>2, <4>3, SMTT(30)
    <3>2. Live(x) = {} BY <3>1, FiniteSets, FS_EmptySet
    <3> QED BY <3>2 DEF Finished, Live
  <2>2. Open(Added \cap ReduceTask)' = A \cup {x} /\ x \notin A
    BY <1>4, <1>6, <2>1 DEF Open
  <2>3. Open(MapTask)' = Open(MapTask) BY <1>4 DEF Open
  <2>4. IsFiniteSet(A) /\ Cardinality(A) \in Nat BY FiniteSets DEF Task
  <2>5. Cardinality(Open(Added \cap ReduceTask)') = Cardinality(A) + 1
    BY <2>2, <2>4, FS_AddElement, ZenonT(30)
  <2>6. wg["map"] = Cardinality(Open(MapTask)) /\ wg["reduce"] = Cardinality(A) - 0
    BY <1>1 DEF CountersExact
  <2> HIDE DEF A
  <2> QED BY <1>1, <1>2, <2>3, <2>4, <2>5, <2>6, SMTT(30) DEF CountersExact
<1>10. Phases' BY <1>1, <1>4, <1>5 DEF Phases
<1> QED BY <1>7, <1>8, <1>9, <1>10

----------------------------------------------------------------------------
(* The invariant, and what follows from it.                                *)

\* A step that leaves the tasks and the dispatches alone.
LEMMA QuietPlaced ==
  ASSUME Placed, Typed',
         UNCHANGED <<queue, hand, wg, phase, toAdd, adding, panicked, task, mon>>
  PROVE  Placed'
<1>1. \A t : Live(t)' = Live(t) /\ (Finished(t)' <=> Finished(t))
  BY DEF Live, Finished, Dispatches, ID
<1> QED BY <1>1, Frame, ZenonT(30)

\* A step of monitorTask that neither times the dispatch out nor counts it.
LEMMA MonPlaced ==
  ASSUME Typed, Typed', Placed, NEW i, i \in ID,
         NEW to \in MonState \ {"late", "over"}, mon[i] \notin {"late", "over"},
         mon' = [mon EXCEPT ![i] = to],
         UNCHANGED <<queue, hand, wg, phase, toAdd, adding, panicked, task>>
  PROVE  Placed'
<1>1. \A t : Live(t)' = Live(t) /\ (Finished(t)' <=> Finished(t))
  BY MonMovesSame, ZenonT(30)
<1> QED BY <1>1, Frame, ZenonT(30)

\* Every step keeps this part of the invariant.
LEMMA PlacedStep ==
  ASSUME WorkInv, Typed', Placed, [Next]_vars
  PROVE  Placed'
<1> USE DEF WorkInv
<1>1. ASSUME NEW w \in Worker, MonitorTask(w) PROVE Placed'
  <2>1. work[w] \in ID /\ mon[work[w]] = "new"
    BY <1>1, WorkingOn DEF MonitorTask, AtWork, WorkerAt
  <2>2. /\ mon' = [mon EXCEPT ![work[w]] = "select"]
        /\ UNCHANGED <<queue, hand, wg, phase, toAdd, adding, panicked, task>>
    BY <1>1 DEF MonitorTask, queueVars, endVars
  <2> QED BY <2>1, <2>2, MonPlaced, ZenonT(30) DEF MonState
<1>2. ASSUME NEW w \in Worker, DoneC(w) PROVE Placed'
  <2>1. work[w] \in ID /\ mon[work[w]] = "select" BY <1>2, WorkingOn DEF DoneC
  <2>2. /\ mon' = [mon EXCEPT ![work[w]] = "done"]
        /\ UNCHANGED <<queue, hand, wg, phase, toAdd, adding, panicked, task>>
    BY <1>2 DEF DoneC, queueVars, endVars
  <2> QED BY <2>1, <2>2, MonPlaced, ZenonT(30) DEF MonState
<1>3. ASSUME NEW w \in Worker,
             \/ WorkMap(w) \/ WorkReduce(w) \/ TaskDoneLate(w) \/ TaskDone(w)
             \/ Crash(w)
      PROVE  Placed'
  <2>1. UNCHANGED <<queue, hand, wg, phase, toAdd, adding, panicked, task, mon>>
    BY <1>3 DEF WorkMap, WorkReduce, TaskDoneLate, TaskDone, Crash, queueVars,
                monVars, endVars
  <2> QED BY <2>1, QuietPlaced, ZenonT(30)
<1>4. ASSUME NEW i \in ID, MonTimer(i) PROVE Placed'
  <2>1. /\ mon[i] \in {"select", "done"} /\ mon' = [mon EXCEPT ![i] = "timer"]
        /\ UNCHANGED <<queue, hand, wg, phase, toAdd, adding, panicked, task>>
    BY <1>4 DEF MonTimer, MonStep, queueVars, endVars
  <2> QED BY <2>1, MonPlaced, ZenonT(30) DEF MonState
<1>5. ASSUME NEW i \in ID, MonDefault(i) PROVE Placed'
  <2>1. /\ mon[i] = "done" /\ mon' = [mon EXCEPT ![i] = "release"]
        /\ UNCHANGED <<queue, hand, wg, phase, toAdd, adding, panicked, task>>
    BY <1>5 DEF MonDefault, MonStep, queueVars, endVars
  <2> QED BY <2>1, MonPlaced, ZenonT(30) DEF MonState
<1>6. ASSUME NEW i \in ID, ReleaseDoneTask(i) PROVE Placed'
  <2>1. /\ mon[i] = "release" /\ mon' = [mon EXCEPT ![i] = "count"]
        /\ UNCHANGED <<queue, hand, wg, phase, toAdd, adding, panicked, task>>
    BY <1>6 DEF ReleaseDoneTask, MonStep, queueVars, endVars
  <2> QED BY <2>1, MonPlaced, ZenonT(30) DEF MonState
<1>7. ASSUME (\E i \in ID : Expire(i)) \/ UNCHANGED vars PROVE Placed'
  <2>1. UNCHANGED <<queue, hand, wg, phase, toAdd, adding, panicked, task, mon>>
    BY <1>7 DEF Expire, vars, queueVars, monVars, endVars
  <2> QED BY <2>1, QuietPlaced, ZenonT(30)
<1> QED
  BY <1>1, <1>2, <1>3, <1>4, <1>5, <1>6, <1>7, GetTaskPlaced, TimeOutPlaced,
     AddTimeoutTaskPlaced, WGDonePlaced, MapEndPlaced, AddReduceTaskPlaced,
     AddReduceCountPlaced, ReduceEndPlaced, EndPlaced, ZenonT(60)
  DEF Next

\* MakeCoordinator establishes the invariant.
LEMMA MRInvInit == Init => MRInv

<1> SUFFICES ASSUME Init PROVE MRInv
  OBVIOUS
<1>1. PICK q \in [1..Cardinality(MapTask) -> MapTask] :
        /\ {q[n] : n \in DOMAIN q} = MapTask
        /\ queue = [y \in Type |-> IF y = "map" THEN q ELSE << >>]
  BY ZenonT(30) DEF Init
<1>2. /\ hand = [y \in Type |-> None] /\ mu = 0 /\ task = << >> /\ mon = << >>
      /\ wg = [y \in Type |-> IF y = "map" THEN Cardinality(MapTask) ELSE 0]
      /\ expired = {} /\ doneC = {} /\ isTimeout = {}
      /\ tempFiles = [y \in Type |-> {}] /\ outFiles = {}
      /\ phase = "map" /\ toAdd = {} /\ adding = None
      /\ work = [w \in Worker |-> 0] /\ at = [w \in Worker |-> "idle"]
      /\ panicked = FALSE
  BY DEF Init
<1>3. Cardinality(MapTask) \in Nat /\ Cardinality(ReduceTask) \in Nat
  BY MRAssumption, FS_CardinalityType
<1>4. q \in Seq(MapTask) /\ q \in Seq(Task) /\ << >> \in Seq(Task)
  BY <1>3, SMTT(30) DEF Task
<1>5. ID = {} /\ Len(task) = 0 /\ Len(mon) = 0 BY <1>2, SMTT(30) DEF ID
<1>6. \A t : Live(t) = {} /\ ~Finished(t)
  BY <1>5 DEF Live, Finished, Dispatches
<1>7. "map" \in Type /\ "reduce" \in Type /\ "map" # "reduce" BY DEF Type
<1>8. Typed
  <2>1. queue \in [Type -> Seq(Task)] BY <1>1, <1>4
  <2>2. \A y \in Type : \A n \in DOMAIN queue[y] : TypeOf(queue[y][n]) = y
    BY <1>1, SMTT(30) DEF TypeOf
  <2>3. /\ hand \in [Type -> Task \cup {None}]
        /\ \A y \in Type : hand[y] = None
        /\ wg \in [Type -> Nat]
    BY <1>2, <1>3, <1>7
  <2>4. /\ task \in Seq(Task) /\ mon \in Seq(MonState) /\ mu \in 0..Len(task)
        /\ Len(task) <= MaxID
    BY <1>2, <1>5, MRAssumption, SMTT(30)
  <2>5. tempFiles \in [Type -> SUBSET ID] /\ \A y \in Type : tempFiles[y] = {}
    BY <1>2
  <2>6. work \in [Worker -> 0..Len(task)] BY <1>2, <1>5, SMTT(30)
  <2> QED BY <1>2, <1>5, <2>1, <2>2, <2>3, <2>4, <2>5, <2>6, ZenonT(30) DEF Typed
<1>9. Added = MapTask BY <1>2 DEF Added
<1>10. OnePlace
  <2>1. SUFFICES ASSUME NEW t \in Task
                 PROVE    Count(queue[TypeOf(t)], t)
                        + (IF hand[TypeOf(t)] = t THEN 1 ELSE 0)
                        + Cardinality(Live(t))
                        = (IF t \in Added THEN 1 ELSE 0)
    BY DEF OnePlace
  <2>2. hand[TypeOf(t)] # t /\ Cardinality(Live(t)) = 0
    BY <1>2, <1>6, <1>7, FS_EmptySet, MRAssumption, ZenonT(30) DEF TypeOf, Task
  <2>3. CASE t \in MapTask
    <3>1. queue[TypeOf(t)] = q BY <1>1, <1>7, <2>3 DEF TypeOf
    <3>2. Count(q, t) = 1 BY <1>1, <2>3, CountInit, ZenonT(30)
    <3> QED BY <1>9, <2>2, <2>3, <3>1, <3>2, SMTT(30)
  <2>4. CASE t \notin MapTask
    <3>1. queue[TypeOf(t)] = << >> BY <1>1, <1>7, <2>4 DEF TypeOf
    <3>2. {n \in DOMAIN << >> : << >>[n] = t} = {} BY SMTT(30)
    <3>3. Count(<< >>, t) = 0 BY <3>2, FS_EmptySet DEF Count
    <3> QED BY <1>9, <2>2, <2>4, <3>1, <3>3, SMTT(30)
  <2> QED BY <2>3, <2>4
<1>11. CountersExact
  <2>1. Open(MapTask) = MapTask BY <1>6 DEF Open
  <2>2. Open(Added \cap ReduceTask) = {} BY <1>9, MRAssumption DEF Open
  <2>3. Cardinality(Open(Added \cap ReduceTask)) = 0 BY <2>2, FS_EmptySet, ZenonT(30)
  <2>4. wg["map"] = Cardinality(MapTask) /\ wg["reduce"] = 0 BY <1>2, <1>7
  <2> QED BY <1>2, <1>3, <2>1, <2>3, <2>4, SMTT(30) DEF CountersExact
<1>12. AtWork BY <1>2 DEF AtWork, WorkerAt
<1>13. Results BY <1>2, <1>5 DEF Results, WorkerHasFiles
<1>14. Phases BY <1>2 DEF Phases
<1>15. TypeOK BY <1>2, <1>3, <1>7, <1>8, SMTT(30) DEF TypeOK
<1> QED BY <1>8, <1>10, <1>11, <1>12, <1>13, <1>14, <1>15 DEF MRInv, WorkInv

\* The inductive invariant holds throughout a job.
THEOREM MRInvariant == Spec => []MRInv
<1>1. MRInv /\ [Next]_vars => MRInv'
  BY WorkInvStep, PlacedStep DEF MRInv, WorkInv, Placed
<1> QED BY <1>1, MRInvInit, PTL DEF Spec

\* No task is lost or handed out twice at a time, and the WaitGroups count the
\* unfinished tasks, through any timeouts, late reports and crashes of workers.
THEOREM TasksAreKept == Spec => [](TypeOK /\ OnePlace /\ CountersExact)
<1>1. MRInv => TypeOK /\ OnePlace /\ CountersExact BY DEF MRInv
<1> QED BY <1>1, MRInvariant, PTL

\* The reduce tasks are made when mapTempFiles has a result of every map task.
THEOREM MapsComeFirst == Spec => []MapBeforeReduce
<1>1. MRInv => MapBeforeReduce
  <2> SUFFICES ASSUME MRInv, phase = "reduce", NEW t \in MapTask
               PROVE  tempFiles["map"] \cap Dispatches(t) # {}
    BY DEF MapBeforeReduce
  <2>1. Finished(t) BY DEF MRInv, Phases
  <2>2. PICK i \in Dispatches(t) : mon[i] = "over" BY <2>1 DEF Finished
  <2>3. i \in ID /\ task[i] = t BY <2>2 DEF Dispatches
  <2>4. i \in tempFiles["map"]
    BY <2>2, <2>3 DEF MRInv, WorkInv, Results, HasFiles, TypeOf
  <2> QED BY <2>2, <2>4
<1> QED BY <1>1, MRInvariant, PTL

\* When the job is done, the output of every reduce task is on the disk, from
\* a dispatch that has been counted.
THEOREM OutputIsComplete == Spec => []OutputComplete
<1>1. MRInv => OutputComplete
  <2> SUFFICES ASSUME MRInv, phase = "done", NEW t \in ReduceTask
               PROVE  \E i \in Dispatches(t) \cap outFiles : mon[i] = "over"
    BY DEF OutputComplete
  <2>1. Finished(t) BY DEF MRInv, Phases
  <2>2. PICK i \in Dispatches(t) : mon[i] = "over" BY <2>1 DEF Finished
  <2>3. i \in ID /\ task[i] = t BY <2>2 DEF Dispatches
  <2>4. i \in outFiles BY <2>2, <2>3 DEF MRInv, WorkInv, Results, HasFiles
  <2> QED BY <2>2, <2>4
<1> QED BY <1>1, MRInvariant, PTL

\* Once the reduce tasks are being made, no report adds to mapTempFiles, which
\* is read without the mutex: every dispatch of a map task that could report
\* in time would be a second one of a finished task.
THEOREM MapFilesAreFinal == Spec => MapFilesFinal
<1>1. ASSUME MRInv, [Next]_vars, phase # "map"
      PROVE  tempFiles'["map"] \subseteq tempFiles["map"]
  <2>1. ASSUME NEW w \in Worker, TaskDone(w)
        PROVE  tempFiles'["map"] \subseteq tempFiles["map"]
    <3> DEFINE i == work[w]
    <3>1. /\ at[w] = "report" /\ i \notin isTimeout
          /\ tempFiles' = [tempFiles EXCEPT ![TypeOf(task[i])] = @ \cup {i}]
      BY <2>1 DEF TaskDone
    <3>2. i \in ID BY <1>1, <3>1, WorkingOn DEF MRInv, WorkInv
    <3>3. mon[i] \notin {"late", "over"}
      BY <1>1, <3>1 DEF MRInv, WorkInv, AtWork, WorkerAt
    <3>4. task[i] \notin MapTask
      <4>1. SUFFICES ASSUME task[i] \in MapTask PROVE FALSE
        OBVIOUS
      <4>2. Finished(task[i]) BY <1>1, <4>1 DEF MRInv, Phases
      <4>3. PICK j \in ID : task[j] = task[i] /\ mon[j] = "over"
        BY <4>2 DEF Finished, Dispatches
      <4>4. j = i BY <1>1, <3>2, <3>3, <4>3, OnlyLive DEF MRInv, WorkInv
      <4> QED BY <3>3, <4>3, <4>4
    <3>5. TypeOf(task[i]) = "reduce" BY <3>4 DEF TypeOf
    <3> QED BY <1>1, <3>1, <3>5 DEF MRInv, WorkInv, Typed, Type
  <2>2. CASE ReduceEnd BY <2>2 DEF ReduceEnd, Type
  <2>3. CASE UNCHANGED tempFiles BY <2>3
  <2>4. \/ \E w \in Worker : TaskDone(w)
        \/ ReduceEnd
        \/ UNCHANGED tempFiles
    BY <1>1
    DEF Next, vars, fileVars, GetTask, MonitorTask, WorkMap, WorkReduce,
        TaskDoneLate, DoneC, Crash, Expire, MonTimer, TimeOut, AddTimeoutTask,
        MonDefault, ReleaseDoneTask, WGDone, MapEnd, AddReduceTask,
        AddReduceCount, End
  <2> QED BY <2>1, <2>2, <2>3, <2>4
<1>2. MRInv /\ [Next]_vars
      => [phase # "map" => tempFiles'["map"] \subseteq tempFiles["map"]]_vars
  BY <1>1
<1> QED BY <1>2, MRInvariant, PTL DEF Spec, MapFilesFinal
============================================================================
