------------------------ MODULE MapReduceWorkProofs ------------------------
(***************************************************************************)
(* What the workers and the monitorTask goroutines of module MapReduce     *)
(* keep, WorkInv: no counting is needed for it.  Module MapReduceProofs    *)
(* builds the rest of the invariant on it.                                 *)
(***************************************************************************)
EXTENDS MapReduce, TLAPS

\* The provers of a leaf that names none, in the order they are tried.
USE ZenonT(2), SMTT(30), Zenon

----------------------------------------------------------------------------
(* What a step leaves alone.                                               *)

\* A step of monitorTask of dispatch i.
LEMMA MonMoves ==
  ASSUME Typed, NEW i \in ID, NEW to \in MonState,
         task' = task, mon' = [mon EXCEPT ![i] = to]
  PROVE  /\ mon' \in Seq(MonState) /\ Len(mon') = Len(mon) /\ ID' = ID
         /\ \A j \in ID : mon'[j] = IF j = i THEN to ELSE mon[j]
         /\ \A t : Dispatches(t)' = Dispatches(t)
<1>1. mon \in Seq(MonState) /\ i \in 1..Len(mon) /\ ID = 1..Len(mon)
  BY DEF Typed, ID
<1>2. /\ mon' \in Seq(MonState) /\ Len(mon') = Len(mon)
      /\ \A j \in 1..Len(mon) : mon'[j] = IF j = i THEN to ELSE mon[j]
  BY <1>1, SMTT(30)
<1> QED BY <1>1, <1>2 DEF ID, Dispatches

\* The dispatch of a worker that is not idle.
LEMMA WorkingOn ==
  ASSUME Typed, AtWork, NEW w \in Worker
  PROVE  /\ at[w] # "idle" => work[w] \in ID
         /\ work[w] \in 0..Len(task) /\ Len(task) \in Nat
<1>1. work[w] \in 0..Len(task) /\ Len(task) \in Nat BY SMTT(30) DEF Typed
<1>2. at[w] # "idle" => work[w] # 0 BY DEF AtWork, WorkerAt
<1> QED BY <1>1, <1>2, SMTT(30) DEF ID

\* A worker whose dispatch is not touched.
LEMMA OthersWork ==
  ASSUME Typed, AtWork, NEW v \in Worker, WorkerAt(v),
         work'[v] = work[v], at'[v] = at[v],
         at[v] # "idle" => mon'[work[v]] = mon[work[v]],
         at[v] = "send" => mu' = mu,
         work[v] \in isTimeout => work[v] \in isTimeout'
  PROVE  WorkerAt(v)'
<1>1. CASE at[v] = "idle" BY <1>1 DEF WorkerAt
<1>2. CASE at[v] = "ask" BY <1>2 DEF WorkerAt
<1>3. CASE at[v] \in {"work", "report"} BY <1>3 DEF WorkerAt
<1>4. CASE at[v] = "send" BY <1>4 DEF WorkerAt
<1> QED BY <1>1, <1>2, <1>3, <1>4 DEF Typed

\* Files stay as long as they are needed.
LEMMA FilesStay ==
  ASSUME Typed, NEW i \in ID, HasFiles(i), task' = task,
         phase' \in {"map", "reduce"}
         => /\ phase \in {"map", "reduce"}
            /\ \A y \in Type : tempFiles[y] \subseteq tempFiles'[y],
         outFiles \subseteq outFiles'
  PROVE  HasFiles(i)'
<1>1. TypeOf(task[i]) \in Type BY DEF TypeOf, Type
<1>2. HasFiles(i)' <=> /\ phase' \in {"map", "reduce"}
                          => i \in tempFiles'[TypeOf(task[i])]
                       /\ task[i] \in ReduceTask => i \in outFiles'
  BY DEF HasFiles, TypeOf
<1> QED BY <1>1, <1>2 DEF HasFiles

\* A step in which monitorTask receives no result.
LEMMA ResultsStay ==
  ASSUME Typed, AtWork, Results, task' = task,
         phase' \in {"map", "reduce"}
         => /\ phase \in {"map", "reduce"}
            /\ \A y \in Type : tempFiles[y] \subseteq tempFiles'[y],
         outFiles \subseteq outFiles',
         \A i \in ID : mon'[i] \in {"done", "release", "count", "over"}
                       => mon[i] \in {"done", "release", "count", "over"},
         \A v \in Worker : /\ at'[v] = at[v] /\ work'[v] = work[v]
                           \/ WorkerHasFiles(v)'
  PROVE  Results'
<1>1. ID' = ID BY DEF ID
<1>2. ASSUME NEW i \in ID, mon'[i] \in {"done", "release", "count", "over"}
      PROVE  HasFiles(i)'
  <2>1. HasFiles(i) BY <1>2 DEF Results
  <2> QED BY <2>1, FilesStay
<1>3. ASSUME NEW v \in Worker PROVE WorkerHasFiles(v)'
  <2>1. SUFFICES ASSUME at'[v] = at[v], work'[v] = work[v]
                 PROVE  WorkerHasFiles(v)'
    OBVIOUS
  <2>2. WorkerHasFiles(v) BY DEF Results
  <2>3. CASE at[v] = "send"
    <3>1. work[v] \in ID /\ HasFiles(work[v])
      BY <2>2, <2>3, WorkingOn DEF WorkerHasFiles
    <3> DEFINE i == work[v]
    <3>2. ASSUME NEW j \in ID, j = i PROVE HasFiles(j)'
      BY <3>1, <3>2, FilesStay
    <3>3. HasFiles(work[v])'
      <4>1. \A j : HasFiles(j)' <=>
                     /\ phase' \in {"map", "reduce"} => j \in tempFiles'[TypeOf(task[j])]
                     /\ task[j] \in ReduceTask => j \in outFiles'
        BY DEF HasFiles, TypeOf
      <4>2. HasFiles(work[v])' <=>
                     /\ phase' \in {"map", "reduce"}
                        => work[v] \in tempFiles'[TypeOf(task[work[v]])]
                     /\ task[work[v]] \in ReduceTask => work[v] \in outFiles'
        BY <2>1 DEF HasFiles, TypeOf
      <4> QED BY <3>1, <3>2, <4>1, <4>2
    <3> QED BY <2>1, <2>3, <3>3 DEF WorkerHasFiles
  <2>4. CASE at[v] = "report" BY <2>1, <2>2, <2>4 DEF WorkerHasFiles
  <2>5. CASE at[v] \notin {"send", "report"} BY <2>1, <2>5 DEF WorkerHasFiles
  <2> QED BY <2>3, <2>4, <2>5
<1> QED BY <1>1, <1>2, <1>3 DEF Results

\* Workers still have different dispatches.
LEMMA DistinctStay ==
  ASSUME Typed, AtWork, NEW w, work' = work \/ work' = [work EXCEPT ![w] = 0]
  PROVE  \A u, v \in Worker : work'[u] = work'[v] => u = v \/ work'[v] = 0
BY DEF Typed, AtWork

\* Concatenation.
LEMMA Concat ==
  ASSUME NEW q \in Seq(Task), NEW h \in Seq(Task), NEW p, p = h \o q
  PROVE  /\ p \in Seq(Task) /\ Len(p) = Len(h) + Len(q)
         /\ \A n \in 1..Len(h) + Len(q) :
              p[n] = IF n <= Len(h) THEN h[n] ELSE q[n - Len(h)]
BY SMTT(30)

\* addTask puts a task at the front of its queue.
LEMMA AddTask ==
  ASSUME Typed, NEW x \in Task,
         queue' = [queue EXCEPT ![TypeOf(x)] = << x >> \o @]
  PROVE  /\ queue' \in [Type -> Seq(Task)]
         /\ \A y \in Type : \A n \in DOMAIN queue'[y] : TypeOf(queue'[y][n]) = y
         /\ \A y \in Type : y # TypeOf(x) => queue'[y] = queue[y]
         /\ Len(queue'[TypeOf(x)]) = Len(queue[TypeOf(x)]) + 1
         /\ queue'[TypeOf(x)][1] = x
         /\ \A n \in 1..Len(queue[TypeOf(x)]) :
              queue[TypeOf(x)][n] = queue'[TypeOf(x)][n + 1]
<1> DEFINE y == TypeOf(x)
           q == queue[y]
           p == queue'[y]
           h == << x >>
<1>1. y \in Type /\ queue \in [Type -> Seq(Task)] BY DEF TypeOf, Type, Typed
<1>2. /\ q \in Seq(Task) /\ Len(q) \in Nat /\ p = h \o q
      /\ \A z \in Type : z # y => queue'[z] = queue[z]
      /\ queue' \in [Type -> Seq(Task)] <=> p \in Seq(Task)
  BY <1>1, SMTT(30)
<1>3. h \in Seq(Task) /\ Len(h) = 1 /\ h[1] = x BY SMTT(30)
<1> HIDE DEF h, p, q
<1>4. /\ p \in Seq(Task) /\ Len(p) = Len(q) + 1 /\ p[1] = h[1]
      /\ \A n \in 1..Len(q) : p[n + 1] = q[n]
  <2>1. /\ p \in Seq(Task) /\ Len(p) = Len(h) + Len(q)
        /\ \A n \in 1..Len(h) + Len(q) :
             p[n] = IF n <= Len(h) THEN h[n] ELSE q[n - Len(h)]
    <3>1. p = h \o q /\ q \in Seq(Task) /\ h \in Seq(Task) BY <1>2, <1>3
    <3> QED BY <3>1, Concat
  <2> QED BY <1>2, <1>3, <2>1, SMTT(30)
<1> HIDE DEF y
<1>5. \A n \in DOMAIN p : TypeOf(p[n]) = y
  <2>1. \A n \in 1..Len(q) : TypeOf(q[n]) = y BY <1>1, <1>2, SMTT(30) DEF Typed, q
  <2>2. ASSUME NEW n \in DOMAIN p PROVE TypeOf(p[n]) = y
    <3>1. n \in 1..(Len(q) + 1) BY <1>4, <2>2, SMTT(30)
    <3>2. CASE n = 1 BY <1>3, <1>4, <3>2 DEF y
    <3>3. CASE n # 1
      <4>1. n - 1 \in 1..Len(q) /\ n = (n - 1) + 1 BY <1>2, <3>1, <3>3, SMTT(30)
      <4>2. p[n] = q[n - 1] BY <1>4, <4>1
      <4> QED BY <2>1, <4>1, <4>2
    <3> QED BY <3>2, <3>3
  <2> QED BY <2>2
<1>6. ASSUME NEW z \in Type
      PROVE  \A n \in DOMAIN queue'[z] : TypeOf(queue'[z][n]) = z
  <2>1. CASE z = y BY <1>5, <2>1 DEF p
  <2>2. CASE z # y
    <3>1. queue'[z] = queue[z] BY <1>2, <2>2
    <3> QED BY <3>1 DEF Typed
  <2> QED BY <2>1, <2>2
<1> QED BY <1>2, <1>3, <1>4, <1>6 DEF p, q, y

----------------------------------------------------------------------------
(* The steps of the workers.                                               *)

\* getTask moves a task from the front of its queue to a new dispatch.
LEMMA GetTaskStep ==
  ASSUME WorkInv, NEW w \in Worker, GetTask(w)
  PROVE  WorkInv'
<1> DEFINE y == IF queue["map"] # << >> THEN "map" ELSE "reduce"
           h == Head(queue[y])
           n == Len(task) + 1
<1>1. /\ at[w] = "idle" /\ mu = 0 /\ queue[y] # << >> /\ Len(task) < MaxID
      /\ queue' = [queue EXCEPT ![y] = Tail(@)]
      /\ task' = Append(task, h) /\ mon' = Append(mon, "new")
      /\ work' = [work EXCEPT ![w] = Len(task')]
      /\ at' = [at EXCEPT ![w] = "ask"]
      /\ UNCHANGED <<hand, wg, mu, expired, doneC, isTimeout, tempFiles, outFiles,
                     phase, toAdd, adding, panicked>>
  BY DEF GetTask, fileVars, endVars
<1>2. y \in Type BY DEF Type
<1> HIDE DEF y
<1>3. /\ queue[y] \in Seq(Task) /\ Tail(queue[y]) \in Seq(Task) /\ h \in Task
      /\ \A m \in 1..Len(Tail(queue[y])) : Tail(queue[y])[m] = queue[y][m + 1]
      /\ Len(Tail(queue[y])) = Len(queue[y]) - 1
      /\ Len(queue[y]) \in Nat /\ h = queue[y][1] /\ Len(queue[y]) > 0
  BY <1>1, <1>2, SMTT(30) DEF WorkInv, Typed
<1>4. TypeOf(h) = y BY <1>2, <1>3, SMTT(30) DEF WorkInv, Typed
<1> HIDE DEF h
<1>5. /\ Len(task) \in Nat /\ task \in Seq(Task) /\ mon \in Seq(MonState)
      /\ Len(mon) = Len(task) /\ ID = 1..Len(task)
  BY SMTT(30) DEF WorkInv, Typed, ID
<1>6. /\ task' \in Seq(Task) /\ Len(task') = n /\ task'[n] = h
      /\ \A j \in ID : task'[j] = task[j]
  BY <1>1, <1>3, <1>5, SMTT(30)
<1>7. /\ mon' \in Seq(MonState) /\ Len(mon') = n /\ mon'[n] = "new"
      /\ \A j \in ID : mon'[j] = mon[j]
  BY <1>1, <1>5, SMTT(30) DEF MonState
<1>8. n \in Nat /\ n \notin ID /\ ID' = ID \cup {n}
  BY <1>5, <1>6, SMTT(30) DEF ID
<1> HIDE DEF n
<1>9. Typed'
  <2>1. queue' \in [Type -> Seq(Task)] BY <1>1, <1>2, <1>3 DEF WorkInv, Typed
  <2>2. \A z \in Type : \A m \in DOMAIN queue'[z] : TypeOf(queue'[z][m]) = z
    <3>1. ASSUME NEW z \in Type, NEW m \in DOMAIN queue'[z]
          PROVE TypeOf(queue'[z][m]) = z
      <4>1. CASE z = y
        <5>1. queue'[z] = Tail(queue[y]) BY <1>1, <1>2, <4>1 DEF WorkInv, Typed
        <5>2. m \in 1..Len(Tail(queue[y])) BY <1>3, <3>1, <5>1, SMTT(30)
        <5>3. m + 1 \in DOMAIN queue[y] /\ queue'[z][m] = queue[y][m + 1]
          BY <1>3, <5>1, <5>2, SMTT(30)
        <5> QED BY <1>2, <4>1, <5>3 DEF WorkInv, Typed
      <4>2. CASE z # y BY <1>1, <3>1, <4>2 DEF WorkInv, Typed
      <4> QED BY <4>1, <4>2
    <3> QED BY <3>1
  <2>3. Len(task') <= MaxID BY <1>1, <1>5, <1>6, MRAssumption, SMTT(30) DEF n
  <2>4. mu' \in 0..Len(task') BY <1>1, <1>6, <1>8, SMTT(30)
  <2>5. /\ expired' \subseteq ID' /\ doneC' \subseteq ID' /\ isTimeout' \subseteq ID'
        /\ outFiles' \subseteq ID' /\ tempFiles' \in [Type -> SUBSET ID']
    BY <1>1, <1>8 DEF WorkInv, Typed
  <2>6. \A z \in Type : \A i \in tempFiles'[z] : TypeOf(task'[i]) = z
    BY <1>1, <1>6, ZenonT(30) DEF WorkInv, Typed
  <2>7. work' \in [Worker -> 0..Len(task')]
    BY <1>1, <1>5, <1>6, SMTT(30) DEF WorkInv, Typed, n
  <2>8. at' \in [Worker -> {"idle", "ask", "work", "report", "send"}]
    BY <1>1 DEF WorkInv, Typed
  <2> QED BY <1>1, <1>6, <1>7, <2>1, <2>2, <2>3, <2>4, <2>5, <2>6, <2>7, <2>8, ZenonT(30)
          DEF WorkInv, Typed
<1>10. AtWork'
  <2>1. work'[w] = n /\ at'[w] = "ask" /\ mon'[work'[w]] = "new" /\ n # 0
    BY <1>1, <1>5, <1>6, <1>7, SMTT(30) DEF WorkInv, Typed, n
  <2>2. ASSUME NEW v \in Worker, v # w
        PROVE  work'[v] = work[v] /\ at'[v] = at[v] /\ work[v] # n
    BY <1>1, <1>5, <2>2, SMTT(30) DEF WorkInv, Typed, n
  <2>3. ASSUME NEW v \in Worker, v # w, at[v] # "idle"
        PROVE  work[v] \in ID /\ mon'[work[v]] = mon[work[v]]
    BY <1>5, <1>7, <2>3, SMTT(30) DEF WorkInv, Typed, AtWork, WorkerAt, ID
  <2>4. ASSUME NEW v \in Worker, v # w PROVE WorkerAt(v)'
    <3>1. mu' = mu /\ isTimeout' = isTimeout BY <1>1
    <3>2. work'[v] = work[v] /\ at'[v] = at[v] BY <2>2, <2>4
    <3>3. WorkerAt(v) BY DEF WorkInv, AtWork
    <3>4. CASE at[v] = "idle" BY <3>2, <3>3, <3>4 DEF WorkerAt
    <3>5. CASE at[v] # "idle"
      <4>1. mon'[work[v]] = mon[work[v]] BY <2>3, <2>4, <3>5
      <4> QED BY <3>1, <3>2, <3>3, <3>5, <4>1 DEF WorkerAt
    <3> QED BY <3>4, <3>5
  <2>5. WorkerAt(w)' BY <2>1 DEF WorkerAt
  <2>6. ASSUME NEW u \in Worker, NEW v \in Worker, work'[u] = work'[v]
        PROVE  u = v \/ work'[v] = 0
    BY <2>1, <2>2, <2>6 DEF WorkInv, AtWork
  <2> QED BY <2>4, <2>5, <2>6 DEF AtWork
<1>11. Results'
  <2>1. \A i \in ID : HasFiles(i)' <=> HasFiles(i)
    BY <1>1, <1>6, ZenonT(30) DEF HasFiles
  <2>2. ASSUME NEW i \in ID', mon'[i] \in {"done", "release", "count", "over"}
        PROVE  HasFiles(i)'
    BY <1>7, <1>8, <2>1, <2>2 DEF WorkInv, Results
  <2>3. ASSUME NEW v \in Worker, at'[v] \in {"send", "report"}
        PROVE  /\ at'[v] = at[v] /\ work'[v] = work[v] /\ work[v] \in ID
               /\ task'[work[v]] = task[work[v]]
    BY <1>1, <1>5, <1>6, <2>3, SMTT(30) DEF WorkInv, Typed, AtWork, WorkerAt, ID
  <2>4. ASSUME NEW v \in Worker PROVE WorkerHasFiles(v)'
    <3>1. phase' = phase /\ tempFiles' = tempFiles /\ outFiles' = outFiles
      BY <1>1
    <3>2. WorkerHasFiles(v) BY DEF WorkInv, Results
    <3>3. CASE at'[v] = "send"
      <4>1. HasFiles(work[v]) BY <2>3, <3>2, <3>3 DEF WorkerHasFiles
      <4> QED BY <2>3, <3>1, <3>3, <4>1 DEF WorkerHasFiles, HasFiles
    <3>4. CASE at'[v] = "report" BY <2>3, <3>1, <3>2, <3>4 DEF WorkerHasFiles
    <3>5. CASE at'[v] \notin {"send", "report"} BY <3>5 DEF WorkerHasFiles
    <3> QED BY <3>3, <3>4, <3>5
  <2> QED BY <2>2, <2>4 DEF Results
<1> QED BY <1>9, <1>10, <1>11 DEF WorkInv

\* The answer of DispatchTask: monitorTask starts.
LEMMA MonitorTaskStep ==
  ASSUME WorkInv, NEW w \in Worker, MonitorTask(w)
  PROVE  WorkInv'
<1> DEFINE i == work[w]
<1> USE DEF WorkInv
<1>1. /\ at[w] = "ask" /\ mu = 0 /\ doneC' = doneC \cup {i}
      /\ mon' = [mon EXCEPT ![i] = "select"]
      /\ at' = [at EXCEPT ![w] = "work"]
      /\ UNCHANGED <<queue, hand, wg, mu, task, expired, isTimeout, tempFiles,
                     outFiles, phase, toAdd, adding, work, panicked>>
  BY DEF MonitorTask, queueVars, fileVars, endVars
<1>2. i \in ID /\ mon[i] = "new" BY <1>1, WorkingOn DEF AtWork, WorkerAt
<1>3. /\ mon' \in Seq(MonState) /\ Len(mon') = Len(mon) /\ ID' = ID
      /\ \A j \in ID : mon'[j] = IF j = i THEN "select" ELSE mon[j]
  BY <1>1, <1>2, MonMoves, ZenonT(30) DEF MonState
<1>4. Typed'
  <2>1. doneC' \subseteq ID' BY <1>1, <1>2, <1>3 DEF Typed
  <2> QED BY <1>1, <1>3, <2>1 DEF Typed
<1>5. AtWork'
  <2>1. ASSUME NEW v \in Worker, v # w PROVE WorkerAt(v)'
    <3>1. at[v] # "idle" => work[v] \in ID /\ work[v] # i
      BY <1>2, <2>1, WorkingOn, SMTT(30) DEF AtWork, ID
    <3> QED BY <1>1, <1>3, <2>1, <3>1, OthersWork DEF AtWork, Typed
  <2>2. WorkerAt(w)' BY <1>1, <1>2, <1>3, SMTT(30) DEF WorkerAt, AtWork, Typed, ID
  <2> QED BY <1>1, <2>1, <2>2, DistinctStay DEF AtWork
<1>6. Results'
  <2>1. WorkerHasFiles(w)' BY <1>1 DEF WorkerHasFiles, Typed
  <2> QED BY <1>1, <1>3, <2>1, ResultsStay, SMTT(30) DEF Typed
<1> QED BY <1>4, <1>5, <1>6

\* A step of a worker that leaves the tasks and their dispatches alone.
LEMMA WorkerStep ==
  ASSUME WorkInv, NEW w \in Worker,
         NEW a \in {"idle", "report", "send"}, NEW x \in {0, work[w]},
         at' = [at EXCEPT ![w] = a], work' = [work EXCEPT ![w] = x],
         mu' = mu \/ mu = 0, mu' \in 0..Len(task),
         isTimeout' \in {isTimeout, isTimeout \ {work[w]}}, doneC' \subseteq doneC,
         outFiles \subseteq outFiles', outFiles' \subseteq ID,
         tempFiles' \in [Type -> SUBSET ID],
         \A y \in Type : /\ tempFiles[y] \subseteq tempFiles'[y]
                         /\ \A i \in tempFiles'[y] : TypeOf(task[i]) = y,
         UNCHANGED <<queue, hand, wg, task, mon, expired, phase, toAdd, adding,
                     panicked>>,
         WorkerAt(w)', WorkerHasFiles(w)'
  PROVE  WorkInv'
<1> USE DEF WorkInv
<1>1. ID' = ID BY DEF ID
<1>2. work' \in [Worker -> 0..Len(task)] BY SMTT(30) DEF Typed
<1>3. Typed' BY <1>1, <1>2 DEF Typed
<1>4. \A v \in Worker : v # w => work'[v] = work[v] /\ at'[v] = at[v]
  BY SMTT(30) DEF Typed
<1>5. AtWork'
  <2>1. ASSUME NEW v \in Worker, v # w PROVE WorkerAt(v)'
    <3>1. WorkerAt(v) BY DEF AtWork
    <3>2. at[v] = "send" => mu' = mu
      <4>1. at[v] = "send" => mu = work[v] /\ work[v] # 0
        BY <3>1 DEF WorkerAt
      <4> QED BY <4>1
    <3>3. work[v] \in isTimeout => work[v] \in isTimeout'
      <4>1. 0 \notin isTimeout BY SMTT(30) DEF Typed, ID
      <4> QED BY <2>1, <4>1 DEF AtWork
    <3> QED BY <1>4, <2>1, <3>1, <3>2, <3>3, OthersWork
  <2>2. \A u, v \in Worker : work'[u] = work'[v] => u = v \/ work'[v] = 0
    BY SMTT(30) DEF Typed, AtWork
  <2> QED BY <2>1, <2>2 DEF AtWork
<1>6. Results' BY <1>4, ResultsStay
<1> QED BY <1>3, <1>5, <1>6

\* A worker has done its map task.
LEMMA WorkMapStep ==
  ASSUME WorkInv, NEW w \in Worker, WorkMap(w)
  PROVE  WorkInv'
<1> USE DEF WorkInv
<1>1. /\ at[w] = "work" /\ task[work[w]] \in MapTask
      /\ at' = [at EXCEPT ![w] = "report"] /\ work' = work
      /\ UNCHANGED <<queue, hand, wg, mu, task, mon, expired, doneC, isTimeout,
                     tempFiles, outFiles, phase, toAdd, adding, panicked>>
  BY DEF WorkMap, queueVars, monVars, fileVars, endVars
<1>2. work' = [work EXCEPT ![w] = work[w]] /\ at'[w] = "report"
  BY <1>1 DEF Typed
<1>3. WorkerAt(w)' BY <1>1, <1>2 DEF WorkerAt, AtWork
<1>4. WorkerHasFiles(w)' BY <1>1, <1>2, MRAssumption DEF WorkerHasFiles
<1> QED BY <1>1, <1>2, <1>3, <1>4, WorkerStep DEF Typed

\* A worker has done its reduce task and written its output.
LEMMA WorkReduceStep ==
  ASSUME WorkInv, NEW w \in Worker, WorkReduce(w)
  PROVE  WorkInv'
<1> USE DEF WorkInv
<1>1. /\ at[w] = "work" /\ outFiles' = outFiles \cup {work[w]}
      /\ at' = [at EXCEPT ![w] = "report"] /\ work' = work
      /\ UNCHANGED <<queue, hand, wg, mu, task, mon, expired, doneC, isTimeout,
                     tempFiles, phase, toAdd, adding, panicked>>
  BY DEF WorkReduce, queueVars, monVars, endVars
<1>2. work' = [work EXCEPT ![w] = work[w]] /\ at'[w] = "report"
  BY <1>1 DEF Typed
<1>3. WorkerAt(w)' BY <1>1, <1>2 DEF WorkerAt, AtWork
<1>4. WorkerHasFiles(w)' BY <1>1, <1>2 DEF WorkerHasFiles
<1>5. outFiles' \subseteq ID BY <1>1, WorkingOn DEF Typed
<1> QED BY <1>1, <1>2, <1>3, <1>4, <1>5, WorkerStep DEF Typed

\* A report that comes after the timeout is ignored.
LEMMA TaskDoneLateStep ==
  ASSUME WorkInv, NEW w \in Worker, TaskDoneLate(w)
  PROVE  WorkInv'
<1> USE DEF WorkInv
<1>1. /\ isTimeout' = isTimeout \ {work[w]} /\ doneC' = doneC \ {work[w]}
      /\ work' = [work EXCEPT ![w] = 0] /\ at' = [at EXCEPT ![w] = "idle"]
      /\ UNCHANGED <<queue, hand, wg, mu, task, mon, expired, tempFiles,
                     outFiles, phase, toAdd, adding, panicked>>
  BY DEF TaskDoneLate, queueVars, fileVars, endVars
<1>2. at'[w] = "idle" /\ work'[w] = 0 BY <1>1 DEF Typed
<1>3. WorkerAt(w)' /\ WorkerHasFiles(w)' BY <1>2 DEF WorkerAt, WorkerHasFiles
<1> QED BY <1>1, <1>3, WorkerStep DEF Typed

\* A report in time: its files are recorded.
LEMMA TaskDoneStep ==
  ASSUME WorkInv, NEW w \in Worker, TaskDone(w)
  PROVE  WorkInv'
<1> USE DEF WorkInv
<1> DEFINE i == work[w]
           y == TypeOf(task[i])
<1>1. /\ at[w] = "report" /\ mu = 0 /\ i \notin isTimeout
      /\ tempFiles' = [tempFiles EXCEPT ![y] = @ \cup {i}]
      /\ mu' = i /\ at' = [at EXCEPT ![w] = "send"] /\ work' = work
      /\ UNCHANGED <<queue, hand, wg, task, mon, expired, doneC, isTimeout,
                     outFiles, phase, toAdd, adding, panicked>>
  BY DEF TaskDone, queueVars, monVars, endVars
<1>2. work' = [work EXCEPT ![w] = work[w]] /\ at'[w] = "send"
  BY <1>1 DEF Typed
<1>3. i \in ID /\ i # 0 /\ y \in Type /\ i \in 0..Len(task)
  BY <1>1, WorkingOn, SMTT(30) DEF ID, TypeOf, Type
<1>4. WorkerAt(w)' BY <1>1, <1>2, <1>3 DEF WorkerAt, AtWork
<1>5. /\ tempFiles' \in [Type -> SUBSET ID] /\ i \in tempFiles'[y]
      /\ \A z \in Type : /\ tempFiles[z] \subseteq tempFiles'[z]
                         /\ \A j \in tempFiles'[z] : TypeOf(task[j]) = z
  BY <1>1, <1>3 DEF Typed
<1>6. WorkerHasFiles(w)'
  <2>1. task[i] \in ReduceTask => i \in outFiles
    BY <1>1 DEF Results, WorkerHasFiles
  <2>2. HasFiles(work[w])' BY <1>1, <1>5, <2>1 DEF HasFiles, TypeOf
  <2> QED BY <1>2, <2>2 DEF WorkerHasFiles
<1> QED BY <1>1, <1>2, <1>3, <1>4, <1>5, <1>6, WorkerStep DEF Typed

\* A worker is gone, and another takes its place.
LEMMA CrashStep ==
  ASSUME WorkInv, NEW w \in Worker, Crash(w)
  PROVE  WorkInv'
<1> USE DEF WorkInv
<1>1. /\ work' = [work EXCEPT ![w] = 0] /\ at' = [at EXCEPT ![w] = "idle"]
      /\ UNCHANGED <<queue, hand, wg, mu, task, mon, expired, doneC, isTimeout,
                     tempFiles, outFiles, phase, toAdd, adding, panicked>>
  BY DEF Crash, queueVars, monVars, fileVars, endVars
<1>2. at'[w] = "idle" /\ work'[w] = 0 BY <1>1 DEF Typed
<1>3. WorkerAt(w)' /\ WorkerHasFiles(w)' BY <1>2 DEF WorkerAt, WorkerHasFiles
<1> QED BY <1>1, <1>3, WorkerStep DEF Typed

\* monitorTask receives the result.
LEMMA DoneCStep ==
  ASSUME WorkInv, NEW w \in Worker, DoneC(w)
  PROVE  WorkInv'
<1> USE DEF WorkInv
<1> DEFINE i == work[w]
<1>1. /\ at[w] = "send" /\ mon[i] = "select"
      /\ mon' = [mon EXCEPT ![i] = "done"] /\ mu' = 0
      /\ work' = [work EXCEPT ![w] = 0] /\ at' = [at EXCEPT ![w] = "idle"]
      /\ UNCHANGED <<queue, hand, wg, task, expired, doneC, isTimeout,
                     tempFiles, outFiles, phase, toAdd, adding, panicked>>
  BY DEF DoneC, queueVars, fileVars, endVars
<1>2. i \in ID /\ i # 0 /\ mu = i
  BY <1>1, WorkingOn DEF AtWork, WorkerAt, ID
<1>3. /\ mon' \in Seq(MonState) /\ Len(mon') = Len(mon) /\ ID' = ID
      /\ \A j \in ID : mon'[j] = IF j = i THEN "done" ELSE mon[j]
  BY <1>1, <1>2, MonMoves, ZenonT(30) DEF MonState
<1>4. Typed'
  <2>1. work' \in [Worker -> 0..Len(task')] BY <1>1, SMTT(30) DEF Typed
  <2>2. mu' \in 0..Len(task') BY <1>1, SMTT(30) DEF Typed
  <2> QED BY <1>1, <1>3, <2>1, <2>2 DEF Typed
<1>5. AtWork'
  <2>1. ASSUME NEW v \in Worker, v # w PROVE WorkerAt(v)'
    <3>1. at[v] # "idle" => work[v] \in ID /\ work[v] # i
      BY <1>2, <2>1, WorkingOn DEF AtWork, ID
    <3>2. at[v] # "send" BY <1>2, <3>1 DEF AtWork, WorkerAt
    <3> QED BY <1>1, <1>3, <2>1, <3>1, <3>2, OthersWork DEF AtWork, Typed
  <2>2. WorkerAt(w)' BY <1>1 DEF WorkerAt, Typed
  <2> QED BY <1>1, <2>1, <2>2, DistinctStay DEF AtWork
<1>6. Results'
  <2>1. \A j \in ID : HasFiles(j) => HasFiles(j)'
    BY <1>1, FilesStay
  <2>2. HasFiles(i) BY <1>1 DEF Results, WorkerHasFiles
  <2> HIDE DEF i
  <2>3. ASSUME NEW j \in ID', mon'[j] \in {"done", "release", "count", "over"}
        PROVE  HasFiles(j)'
    BY <1>3, <2>1, <2>2, <2>3 DEF Results
  <2>4. ASSUME NEW v \in Worker PROVE WorkerHasFiles(v)'
    <3>1. CASE v = w BY <1>1, <3>1 DEF WorkerHasFiles, Typed
    <3>2. CASE v # w
      <4>1. at'[v] = at[v] /\ work'[v] = work[v] BY <1>1, <3>2 DEF Typed
      <4>2. at[v] # "send"
        BY <1>1, <1>2, <3>2, WorkingOn DEF AtWork, WorkerAt, i
      <4> QED BY <1>1, <4>1, <4>2, SMTT(30) DEF Results, WorkerHasFiles
    <3> QED BY <3>1, <3>2
  <2> QED BY <2>3, <2>4 DEF Results
<1> QED BY <1>4, <1>5, <1>6

----------------------------------------------------------------------------
(* The steps of monitorTask and of addTimeoutTask.                         *)

\* A step of monitorTask of dispatch i, other than the timeout, that follows
\* its receive from doneC, or takes the timer's case.
LEMMA MonitorSteps ==
  ASSUME WorkInv, NEW i \in ID, NEW to \in {"timer", "release", "count"},
         mon' = [mon EXCEPT ![i] = to],
         \/ to = "timer" /\ mon[i] \in {"select", "done"}
         \/ to # "timer" /\ mon[i] \in {"done", "release"},
         doneC' \subseteq doneC,
         UNCHANGED <<queue, hand, wg, mu, task, expired, isTimeout, tempFiles,
                     outFiles, phase, toAdd, adding, work, at, panicked>>
  PROVE  WorkInv'
<1> USE DEF WorkInv
<1>1. to \in MonState
  BY DEF MonState
<1>2. /\ mon' \in Seq(MonState) /\ Len(mon') = Len(mon) /\ ID' = ID
      /\ \A j \in ID : mon'[j] = IF j = i THEN to ELSE mon[j]
  BY <1>1, MonMoves, ZenonT(30)
<1>3. Typed' BY <1>2 DEF Typed
<1>4. AtWork'
  <2>1. ASSUME NEW v \in Worker PROVE WorkerAt(v)'
    <3>1. CASE work[v] # i
      <4>1. at[v] # "idle" => mon'[work[v]] = mon[work[v]]
        BY <1>2, <3>1, WorkingOn
      <4> QED BY <4>1, OthersWork DEF AtWork
    <3>2. CASE work[v] = i
      <4>1. i # 0 BY SMTT(30) DEF ID
      <4>2. WorkerAt(v) BY DEF AtWork
      <4>3. at[v] \in {"work", "report", "send"} /\ to = "timer"
        BY <3>2, <4>1, <4>2 DEF WorkerAt, Typed
      <4>4. mon'[i] = "timer" BY <1>2, <4>3
      <4> QED BY <3>2, <4>1, <4>2, <4>3, <4>4 DEF WorkerAt
    <3> QED BY <3>1, <3>2
  <2> QED BY <2>1 DEF AtWork
<1>5. Results' BY <1>2, ResultsStay
<1> QED BY <1>3, <1>4, <1>5

\* timeOut: a task on its way back to its queue; the dispatch is late.
LEMMA TimeOutStep ==
  ASSUME WorkInv, NEW i \in ID, TimeOut(i)
  PROVE  WorkInv'
<1> USE DEF WorkInv
<1> DEFINE h == task[i]
           y == TypeOf(h)
<1>1. /\ mon[i] = "timer" /\ mon' = [mon EXCEPT ![i] = "late"] /\ mu = 0
      /\ hand[y] = None /\ isTimeout' = isTimeout \cup {i}
      /\ hand' = [hand EXCEPT ![y] = h]
      /\ UNCHANGED <<queue, wg, mu, task, expired, doneC, tempFiles, outFiles,
                     phase, toAdd, adding, work, at, panicked>>
  BY DEF TimeOut, MonStep, fileVars, endVars, workVars
<1>2. y \in Type /\ h \in Task /\ h # None
  BY MRAssumption, SMTT(30) DEF TypeOf, Type, Typed, ID, Task
<1>3. /\ mon' \in Seq(MonState) /\ Len(mon') = Len(mon) /\ ID' = ID
      /\ \A j \in ID : mon'[j] = IF j = i THEN "late" ELSE mon[j]
  BY <1>1, MonMoves, ZenonT(30) DEF MonState
<1> HIDE DEF h
<1>4. Typed'
  <2>1. hand' \in [Type -> Task \cup {None}] BY <1>1, <1>2 DEF Typed
  <2>2. \A z \in Type : hand'[z] = None \/ TypeOf(hand'[z]) = z
    BY <1>1, <1>2 DEF Typed
  <2> QED BY <1>1, <1>3, <2>1, <2>2 DEF Typed
<1>5. AtWork'
  <2>1. ASSUME NEW v \in Worker PROVE WorkerAt(v)'
    <3>1. CASE work[v] # i
      <4>1. at[v] # "idle" => mon'[work[v]] = mon[work[v]]
        BY <1>3, <3>1, WorkingOn
      <4> QED BY <1>1, <4>1, OthersWork DEF AtWork
    <3>2. CASE work[v] = i
      <4>1. i # 0 BY SMTT(30) DEF ID
      <4>2. WorkerAt(v) BY DEF AtWork
      <4>3. at[v] \in {"work", "report"}
        BY <1>1, <3>2, <4>1, <4>2 DEF WorkerAt, Typed
      <4>4. mon'[i] = "late" /\ i \in isTimeout' BY <1>1, <1>3
      <4> QED BY <1>1, <3>2, <4>1, <4>2, <4>3, <4>4 DEF WorkerAt
    <3> QED BY <3>1, <3>2
  <2> QED BY <1>1, <2>1 DEF AtWork
<1>6. Results' BY <1>1, <1>3, ResultsStay, SMTT(30)
<1> QED BY <1>4, <1>5, <1>6

\* addTimeoutTask puts the task back.
LEMMA AddTimeoutTaskStep ==
  ASSUME WorkInv, NEW y \in Type, AddTimeoutTask(y)
  PROVE  WorkInv'
<1> USE DEF WorkInv
<1> DEFINE h == hand[y]
<1>1. /\ h # None /\ queue' = [queue EXCEPT ![y] = << h >> \o @]
      /\ hand' = [hand EXCEPT ![y] = None]
      /\ UNCHANGED <<wg, mu, task, mon, expired, doneC, isTimeout, tempFiles,
                     outFiles, phase, toAdd, adding, work, at, panicked>>
  BY DEF AddTimeoutTask, monVars, fileVars, endVars, workVars
<1>2. h \in Task /\ TypeOf(h) = y BY <1>1 DEF Typed
<1>3. /\ queue' \in [Type -> Seq(Task)]
      /\ \A z \in Type : \A n \in DOMAIN queue'[z] : TypeOf(queue'[z][n]) = z
  BY <1>1, <1>2, AddTask, ZenonT(30)
<1>4. ID' = ID BY <1>1 DEF ID
<1>5. Typed'
  <2>1. /\ hand' \in [Type -> Task \cup {None}]
        /\ \A z \in Type : hand'[z] = None \/ TypeOf(hand'[z]) = z
    BY <1>1 DEF Typed
  <2> QED BY <1>1, <1>3, <1>4, <2>1 DEF Typed
<1>6. AtWork' BY <1>1 DEF AtWork, WorkerAt
<1>7. Results' BY <1>1, ResultsStay
<1> QED BY <1>5, <1>6, <1>7

\* WaitGroup.Done.
LEMMA WGDoneStep ==
  ASSUME WorkInv, NEW i \in ID, WGDone(i)
  PROVE  WorkInv'
<1> USE DEF WorkInv
<1> DEFINE t == task[i]
           y == TypeOf(t)
<1>1. /\ ~panicked /\ mon[i] = "count" /\ mon' = [mon EXCEPT ![i] = "over"]
      /\ \/ wg[y] = 0 /\ panicked' = TRUE /\ wg' = wg
         \/ wg[y] # 0 /\ panicked' = panicked /\ wg' = [wg EXCEPT ![y] = @ - 1]
      /\ UNCHANGED <<queue, hand, mu, task, expired, doneC, isTimeout, tempFiles,
                     outFiles, phase, toAdd, adding, work, at>>
  BY DEF WGDone, MonStep, Running, queueVars, fileVars, endVars, workVars
<1>2. /\ mon' \in Seq(MonState) /\ Len(mon') = Len(mon) /\ ID' = ID
      /\ \A j \in ID : mon'[j] = IF j = i THEN "over" ELSE mon[j]
  BY <1>1, MonMoves, ZenonT(30) DEF MonState
<1>3. t \in Task /\ y \in Type BY SMTT(30) DEF Typed, ID, TypeOf, Type
<1>4. Typed'
  <2>1. wg' \in [Type -> Nat] BY <1>1, <1>3, SMTT(30) DEF Typed, Type
  <2>2. panicked' \in BOOLEAN BY <1>1, ZenonT(30) DEF Typed
  <2> QED BY <1>1, <1>2, <2>1, <2>2 DEF Typed
<1>5. AtWork'
  <2>1. ASSUME NEW v \in Worker PROVE WorkerAt(v)'
    <3>1. WorkerAt(v) BY DEF AtWork
    <3>2. at[v] # "idle" => work[v] \in ID /\ work[v] # i
      BY <1>1, <3>1, WorkingOn DEF WorkerAt, Typed
    <3> QED BY <1>1, <1>2, <3>1, <3>2, OthersWork
  <2> QED BY <1>1, <2>1 DEF AtWork
<1>6. Results' BY <1>1, <1>2, ResultsStay
<1> QED BY <1>4, <1>5, <1>6

\* A step that leaves the dispatches and the workers alone.
LEMMA StillStep ==
  ASSUME WorkInv, Typed', task' = task,
         phase' \in {"map", "reduce"} => /\ phase \in {"map", "reduce"}
                                         /\ tempFiles' = tempFiles,
         UNCHANGED <<mu, mon, isTimeout, outFiles, work, at>>
  PROVE  WorkInv'
<1> USE DEF WorkInv
<1>1. AtWork' BY DEF AtWork, WorkerAt
<1>2. Results' BY ResultsStay
<1> QED BY <1>1, <1>2

\* The timer of a dispatch.
LEMMA ExpireStep ==
  ASSUME WorkInv, NEW i \in ID, Expire(i)
  PROVE  WorkInv'
<1>1. /\ expired' = expired \cup {i}
      /\ UNCHANGED <<queue, hand, wg, mu, task, mon, doneC, isTimeout, tempFiles,
                     outFiles, phase, toAdd, adding, work, at, panicked>>
  BY DEF Expire, queueVars, fileVars, endVars, workVars
<1>2. ID' = ID BY <1>1 DEF ID
<1>3. Typed' BY <1>1, <1>2 DEF WorkInv, Typed
<1> QED BY <1>1, <1>3, StillStep DEF WorkInv, Typed

----------------------------------------------------------------------------
(* monitorMapEnd, reduce and monitorReduceEnd.                             *)

\* addReduceTask puts a task in the queue.
LEMMA AddReduceTaskStep ==
  ASSUME WorkInv, NEW x \in ReduceTask, AddReduceTask(x)
  PROVE  WorkInv'
<1>1. /\ queue' = [queue EXCEPT !["reduce"] = << x >> \o @]
      /\ toAdd' = toAdd \ {x} /\ adding' = x
      /\ UNCHANGED <<hand, wg, mu, task, mon, expired, doneC, isTimeout,
                     tempFiles, outFiles, phase, work, at, panicked>>
  BY DEF AddReduceTask, monVars, fileVars, workVars
<1>2. x \in Task /\ TypeOf(x) = "reduce" BY MRAssumption DEF TypeOf, Task
<1>3. Typed BY DEF WorkInv
<1>4. /\ queue' \in [Type -> Seq(Task)]
      /\ \A z \in Type : \A n \in DOMAIN queue'[z] : TypeOf(queue'[z][n]) = z
  BY <1>1, <1>2, <1>3, AddTask, ZenonT(30)
<1>5. ID' = ID BY <1>1 DEF ID
<1>6. Typed' BY <1>1, <1>3, <1>4, <1>5 DEF Typed
<1> QED BY <1>1, <1>3, <1>6, StillStep DEF Typed

\* The other steps of the goroutines that end the phases.
LEMMA PhaseSteps ==
  ASSUME WorkInv, MapEnd \/ AddReduceCount \/ ReduceEnd \/ End
  PROVE  WorkInv'
<1>1. /\ UNCHANGED <<queue, hand, mu, task, mon, expired, doneC, isTimeout,
                     outFiles, work, at, panicked>>
      /\ phase' \in {"map", "reduce", "ending", "done"}
      /\ phase' \in {"map", "reduce"} => /\ phase \in {"map", "reduce"}
                                         /\ tempFiles' = tempFiles
      /\ tempFiles' \in {tempFiles, [y \in Type |-> {}]}
      /\ wg' \in {wg, [wg EXCEPT !["reduce"] = @ + 1]}
      /\ toAdd' \in {toAdd, ReduceTask} /\ adding' \in {adding, None}
  <2>1. CASE MapEnd
    BY <2>1 DEF MapEnd, queueVars, monVars, fileVars, workVars
  <2>2. CASE AddReduceCount
    BY <2>2 DEF AddReduceCount, queueVars, monVars, fileVars, workVars, WorkInv, Typed
  <2>3. CASE ReduceEnd
    BY <2>3 DEF ReduceEnd, queueVars, monVars, workVars
  <2>4. CASE End
    BY <2>4 DEF End, queueVars, monVars, fileVars, workVars
  <2> QED BY <2>1, <2>2, <2>3, <2>4
<1>2. ID' = ID BY <1>1 DEF ID
<1>3. wg' \in [Type -> Nat]
  <2>1. wg \in [Type -> Nat] BY DEF WorkInv, Typed
  <2>2. CASE wg' = wg BY <2>1, <2>2
  <2>3. CASE wg' = [wg EXCEPT !["reduce"] = @ + 1] BY <2>1, <2>3, SMTT(30) DEF Type
  <2> QED BY <1>1, <2>2, <2>3
<1>4. /\ tempFiles' \in [Type -> SUBSET ID]
      /\ \A y \in Type : \A i \in tempFiles'[y] : TypeOf(task[i]) = y
  BY <1>1 DEF WorkInv, Typed
<1>5. Typed' BY <1>1, <1>2, <1>3, <1>4 DEF WorkInv, Typed
<1> QED BY <1>1, <1>5, StillStep

----------------------------------------------------------------------------
\* Every step of a worker or of the coordinator keeps the invariant.
LEMMA WorkInvStep == WorkInv /\ [Next]_vars => WorkInv'

<1> SUFFICES ASSUME WorkInv, [Next]_vars PROVE WorkInv'
  OBVIOUS
<1>1. ASSUME NEW i \in ID, MonTimer(i) PROVE WorkInv'
  <2>1. /\ mon[i] \in {"select", "done"} /\ mon' = [mon EXCEPT ![i] = "timer"]
        /\ doneC' \subseteq doneC
        /\ UNCHANGED <<queue, hand, wg, mu, task, expired, isTimeout, tempFiles,
                       outFiles, phase, toAdd, adding, work, at, panicked>>
    BY <1>1 DEF MonTimer, MonStep, queueVars, fileVars, endVars, workVars
  <2> QED BY <2>1, MonitorSteps, ZenonT(30)
<1>2. ASSUME NEW i \in ID, MonDefault(i) PROVE WorkInv'
  <2>1. /\ mon[i] = "done" /\ mon' = [mon EXCEPT ![i] = "release"]
        /\ doneC' \subseteq doneC
        /\ UNCHANGED <<queue, hand, wg, mu, task, expired, isTimeout, tempFiles,
                       outFiles, phase, toAdd, adding, work, at, panicked>>
    BY <1>2 DEF MonDefault, MonStep, queueVars, fileVars, endVars, workVars
  <2> QED BY <2>1, MonitorSteps, ZenonT(30)
<1>3. ASSUME NEW i \in ID, ReleaseDoneTask(i) PROVE WorkInv'
  <2>1. /\ mon[i] = "release" /\ mon' = [mon EXCEPT ![i] = "count"]
        /\ doneC' \subseteq doneC
        /\ UNCHANGED <<queue, hand, wg, mu, task, expired, isTimeout, tempFiles,
                       outFiles, phase, toAdd, adding, work, at, panicked>>
    BY <1>3 DEF ReleaseDoneTask, MonStep, queueVars, fileVars, endVars, workVars
  <2> QED BY <2>1, MonitorSteps, ZenonT(30)
<1>4. CASE UNCHANGED vars
  <2>1. UNCHANGED <<queue, hand, wg, mu, task, mon, expired, doneC, isTimeout,
                    tempFiles, outFiles, phase, toAdd, adding, work, at, panicked>>
    BY <1>4 DEF vars, queueVars, monVars, fileVars, endVars, workVars
  <2>2. Typed' BY <2>1 DEF WorkInv, Typed, ID
  <2> QED BY <2>1, <2>2, StillStep DEF WorkInv, Typed
<1> QED
  BY <1>1, <1>2, <1>3, <1>4, GetTaskStep, MonitorTaskStep, WorkMapStep,
     WorkReduceStep, TaskDoneLateStep, TaskDoneStep, DoneCStep, CrashStep,
     ExpireStep, TimeOutStep, AddTimeoutTaskStep, WGDoneStep,
     AddReduceTaskStep, PhaseSteps
  DEF Next

============================================================================
