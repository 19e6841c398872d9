----------------------------- MODULE MapReduce -----------------------------
(***************************************************************************)
(* The coordinator of src/mr/coordinator.go and its workers.               *)
(*                                                                         *)
(* One action is one critical section of the coordinator's mutex, or one   *)
(* step of a goroutine between them.  MapTaskDone and ReduceTaskDone send  *)
(* on an unbuffered channel while they hold the mutex (mu below); the      *)
(* other critical sections do not wait for anyone that needs the mutex.    *)
(* Every dispatch of a task has an ID and a goroutine monitorTask.  Nothing*)
(* is sent on StopC before the job is done; it is left out.                *)
(***************************************************************************)
EXTENDS Integers, Sequences, FiniteSets

CONSTANTS
  MapTask, ReduceTask,
  Worker,
  None,
  MayTimeout,    \* do tasks take longer than their 10 seconds?
  MayCrash,      \* do workers exit in the middle of a task?
  MaxID          \* bound: dispatches

ASSUME MRAssumption ==
  /\ IsFiniteSet(MapTask) /\ IsFiniteSet(ReduceTask)
  /\ MapTask \cap ReduceTask = {}
  /\ None \notin MapTask \cup ReduceTask
  /\ MayTimeout \in BOOLEAN /\ MayCrash \in BOOLEAN
  /\ MaxID \in Nat

Task == MapTask \cup ReduceTask
Type == {"map", "reduce"}
TypeOf(t) == IF t \in MapTask THEN "map" ELSE "reduce"

VARIABLES
  queue,         \* mapQueue and reduceQueue, front first
  hand,          \* what the two addTimeoutTask goroutines have received
  wg,            \* mapWG and reduceWG
  mu,            \* the ID whose TaskDone call holds the coordinator's mutex
  task,          \* the task of each dispatch; Len(task) is currentID
  mon,           \* where the monitorTask goroutine of each dispatch is
  expired,       \* the dispatches whose timer has fired
  doneC,         \* the dispatches that have a channel
  isTimeout,     \* the field of the same name
  tempFiles,     \* mapTempFiles and reduceTempFiles: the dispatches whose
                 \* files they hold
  outFiles,      \* the dispatches whose mr-out file is on the disk
  phase,         \* how far monitorMapEnd and monitorReduceEnd are
  toAdd, adding, \* the loop of reduce: tasks to come, task between addTask
                 \* and Add
  work,          \* the dispatch each worker is at; 0: none
  at,            \* what the worker does with it
  panicked       \* a WaitGroup went below zero: the coordinator is gone

queueVars == <<queue, hand>>
monVars == <<task, mon, expired, doneC, isTimeout>>
endVars == <<phase, toAdd, adding>>
fileVars == <<tempFiles, outFiles>>
workVars == <<work, at>>
vars == <<queueVars, wg, mu, monVars, fileVars, endVars, workVars, panicked>>

ID == 1..Len(task)

\* The program exits when the job is done (main/mrcoordinator.go).
Running == ~panicked /\ phase # "done"

\* MakeCoordinator: _map puts every file at the front of the queue.
Init ==
  /\ \E q \in [1..Cardinality(MapTask) -> MapTask] :
       /\ {q[n] : n \in DOMAIN q} = MapTask
       /\ queue = [y \in Type |-> IF y = "map" THEN q ELSE << >>]
  /\ hand = [y \in Type |-> None]
  /\ wg = [y \in Type |-> IF y = "map" THEN Cardinality(MapTask) ELSE 0]
  /\ mu = 0
  /\ task = << >> /\ mon = << >>
  /\ expired = {} /\ doneC = {} /\ isTimeout = {}
  /\ tempFiles = [y \in Type |-> {}] /\ outFiles = {}
  /\ phase = "map" /\ toAdd = {} /\ adding = None
  /\ work = [w \in Worker |-> 0]
  /\ at = [w \in Worker |-> "idle"]
  /\ panicked = FALSE

----------------------------------------------------------------------------
(* A worker asks for a task: DispatchTask.                                 *)

\* getTask: the front of the map queue, or else of the reduce queue, under
\* the next ID.
GetTask(w) ==
  LET y == IF queue["map"] # << >> THEN "map" ELSE "reduce"
  IN  /\ Running
      /\ at[w] = "idle"
      /\ mu = 0
      /\ queue[y] # << >>
      /\ Len(task) < MaxID
      /\ queue' = [queue EXCEPT ![y] = Tail(@)]
      /\ task' = Append(task, Head(queue[y]))
      /\ mon' = Append(mon, "new")
      /\ work' = [work EXCEPT ![w] = Len(task')]
      /\ at' = [at EXCEPT ![w] = "ask"]
      /\ UNCHANGED <<hand, wg, mu, expired, doneC, isTimeout, fileVars,
                     endVars, panicked>>

\* monitorMapTask and monitorReduceTask: the channel, the goroutine with its
\* timer, and the answer to the worker.
MonitorTask(w) ==
  LET i == work[w]
  IN  /\ Running
      /\ at[w] = "ask"
      /\ mu = 0
      /\ doneC' = doneC \cup {i}
      /\ mon' = [mon EXCEPT ![i] = "select"]
      /\ at' = [at EXCEPT ![w] = "work"]
      /\ UNCHANGED <<queueVars, wg, mu, task, expired, isTimeout, fileVars,
                     endVars, work, panicked>>

----------------------------------------------------------------------------
(* The worker: its task, and the report to MapTaskDone or ReduceTaskDone.  *)

\* _map and processMapIntermediate.  The files carry the dispatch's ID, and
\* count for nothing until they are reported.
WorkMap(w) ==
  /\ Running
  /\ at[w] = "work" /\ task[work[w]] \in MapTask
  /\ at' = [at EXCEPT ![w] = "report"]
  /\ UNCHANGED <<queueVars, wg, mu, monVars, fileVars, endVars, work, panicked>>

\* reduce and saveReduceResult, which writes the output itself, under the
\* dispatch's ID.
WorkReduce(w) ==
  /\ Running
  /\ at[w] = "work" /\ task[work[w]] \in ReduceTask
  /\ at' = [at EXCEPT ![w] = "report"]
  /\ outFiles' = outFiles \cup {work[w]}
  /\ UNCHANGED <<queueVars, wg, mu, monVars, tempFiles, endVars, work, panicked>>

\* Mutant: a late result counts as one.
TaskDoneLate_Counts(w) ==
  LET i == work[w]
  IN  /\ Running
      /\ at[w] = "report"
      /\ mu = 0
      /\ i \in isTimeout
      /\ isTimeout' = isTimeout \ {i}
      /\ doneC' = doneC \ {i}
      /\ work' = [work EXCEPT ![w] = 0]
      /\ at' = [at EXCEPT ![w] = "idle"]
      /\ wg' = [wg EXCEPT ![TypeOf(task[i])] = @ - 1]
      /\ UNCHANGED <<queueVars, mu, task, mon, expired, fileVars, endVars,
                     panicked>>

\* The task has timed out: the result is ignored.
TaskDoneLate(w) ==
  LET i == work[w]
  IN  /\ Running
      /\ at[w] = "report"
      /\ mu = 0
      /\ i \in isTimeout
      /\ isTimeout' = isTimeout \ {i}
      /\ doneC' = doneC \ {i}
      /\ work' = [work EXCEPT ![w] = 0]
      /\ at' = [at EXCEPT ![w] = "idle"]
      /\ UNCHANGED <<queueVars, wg, mu, task, mon, expired, fileVars, endVars,
                     panicked>>

\* Mutant: late results are taken too.
TaskDone_LateToo(w) ==
  LET i == work[w]
  IN  /\ Running
      /\ at[w] = "report"
      /\ mu = 0
      /\ tempFiles' = [tempFiles EXCEPT ![TypeOf(task[i])] = @ \cup {i}]
      /\ mu' = i
      /\ at' = [at EXCEPT ![w] = "send"]
      /\ UNCHANGED <<queueVars, wg, monVars, outFiles, endVars, work, panicked>>

\* Otherwise the files are recorded, and the call goes on, with the mutex,
\* to its send on doneC.
TaskDone(w) ==
  LET i == work[w]
  IN  /\ Running
      /\ at[w] = "report"
      /\ mu = 0
      /\ i \notin isTimeout
      /\ tempFiles' = [tempFiles EXCEPT ![TypeOf(task[i])] = @ \cup {i}]
      /\ mu' = i
      /\ at' = [at EXCEPT ![w] = "send"]
      /\ UNCHANGED <<queueVars, wg, monVars, outFiles, endVars, work, panicked>>

\* The send meets monitorTask at its select.
DoneC(w) ==
  LET i == work[w]
  IN  /\ Running
      /\ at[w] = "send"
      /\ i \in doneC
      /\ mon[i] = "select"
      /\ mon' = [mon EXCEPT ![i] = "done"]
      /\ mu' = 0
      /\ work' = [work EXCEPT ![w] = 0]
      /\ at' = [at EXCEPT ![w] = "idle"]
      /\ UNCHANGED <<queueVars, wg, task, expired, doneC, isTimeout, fileVars,
                     endVars, panicked>>

\* A worker exits in the middle of a task (mrapps/crash.go), and another is
\* started in its place (main/test-mr.sh).
Crash(w) ==
  /\ Running
  /\ MayCrash
  /\ at[w] = "work"
  /\ work' = [work EXCEPT ![w] = 0]
  /\ at' = [at EXCEPT ![w] = "idle"]
  /\ UNCHANGED <<queueVars, wg, mu, monVars, fileVars, endVars, panicked>>

----------------------------------------------------------------------------
(* monitorTask and addTimeoutTask.                                         *)

MonStep(i, from, to) == mon[i] = from /\ mon' = [mon EXCEPT ![i] = to]

\* time.After: the timer of a dispatch fires.
Expire(i) ==
  /\ Running
  /\ MayTimeout
  /\ mon[i] \in {"select", "done"}
  /\ i \notin expired
  /\ expired' = expired \cup {i}
  /\ UNCHANGED <<queueVars, wg, mu, task, mon, doneC, isTimeout, fileVars,
                 endVars, workVars, panicked>>

\* The timer's case of the select, the outer one or the inner one that
\* follows the receive from doneC.
MonTimer(i) ==
  /\ Running
  /\ i \in expired
  /\ MonStep(i, "select", "timer") \/ MonStep(i, "done", "timer")
  /\ UNCHANGED <<queueVars, wg, mu, task, expired, doneC, isTimeout, fileVars,
                 endVars, workVars, panicked>>

\* Mutant: the task is not put back.
TimeOut_Drops(i) ==
  /\ Running
  /\ MonStep(i, "timer", "late")
  /\ mu = 0
  /\ isTimeout' = isTimeout \cup {i}
  /\ UNCHANGED <<queueVars, wg, mu, task, expired, doneC, fileVars, endVars,
                 workVars, panicked>>

\* timeOut, under the mutex, with its send to addTimeoutTask.
TimeOut(i) ==
  /\ Running
  /\ MonStep(i, "timer", "late")
  /\ mu = 0
  /\ hand[TypeOf(task[i])] = None
  /\ isTimeout' = isTimeout \cup {i}
  /\ hand' = [hand EXCEPT ![TypeOf(task[i])] = task[i]]
  /\ UNCHANGED <<queue, wg, mu, task, expired, doneC, fileVars, endVars,
                 workVars, panicked>>

\* addTimeoutTask's addTask.
AddTimeoutTask(y) ==
  /\ Running
  /\ hand[y] # None
  /\ queue' = [queue EXCEPT ![y] = << hand[y] >> \o @]
  /\ hand' = [hand EXCEPT ![y] = None]
  /\ UNCHANGED <<wg, mu, monVars, fileVars, endVars, workVars, panicked>>

\* The default case of the inner select.
MonDefault(i) ==
  /\ Running
  /\ i \notin expired
  /\ MonStep(i, "done", "release")
  /\ UNCHANGED <<queueVars, wg, mu, task, expired, doneC, isTimeout, fileVars,
                 endVars, workVars, panicked>>

\* releaseDoneTask, under the mutex.
ReleaseDoneTask(i) ==
  /\ Running
  /\ MonStep(i, "release", "count")
  /\ mu = 0
  /\ doneC' = doneC \ {i}
  /\ UNCHANGED <<queueVars, wg, mu, task, expired, isTimeout, fileVars,
                 endVars, workVars, panicked>>

\* Mutant: only map tasks are counted.
WGDone_MapOnly(i) ==
  LET y == TypeOf(task[i])
  IN  /\ Running
      /\ MonStep(i, "count", "over")
      /\ wg' = IF y = "map" THEN [wg EXCEPT ![y] = @ - 1] ELSE wg
      /\ UNCHANGED <<queueVars, mu, task, expired, doneC, isTimeout, fileVars,
                     endVars, workVars, panicked>>

\* mapWG.Done or reduceWG.Done; a WaitGroup that goes below zero panics.
WGDone(i) ==
  LET y == TypeOf(task[i])
  IN  /\ Running
      /\ MonStep(i, "count", "over")
      /\ IF wg[y] = 0
         THEN panicked' = TRUE /\ UNCHANGED wg
         ELSE wg' = [wg EXCEPT ![y] = @ - 1] /\ UNCHANGED panicked
      /\ UNCHANGED <<queueVars, mu, task, expired, doneC, isTimeout, fileVars,
                     endVars, workVars>>

----------------------------------------------------------------------------
(* monitorMapEnd, reduce and monitorReduceEnd.                             *)

\* Mutant: reduce starts when the map queue is empty.
MapEnd_QueueEmpty ==
  /\ Running
  /\ phase = "map"
  /\ queue["map"] = << >>
  /\ phase' = "reduce"
  /\ toAdd' = ReduceTask
  /\ UNCHANGED <<queueVars, wg, mu, monVars, fileVars, adding, workVars,
                 panicked>>

\* mapWG.Wait returns; the reduce tasks are made from mapTempFiles.
MapEnd ==
  /\ Running
  /\ phase = "map"
  /\ wg["map"] = 0
  /\ phase' = "reduce"
  /\ toAdd' = ReduceTask
  /\ UNCHANGED <<queueVars, wg, mu, monVars, fileVars, adding, workVars,
                 panicked>>

\* addReduceTask, in the order in which the goroutines of reduce deliver:
\* the task is in the queue before it is counted.
AddReduceTask(t) ==
  /\ Running
  /\ t \in toAdd /\ adding = None
  /\ queue' = [queue EXCEPT !["reduce"] = << t >> \o @]
  /\ toAdd' = toAdd \ {t}
  /\ adding' = t
  /\ UNCHANGED <<hand, wg, mu, monVars, fileVars, phase, workVars, panicked>>

\* Mutant: Add(2).
AddReduceCount_Twice ==
  /\ Running
  /\ adding # None
  /\ wg' = [wg EXCEPT !["reduce"] = @ + 2]
  /\ adding' = None
  /\ UNCHANGED <<queueVars, mu, monVars, fileVars, phase, toAdd, workVars,
                 panicked>>

AddReduceCount ==
  /\ Running
  /\ adding # None
  /\ wg' = [wg EXCEPT !["reduce"] = @ + 1]
  /\ adding' = None
  /\ UNCHANGED <<queueVars, mu, monVars, fileVars, phase, toAdd, workVars,
                 panicked>>

\* Mutant: monitorReduceEnd does not wait for the loop that adds the tasks.
ReduceEnd_Early ==
  /\ Running
  /\ phase = "reduce"
  /\ wg["reduce"] = 0
  /\ phase' = "ending"
  /\ tempFiles' = [y \in Type |-> {}]
  /\ UNCHANGED <<queueVars, wg, mu, monVars, outFiles, toAdd, adding, workVars,
                 panicked>>

\* reduceWG.Wait returns: removeTempFiles.
ReduceEnd ==
  /\ Running
  /\ phase = "reduce" /\ toAdd = {} /\ adding = None
  /\ wg["reduce"] = 0
  /\ phase' = "ending"
  /\ tempFiles' = [y \in Type |-> {}]
  /\ UNCHANGED <<queueVars, wg, mu, monVars, outFiles, toAdd, adding, workVars,
                 panicked>>

\* end, under the mutex; Done then tells the main program to exit.
End ==
  /\ Running
  /\ phase = "ending"
  /\ mu = 0
  /\ phase' = "done"
  /\ UNCHANGED <<queueVars, wg, mu, monVars, fileVars, toAdd, adding, workVars,
                 panicked>>

----------------------------------------------------------------------------
Next ==
  \/ \E w \in Worker : GetTask(w)
  \/ \E w \in Worker : MonitorTask(w)
  \/ \E w \in Worker : WorkMap(w)
  \/ \E w \in Worker : WorkReduce(w)
  \/ \E w \in Worker : TaskDoneLate(w)
  \/ \E w \in Worker : TaskDone(w)
  \/ \E w \in Worker : DoneC(w)
  \/ \E w \in Worker : Crash(w)
  \/ \E i \in ID : Expire(i)
  \/ \E i \in ID : MonTimer(i)
  \/ \E i \in ID : TimeOut(i)
  \/ \E y \in Type : AddTimeoutTask(y)
  \/ \E i \in ID : MonDefault(i)
  \/ \E i \in ID : ReleaseDoneTask(i)
  \/ \E i \in ID : WGDone(i)
  \/ MapEnd
  \/ \E t \in ReduceTask : AddReduceTask(t)
  \/ AddReduceCount
  \/ ReduceEnd
  \/ End

Spec == Init /\ [][Next]_vars

\* Every goroutine and every worker that can take a step takes one in the
\* end, and a timer fires if monitorTask waits for it; a crash need not happen.
Fairness ==
  /\ \A w \in Worker :
       WF_vars(\/ GetTask(w) \/ MonitorTask(w) \/ WorkMap(w)
               \/ WorkReduce(w) \/ TaskDoneLate(w) \/ TaskDone(w) \/ DoneC(w))
  /\ \A i \in 1..MaxID :
       WF_vars(/\ i \in ID
               /\ \/ Expire(i) \/ MonTimer(i) \/ TimeOut(i) \/ MonDefault(i)
                  \/ ReleaseDoneTask(i) \/ WGDone(i))
  /\ \A y \in Type : WF_vars(AddTimeoutTask(y))
  /\ WF_vars(\/ MapEnd \/ AddReduceCount \/ ReduceEnd \/ End
             \/ \E t \in ReduceTask : AddReduceTask(t))

LiveSpec == Spec /\ Fairness

----------------------------------------------------------------------------
MonState ==
  {"new", "select", "timer", "late", "done", "release", "count", "over"}

Typed ==
  /\ queue \in [Type -> Seq(Task)]
  /\ \A y \in Type : \A n \in DOMAIN queue[y] : TypeOf(queue[y][n]) = y
  /\ hand \in [Type -> Task \cup {None}]
  /\ \A y \in Type : hand[y] = None \/ TypeOf(hand[y]) = y
  /\ wg \in [Type -> Nat]
  /\ mu \in 0..Len(task)
  /\ task \in Seq(Task) /\ Len(task) <= MaxID
  /\ mon \in Seq(MonState) /\ Len(mon) = Len(task)
  /\ expired \subseteq ID /\ doneC \subseteq ID /\ isTimeout \subseteq ID
  /\ outFiles \subseteq ID
  /\ tempFiles \in [Type -> SUBSET ID]
  /\ \A y \in Type : \A i \in tempFiles[y] : TypeOf(task[i]) = y
  /\ phase \in {"map", "reduce", "ending", "done"}
  /\ toAdd \subseteq ReduceTask /\ adding \in ReduceTask \cup {None}
  /\ work \in [Worker -> 0..Len(task)]
  /\ at \in [Worker -> {"idle", "ask", "work", "report", "send"}]
  /\ panicked \in BOOLEAN

\* Every variable stays in its type; a WaitGroup never counts more tasks than
\* there are.
TypeOK ==
  /\ Typed
  /\ wg["map"] <= Cardinality(MapTask)
  /\ wg["reduce"] <= Cardinality(ReduceTask)

\* The tasks the coordinator has put into its queues so far.
Added == MapTask \cup (IF phase = "map" THEN {} ELSE ReduceTask \ toAdd)

Dispatches(t) == {i \in ID : task[i] = t}
Finished(t) == \E i \in Dispatches(t) : mon[i] = "over"

\* How often a task is in a queue; its dispatches that have not timed out; the
\* tasks of S that are not finished.
Count(q, t) == Cardinality({n \in DOMAIN q : q[n] = t})
Live(t) == {i \in Dispatches(t) : mon[i] # "late"}
Open(S) == {t \in S : ~Finished(t)}

\* No task is lost and none is handed out twice at a time: each is in its
\* queue, on its way back to it, dispatched and not timed out, or finished,
\* and in one of these places only, through all timeouts, late results and
\* crashes of workers.
OnePlace ==
  \A t \in Task :
      Count(queue[TypeOf(t)], t)
    + (IF hand[TypeOf(t)] = t THEN 1 ELSE 0)
    + Cardinality(Live(t))
    = (IF t \in Added THEN 1 ELSE 0)

\* mapWG and reduceWG count the unfinished tasks, except that addReduceTask
\* puts a task in the queue before it counts it; only there can Done find a
\* WaitGroup at zero.
CountersExact ==
  IF panicked THEN adding # None
  ELSE /\ wg["map"] = Cardinality(Open(MapTask))
       /\ wg["reduce"] = Cardinality(Open(Added \cap ReduceTask))
                           - (IF adding = None THEN 0 ELSE 1)

\* When monitorMapEnd makes the reduce tasks, mapTempFiles has the files of a
\* dispatch of every map task.
MapBeforeReduce ==
  phase = "reduce" =>
    \A t \in MapTask : tempFiles["map"] \cap Dispatches(t) # {}

\* groupIntermediateFiles and removeTempFiles read mapTempFiles without the
\* mutex: no result of a map task is added to it from then on.
MapFilesFinal ==
  [][phase # "map" => tempFiles'["map"] \subseteq tempFiles["map"]]_vars

\* When the job is done, the mr-out files have the result of every reduce task,
\* from a dispatch that has been counted; a dispatch that timed out may have
\* left one more.
OutputComplete ==
  phase = "done" =>
    \A t \in ReduceTask : \E i \in Dispatches(t) \cap outFiles : mon[i] = "over"

\* MapTaskDone or ReduceTaskDone holds the mutex at its send, and monitorTask,
\* which should receive, has taken its timer's case and waits for the mutex.
Deadlocked == mu # 0 /\ mon[mu] = "timer"

\* A task waits for a dispatch that the bound no longer allows.
OutOfIDs == Len(task) = MaxID /\ \E y \in Type : queue[y] # << >>

\* The job ends, whatever crashes and timeouts there are, as the timer brings
\* back what a crash has lost.  Only two things keep it from ending: the panic
\* in addReduceTask, and the deadlock of a result with the timer.
JobEnds == <>(phase = "done" \/ panicked \/ Deadlocked \/ OutOfIDs)

\* What the comment of monitorTask says (line 154): a task that has timed out
\* goes back to its queue.
TimedOutRequeued ==
  \A i \in 1..MaxID :
    (i \in ID /\ mon[i] = "timer") ~> (i \in ID /\ mon[i] = "late")

----------------------------------------------------------------------------
(* Why the invariants hold: an inductive invariant.  WorkInv holds by      *)
(* itself (MapReduceWorkProofs), and the rest on top of it                 *)
(* (MapReduceProofs).                                                      *)

\* A dispatch has one worker at most, whose monitorTask has not received its
\* result; if it has timed out, isTimeout says so until the worker reports.
WorkerAt(w) ==
  /\ at[w] = "idle" <=> work[w] = 0
  /\ at[w] = "ask" => mon[work[w]] = "new"
  /\ at[w] \in {"work", "report"}
     => \/ mon[work[w]] \in {"select", "timer"}
        \/ mon[work[w]] = "late" /\ work[w] \in isTimeout
  /\ at[w] = "send" => mon[work[w]] \in {"select", "timer"} /\ mu = work[w]

AtWork ==
  /\ \A w \in Worker : WorkerAt(w)
  /\ \A v, w \in Worker : work[v] = work[w] => v = w \/ work[w] = 0

\* A dispatch whose result monitorTask has received has left its files.
HasFiles(i) ==
  /\ phase \in {"map", "reduce"} => i \in tempFiles[TypeOf(task[i])]
  /\ task[i] \in ReduceTask => i \in outFiles

WorkerHasFiles(w) ==
  /\ at[w] = "send" => HasFiles(work[w])
  /\ at[w] = "report" /\ task[work[w]] \in ReduceTask => work[w] \in outFiles

Results ==
  /\ \A i \in ID : mon[i] \in {"done", "release", "count", "over"} => HasFiles(i)
  /\ \A w \in Worker : WorkerHasFiles(w)

WorkInv == Typed /\ AtWork /\ Results

\* What the phases have seen to.
Phases ==
  /\ phase # "reduce" => toAdd = {} /\ adding = None
  /\ adding # None => adding \notin toAdd
  /\ phase # "map" => \A t \in MapTask : Finished(t)
  /\ phase \in {"ending", "done"} => \A t \in ReduceTask : Finished(t)

MRInv == WorkInv /\ TypeOK /\ OnePlace /\ CountersExact /\ Phases
============================================================================
