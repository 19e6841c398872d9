------------------------- MODULE RaftHarnessProofs -------------------------
(***************************************************************************)
(* crash1 and start1 of src/raft/config.go isolate the instance they kill, *)
(* for any number of servers, calls, restarts and operations.              *)
(***************************************************************************)
EXTENDS RaftHarness, TLAPS

\* The provers of a leaf that names none, in the order they are tried.
USE ZenonT(2), SMTT(30), Zenon, SMTT(40)

----------------------------------------------------------------------------
(* What the steps do to the calls.                                         *)

\* A step of the network's owner changes nothing of a call but cut.
LEMMA CutStep ==
  ASSUME TypeOK, NEW E, CutCalls(E)
  PROVE  /\ DOMAIN calls' = Call
         /\ \A k \in Call :
              /\ calls'[k].pc = calls[k].pc
              /\ Made(k) => /\ calls'[k] \in CallRec
                            /\ calls'[k].end = calls[k].end
                            /\ calls'[k].server = calls[k].server
                            /\ calls'[k].handler = calls[k].handler
<1> SUFFICES ASSUME NEW k \in Call
             PROVE  /\ calls'[k].pc = calls[k].pc
                    /\ Made(k) => /\ calls'[k] \in CallRec
                                  /\ calls'[k].end = calls[k].end
                                  /\ calls'[k].server = calls[k].server
                                  /\ calls'[k].handler = calls[k].handler
  BY DEF CutCalls
<1>1. CASE calls'[k] = calls[k]
  BY <1>1 DEF TypeOK, NetType
<1>2. CASE Made(k) /\ calls'[k] = [calls[k] EXCEPT !.cut = TRUE]
  BY ZenonT(30), <1>2 DEF TypeOK, NetType, CallRec
<1> QED
  BY <1>1, <1>2 DEF CutCalls, Active

\* Go moves one call and changes nothing else.
LEMMA GoStep ==
  ASSUME TypeOK, NEW k \in Call, Made(k), NEW pc, Go(k, pc)
  PROVE  /\ DOMAIN calls' = Call
         /\ \A l \in Call : l # k => calls'[l] = calls[l]
         /\ calls'[k] = [calls[k] EXCEPT !.pc = pc]
         /\ calls'[k].pc = pc
         /\ calls'[k].end = calls[k].end
         /\ calls'[k].server = calls[k].server
         /\ calls'[k].handler = calls[k].handler
<1>1. calls[k] \in CallRec
  BY DEF TypeOK, NetType
<1>2. /\ DOMAIN calls' = Call
      /\ \A l \in Call : l # k => calls'[l] = calls[l]
      /\ calls'[k] = [calls[k] EXCEPT !.pc = pc]
  BY DEF Go, TypeOK, NetType
<1> QED
  BY <1>1, <1>2 DEF CallRec

\* What a step of processReq can do to its call.
ReadsServer(k) ==
  /\ calls[k].pc = "sent" /\ calls'[k].pc = "read"
  /\ calls[k].end \in enabled
  /\ calls'[k].server = servers[calls[k].end.to] /\ servers[calls[k].end.to] # 0
  /\ calls'[k].handler = calls[k].handler

StartsHandler(k) ==
  /\ calls[k].pc = "read" /\ calls'[k].pc = "wait"
  /\ calls'[k].server = calls[k].server
  /\ calls'[k].handler = "running"

MovesOn(k) ==
  /\ calls'[k].server = calls[k].server
  /\ calls'[k].handler = calls[k].handler
  /\ \/ calls'[k].pc \in {"timer", "failed", "dead"}
     \/ calls'[k].pc = "reply" /\ calls[k].handler = "returned"
     \/ calls'[k].pc \in {"ok", "delayed"} /\ calls[k].pc = "delayed"
     \/ calls'[k].pc \in {"ok", "delayed"} /\ calls[k].pc = "reply" /\ ~IsServerDead(k)

\* What a step of processReq changes: its own call, and what that may become.
LEMMA NetEffect ==
  ASSUME TypeOK, NEW k \in Call, ProcessReq(k)
  PROVE  /\ UNCHANGED netVars
         /\ DOMAIN calls' = Call
         /\ \A l \in Call : l # k => calls'[l] = calls[l]
         /\ Made(k) /\ calls'[k] \in CallRec
         /\ calls'[k].end = calls[k].end
         /\ ReadsServer(k) \/ StartsHandler(k) \/ MovesOn(k)
<1> DEFINE Goal ==
      /\ UNCHANGED netVars
      /\ DOMAIN calls' = Call
      /\ \A l \in Call : l # k => calls'[l] = calls[l]
      /\ Made(k) /\ calls'[k] \in CallRec
      /\ calls'[k].end = calls[k].end
      /\ ReadsServer(k) \/ StartsHandler(k) \/ MovesOn(k)
<1> SUFFICES Goal
  OBVIOUS
<1> USE DEF At, Made
<1>1. ASSUME NEW pc \in {"timer", "failed", "dead", "reply", "ok", "delayed"},
             Made(k), Go(k, pc),
             \/ pc \in {"timer", "failed", "dead"}
             \/ pc = "reply" /\ calls[k].handler = "returned"
             \/ pc \in {"ok", "delayed"} /\ calls[k].pc = "delayed"
             \/ pc \in {"ok", "delayed"} /\ calls[k].pc = "reply" /\ ~IsServerDead(k)
      PROVE  Goal
  <2>1. /\ DOMAIN calls' = Call
        /\ \A l \in Call : l # k => calls'[l] = calls[l]
        /\ calls'[k] = [calls[k] EXCEPT !.pc = pc]
        /\ calls'[k].pc = pc
        /\ calls'[k].end = calls[k].end
        /\ calls'[k].server = calls[k].server
        /\ calls'[k].handler = calls[k].handler
    BY <1>1, GoStep
  <2>2. calls'[k] \in CallRec
    BY <1>1, <2>1 DEF CallRec, TypeOK, NetType
  <2>3. MovesOn(k)
    BY <1>1, <2>1 DEF MovesOn
  <2>4. UNCHANGED netVars
    BY <1>1 DEF Go
  <2> QED
    BY <1>1, <2>1, <2>2, <2>3, <2>4
<1> HIDE DEF Goal
<1>2. CASE ReadEndnameInfo(k)
  <2>1. calls[k] \in CallRec /\ calls[k].pc = "sent" /\ Made(k)
    BY <1>2 DEF ReadEndnameInfo, TypeOK, NetType
  <2>2. CASE /\ calls[k].end \in enabled
             /\ servers[calls[k].end.to] # 0
    <3>1. calls' = [calls EXCEPT ![k].pc = "read",
                      ![k].server = servers[calls[k].end.to], ![k].reliable = reliable,
                      ![k].late = longReordering]
      BY <1>2, <2>2 DEF ReadEndnameInfo
    <3>2. servers[calls[k].end.to] \in 0..MaxGen /\ reliable \in BOOLEAN
          /\ longReordering \in BOOLEAN
      BY <2>1 DEF TypeOK, NetType, CallRec, End
    <3>3. /\ DOMAIN calls' = Call
          /\ \A l \in Call : l # k => calls'[l] = calls[l]
          /\ calls'[k] = [calls[k] EXCEPT !.pc = "read",
               !.server = servers[calls[k].end.to], !.reliable = reliable,
               !.late = longReordering]
      BY <3>1 DEF TypeOK, NetType
    <3>4. /\ calls'[k] \in CallRec /\ calls'[k].end = calls[k].end
          /\ calls'[k].pc = "read" /\ calls'[k].server = servers[calls[k].end.to]
          /\ calls'[k].handler = calls[k].handler
      BY Zenon, <2>1, <3>2, <3>3 DEF CallRec
    <3> QED
      BY <1>2, <2>1, <2>2, <3>3, <3>4 DEF ReadsServer, ReadEndnameInfo, Goal
  <2>3. CASE ~(/\ calls[k].end \in enabled
               /\ servers[calls[k].end.to] # 0)
    <3>1. Go(k, "timer")
      BY <1>2, <2>3 DEF ReadEndnameInfo, Go
    <3> QED
      BY <1>1, <2>1, <3>1
  <2> QED
    BY <2>2, <2>3
<1>3. CASE Timer(k)
  BY <1>1, <1>3 DEF Timer
<1>4. CASE DropRequest(k)
  BY <1>1, <1>4 DEF DropRequest
<1>5. CASE Dispatch(k)
  <2>1. calls[k] \in CallRec /\ calls[k].pc = "read" /\ Made(k)
    BY <1>5 DEF Dispatch, TypeOK, NetType
  <2>2. /\ DOMAIN calls' = Call
        /\ \A l \in Call : l # k => calls'[l] = calls[l]
        /\ calls'[k] = [calls[k] EXCEPT !.pc = "wait", !.handler = "running"]
    BY <1>5 DEF Dispatch, TypeOK, NetType
  <2>3. /\ calls'[k] \in CallRec /\ calls'[k].end = calls[k].end
        /\ calls'[k].pc = "wait" /\ calls'[k].server = calls[k].server
        /\ calls'[k].handler = "running"
    BY Zenon, <2>1, <2>2 DEF CallRec
  <2> QED
    BY <1>5, <2>1, <2>2, <2>3 DEF Dispatch, StartsHandler, Goal
<1>6. CASE ReceiveReply(k)
  BY <1>1, <1>6 DEF ReceiveReply
<1>7. CASE Poll(k)
  BY <1>1, <1>7 DEF Poll
<1>8. CASE Answer(k)
  BY <1>1, <1>8 DEF Answer
<1>9. CASE DelayedAnswer(k)
  BY <1>1, <1>9 DEF DelayedAnswer
<1> QED
  BY <1>2, <1>3, <1>4, <1>5, <1>6, <1>7, <1>8, <1>9 DEF ProcessReq, Goal

\* What the return of a handler changes: its own call.
LEMMA HandlerEffect ==
  ASSUME TypeOK, NEW k \in Call, HandlerReturns(k)
  PROVE  /\ UNCHANGED netVars
         /\ DOMAIN calls' = Call
         /\ \A l \in Call : l # k => calls'[l] = calls[l]
         /\ Made(k) /\ calls'[k] \in CallRec
         /\ calls[k].handler = "running" /\ calls'[k].handler = "returned"
         /\ calls'[k].pc = calls[k].pc
         /\ calls'[k].end = calls[k].end
         /\ calls'[k].server = calls[k].server
<1>1. calls[k] \in CallRec /\ Made(k) /\ calls[k].handler = "running"
  BY DEF HandlerReturns, TypeOK, NetType
<1>2. /\ DOMAIN calls' = Call
      /\ \A l \in Call : l # k => calls'[l] = calls[l]
      /\ calls'[k] = [calls[k] EXCEPT !.handler = "returned"]
      /\ UNCHANGED netVars
  BY DEF HandlerReturns, TypeOK, NetType
<1> QED
  BY <1>1, <1>2 DEF CallRec

\* What the beginning of a Call changes: its own call.
LEMMA CallEffect ==
  ASSUME TypeOK, NEW k \in Call, NEW e \in End, CallEnd(k, e)
  PROVE  /\ UNCHANGED netVars
         /\ DOMAIN calls' = Call
         /\ \A l \in Call : l # k => calls'[l] = calls[l]
         /\ ~Made(k) /\ calls'[k] \in CallRec
         /\ calls'[k].pc \in {"sent", "failed"}
         /\ calls'[k].handler = "none"
         /\ calls'[k].server = 0
<1>1. PICK pc \in {"sent", "failed"} : calls' = [calls EXCEPT ![k] =
            [pc |-> pc, end |-> e, server |-> 0, reliable |-> TRUE,
             late |-> FALSE, handler |-> "none",
             cut |-> e \notin enabled \/ servers[e.to] = 0]]
  BY Zenon DEF CallEnd
<1> DEFINE cut == e \notin enabled \/ servers[e.to] = 0
           new == [pc |-> pc, end |-> e, server |-> 0, reliable |-> TRUE,
                   late |-> FALSE, handler |-> "none", cut |-> cut]
<1>2. calls' = [calls EXCEPT ![k] = new]
  BY <1>1
<1>3. cut \in BOOLEAN /\ 0 \in 0..MaxGen
  BY HarnessAssumption, SMTT(30)
<1> HIDE DEF cut
<1>4. new \in CallRec /\ new.pc = pc /\ new.handler = "none" /\ new.server = 0
  BY <1>3 DEF CallRec
<1> HIDE DEF new
<1> QED
  BY Zenon, <1>2, <1>4 DEF CallEnd, TypeOK, NetType, At, Made

----------------------------------------------------------------------------
(* The invariant holds at first.                                           *)

\* Before make_config the invariant holds.
LEMMA InvInit == Init => HarnessInv
<1> SUFFICES ASSUME Init PROVE HarnessInv
  OBVIOUS
<1> USE HarnessAssumption
<1>1. \A k \in Call : calls[k].pc = "idle"
  BY DEF Init, NetInit, NotMade
<1>2. TypeOK
  <2>1. NetType
    <3>1. enabled \subseteq End /\ servers \in [Server -> 0..MaxGen] /\ DOMAIN calls = Call
      BY SMTT(30) DEF Init, NetInit
    <3>2. reliable \in BOOLEAN /\ longReordering \in BOOLEAN /\ done \in BOOLEAN
      BY Zenon DEF Init, NetInit
    <3> QED
      BY <1>1, <3>1, <3>2 DEF NetType, Made
  <2>2. AtType
    BY SMTT(30) DEF Init, AtType, Idle, Stage
  <2>3. CfgType /\ DiskType
    BY SMTT(30) DEF Init, CfgType, DiskType
  <2> QED
    BY <2>1, <2>2, <2>3, SMTT(30) DEF Init, TypeOK
<1>3. StageOK
  BY DEF Init, NetInit, StageOK, Idle
<1>4. ServersOK
  BY DEF Init, NetInit, ServersOK, Ended, Gone, Running, Idle
<1>5. BootOK /\ EnabledOK
  BY SMTT(30) DEF Init, NetInit, BootOK, EnabledOK, Idle, Server, Leaving
<1>6. CallsOK /\ ReplyIsDurable
  BY <1>1 DEF CallsOK, ReplyIsDurable, Made
<1> QED
  BY <1>2, <1>3, <1>4, <1>5, <1>6 DEF HarnessInv

----------------------------------------------------------------------------
(* Every step keeps it.                                                    *)

\* The beginning of an operation.
Begins ==
  \E op \in {"crash1", "start1", "connect", "disconnect", "cleanup"}, i \in Server,
     stage \in {"disableOut", "enableOut", "kill"}, j \in {0, 1} :
       /\ Begin(op, i, stage, j)
       /\ CASE stage = "disableOut" -> /\ op \in {"crash1", "start1", "disconnect"}
                                       /\ j = 1
                                       /\ op = "start1" => gen[i] < MaxGen
                                       /\ connected' = [connected EXCEPT ![i] = FALSE]
            [] stage = "enableOut" -> /\ op = "connect" /\ j = 1
                                      /\ connected' = [connected EXCEPT ![i] = TRUE]
            [] stage = "kill" -> op = "cleanup" /\ i = 1 /\ UNCHANGED connected

\* An operation of the test begins only when none is under way.
LEMMA BeginsStep ==
  ASSUME TypeOK, MakeConfig \/ TestBegins
  PROVE  /\ Begins
         /\ booted' \in 0..2 * N /\ ops' \in 0..MaxOps
<1> USE HarnessAssumption
<1>1. ASSUME NEW op \in {"crash1", "start1", "disconnect"}, NEW i \in Server,
             Disconnect(op, i), op = "start1" => gen[i] < MaxGen
      PROVE  Begins
  BY ZenonT(30), <1>1 DEF Begins, Disconnect
<1>2. ASSUME NEW i \in Server, Connect(i) PROVE Begins
  BY Zenon, <1>2 DEF Begins, Connect
<1>3. CASE MakeConfig
  BY <1>1, <1>2, <1>3, SMTT(30) DEF MakeConfig, Start1, Crash1, Server, TypeOK
<1>4. CASE TestBegins
  <2>1. CASE Begin("cleanup", 1, "kill", 0) /\ UNCHANGED connected
    BY <2>1, <1>4, SMTT(30) DEF Begins, Server, TestBegins, TypeOK
  <2> QED
    BY <1>1, <1>2, <1>4, <2>1, SMTT(30) DEF TestBegins, Start1, Crash1, TypeOK
<1> QED
  BY <1>3, <1>4

\* Every step keeps the types of the network's variables.
LEMMA NetTypeStep ==
  ASSUME TypeOK, StageOK, [Next]_vars
  PROVE  NetType'
<1> USE HarnessAssumption DEF NetType, Made
<1> DEFINE CallsType == /\ DOMAIN calls' = Call
                        /\ \A k \in Call : calls'[k].pc # "idle" => calls'[k] \in CallRec
<1>1. ASSUME UNCHANGED rpcVars PROVE NetType'
  BY <1>1 DEF TypeOK, rpcVars, netVars
<1>2. ASSUME UNCHANGED netVars, CallsType PROVE NetType'
  BY <1>2 DEF TypeOK, netVars
<1>3. CASE MakeConfig \/ TestBegins
  BY <1>1, <1>3, BeginsStep DEF Begins, Begin
<1>4. CASE SetNetwork
  BY Zenon, <1>4 DEF SetNetwork, Reliable, LongReordering, TypeOK
<1>5. CASE DisableOut \/ DisableIn
  <2>1. PICK E : Disable(E)
    BY <1>5 DEF DisableOut, DisableIn
  <2>2. CallsType
    BY <2>1, CutStep DEF Disable
  <2> QED
    BY <2>1, <2>2 DEF Disable, TypeOK
<1>6. CASE EnableOut \/ EnableIn
  BY <1>6 DEF EnableOut, EnableIn, Enable, Ends, TypeOK
<1>7. CASE DeleteStep
  <2>1. CallsType
    BY <1>7, CutStep DEF DeleteStep, DeleteServer
  <2> QED
    <3>1. servers' = [servers EXCEPT ![at.i] = 0]
      BY <1>7, Zenon DEF DeleteStep, DeleteServer
    <3>2. servers \in [Server -> 0..MaxGen] /\ 0 \in 0..MaxGen
      BY SMTT(30) DEF TypeOK
    <3>3. servers' \in [Server -> 0..MaxGen]
      BY ZenonT(30), <3>1, <3>2
    <3> QED
      BY <1>7, <2>1, <3>3 DEF DeleteStep, DeleteServer, TypeOK
<1>8. CASE CopyStep \/ KillStep \/ EndsStep \/ MakeStep \/ CleanupKill
  BY <1>1, <1>8 DEF CopyStep, KillStep, EndsStep, MakeStep, CleanupKill
<1>9. CASE AddStep
  BY <1>9 DEF AddStep, AddServer, TypeOK, CfgType, StageOK, In
<1>10. CASE CleanupDone
  BY <1>10 DEF CleanupDone, Cleanup, TypeOK
<1>11. ASSUME NEW k \in Call, NEW e \in End, InstanceCalls(k, e) PROVE NetType'
  BY <1>2, <1>11, CallEffect DEF InstanceCalls, TypeOK
<1>12. ASSUME NEW k \in Call, NetworkStep(k) PROVE NetType'
  BY <1>2, <1>12, NetEffect DEF NetworkStep, TypeOK
<1>13. ASSUME NEW k \in Call, HandlerStep(k) PROVE NetType'
  BY <1>2, <1>13, HandlerEffect DEF HandlerStep, TypeOK
<1>14. CASE UNCHANGED vars
  BY <1>1, <1>14 DEF vars
<1> QED
  BY <1>3, <1>4, <1>5, <1>6, <1>7, <1>8, <1>9, <1>10, <1>11, <1>12, <1>13, <1>14
     DEF Next, TestStep

\* Where the test is after a step: StageOK, and the type of at.
LEMMA StageStep ==
  ASSUME TypeOK, StageOK, [Next]_vars
  PROVE  AtType' /\ StageOK'
<1> USE HarnessAssumption DEF AtType
<1>1. ASSUME UNCHANGED <<at, done>> PROVE AtType' /\ StageOK'
  BY <1>1 DEF TypeOK, StageOK
<1>2. CASE MakeConfig \/ TestBegins
  <2>1. PICK op \in {"crash1", "start1", "connect", "disconnect", "cleanup"}, i \in Server,
             stage \in {"disableOut", "enableOut", "kill"}, j \in {0, 1} :
       /\ Begin(op, i, stage, j)
       /\ stage = "disableOut" => op \in {"crash1", "start1", "disconnect"} /\ j = 1
       /\ stage = "enableOut" => op = "connect" /\ j = 1
       /\ stage = "kill" => op = "cleanup"
    BY <1>2, BeginsStep, SMTT(30) DEF Begins
  <2>2. at' = [op |-> op, i |-> i, stage |-> stage, j |-> j] /\ ~done /\ ~done'
    BY <2>1 DEF Begin, rpcVars, netVars
  <2>3. AtType'
    BY <2>2, SMTT(30) DEF Server, Stage
  <2> QED
    BY <2>1, <2>2, <2>3, SMTT(30) DEF StageOK, Idle, Server
<1>3. CASE SetNetwork
  BY <1>1, <1>3 DEF SetNetwork, Reliable, LongReordering
<1>4. ASSUME NEW stage \in {"disableOut", "disableIn", "enableOut", "enableIn"},
             NEW next \in {"return", "disableIn", "enableIn", "delete"},
             Turn(stage, next), UNCHANGED done,
             next = "disableIn" => stage = "disableOut",
             next = "enableIn" => stage = "enableOut",
             next = "delete" => stage = "disableIn" /\ at.op # "disconnect"
      PROVE  AtType' /\ StageOK'
  <2>1. at.stage = stage /\ at.j \in Server /\ at # Idle
    BY <1>4 DEF Turn, In, StageOK, Idle
  <2>2. CASE at' = Idle
    BY <2>1, <2>2, SMTT(30) DEF StageOK, Idle, Stage
  <2>3. CASE at.j < N /\ at' = [at EXCEPT !.j = @ + 1]
    BY <1>4, <2>1, <2>3, SMTT(30) DEF TypeOK, StageOK, Idle, Server
  <2>4. CASE next # "return" /\ at' = [at EXCEPT !.stage = next, !.j = 1]
    <3>0. next \in Stage /\ 1 \in 0..N
      BY <2>4, SMTT(30) DEF Stage
    <3>1. /\ at'.stage = next /\ at'.j = 1 /\ at'.i = at.i /\ at'.op = at.op
          /\ AtType'
      BY ZenonT(30), <2>4, <3>0 DEF TypeOK
    <3>2. at' # Idle
      BY <3>1, SMTT(30) DEF Idle
    <3>3. at.i \in Server /\ ~done /\ 1 \in Server
      BY <2>1, SMTT(30) DEF StageOK, Server
    <3> QED
      BY <1>4, <2>1, <2>4, <3>1, <3>2, <3>3 DEF StageOK
  <2> QED
    BY <1>4, <2>2, <2>3, <2>4 DEF Turn
<1>5. CASE DisableOut \/ EnableOut \/ EnableIn
  BY <1>4, <1>5 DEF DisableOut, EnableOut, EnableIn, Disable, Enable
<1>6. CASE DisableIn
  BY <1>4, <1>6 DEF DisableIn, Disable
<1>7. ASSUME NEW stage \in {"delete", "copy", "ends", "make"},
             NEW next \in {"copy", "kill", "make", "add"},
             In(stage), Goto(next), UNCHANGED done,
             stage \in {"delete", "copy"} <=> next \in {"copy", "kill"}
      PROVE  AtType' /\ StageOK'
  BY <1>7 DEF In, Goto, TypeOK, StageOK, Idle, Stage
<1>8. CASE DeleteStep \/ CopyStep \/ EndsStep \/ MakeStep
  BY Zenon, <1>7, <1>8 DEF DeleteStep, CopyStep, EndsStep, MakeStep, DeleteServer, rpcVars,
     netVars
<1>9. CASE KillStep
  BY <1>9, SMTT(30) DEF KillStep, In, TypeOK, StageOK, Idle, Stage, rpcVars, netVars
<1>10. CASE CleanupKill
  BY <1>10, SMTT(30) DEF CleanupKill, In, TypeOK, StageOK, Idle, Stage, rpcVars, netVars, Server
<1>11. CASE AddStep \/ CleanupDone
  BY <1>11, SMTT(30) DEF AddStep, CleanupDone, StageOK, Idle, Stage
<1>12. ASSUME NEW k \in Call, NEW e \in End, InstanceCalls(k, e)
       PROVE  AtType' /\ StageOK'
  BY <1>1, <1>12 DEF InstanceCalls, CallEnd, netVars, testVars
<1>13. ASSUME NEW k \in Call, NetworkStep(k) PROVE AtType' /\ StageOK'
  BY <1>1, <1>13, NetEffect DEF NetworkStep, netVars, testVars
<1>14. ASSUME NEW k \in Call, HandlerStep(k) PROVE AtType' /\ StageOK'
  BY <1>1, <1>14 DEF HandlerStep, HandlerReturns, netVars, testVars
<1>15. CASE UNCHANGED vars
  BY <1>1, <1>15 DEF vars, rpcVars, netVars, testVars
<1> QED
  BY <1>2, <1>3, <1>5, <1>6, <1>8, <1>9, <1>10, <1>11, <1>12, <1>13, <1>14, <1>15
     DEF Next, TestStep

\* A step of a call.
CallStep ==
  \/ \E k \in Call, e \in End : InstanceCalls(k, e)
  \/ \E k \in Call : NetworkStep(k) \/ HandlerStep(k)

\* Calls and handlers change neither the network's tables nor those of cfg.
LEMMA CallFrame ==
  ASSUME TypeOK, CallStep
  PROVE  UNCHANGED <<enabled, servers, done, at, booted, ops, connected, gen, inst,
                     killed, saved, shared>>
<1>1. ASSUME NEW k \in Call, NEW e \in End, InstanceCalls(k, e)
      PROVE  UNCHANGED <<netVars, testVars, cfgVars, persistVars>>
  BY <1>1 DEF InstanceCalls, CallEnd
<1>2. ASSUME NEW k \in Call, NetworkStep(k)
      PROVE  UNCHANGED <<netVars, testVars, cfgVars, persistVars>>
  BY <1>2, NetEffect DEF NetworkStep
<1>3. ASSUME NEW k \in Call, HandlerStep(k)
      PROVE  UNCHANGED <<netVars, testVars, cfgVars, saved, shared>>
  BY <1>3 DEF HandlerStep, HandlerReturns
<1> QED
  BY <1>1, <1>2, <1>3 DEF CallStep, netVars, testVars, cfgVars, persistVars

\* No step of an operation counts operations or changes cfg.connected, and only
\* the last one of cleanup ends the network.
LEMMA TestFrame ==
  ASSUME TestStep
  PROVE  /\ UNCHANGED <<booted, ops, connected>>
         /\ at.stage # "none" /\ at # Idle
         /\ done' = done \/ at.stage = "done"
<1> DEFINE Frame == /\ UNCHANGED <<booted, ops, connected>>
                    /\ at.stage # "none"
                    /\ done' = done \/ at.stage = "done"
<1> SUFFICES Frame
  BY SMTT(30) DEF Idle
<1>1. CASE DisableOut
  BY Zenon, <1>1 DEF DisableOut, Disable, Turn, In, cfgVars
<1>2. CASE DisableIn
  BY Zenon, <1>2 DEF DisableIn, Disable, Turn, In, cfgVars
<1>3. CASE EnableOut
  BY Zenon, <1>3 DEF EnableOut, Enable, Turn, In, cfgVars
<1>4. CASE EnableIn
  BY Zenon, <1>4 DEF EnableIn, Enable, Turn, In, cfgVars
<1>5. CASE DeleteStep
  BY Zenon, <1>5 DEF DeleteStep, DeleteServer, In, cfgVars
<1>6. CASE CopyStep
  BY Zenon, <1>6 DEF CopyStep, In, rpcVars, netVars, cfgVars
<1>7. CASE KillStep
  BY Zenon, <1>7 DEF KillStep, In, rpcVars, netVars
<1>8. CASE EndsStep
  BY Zenon, <1>8 DEF EndsStep, In, rpcVars, netVars
<1>9. CASE MakeStep
  BY Zenon, <1>9 DEF MakeStep, In, rpcVars, netVars
<1>10. CASE AddStep
  BY Zenon, <1>10 DEF AddStep, AddServer, In, cfgVars
<1>11. CASE CleanupKill
  BY Zenon, <1>11 DEF CleanupKill, In, rpcVars, netVars
<1>12. CASE CleanupDone
  BY Zenon, <1>12 DEF CleanupDone, In, cfgVars
<1> QED
  BY Zenon, <1>1, <1>2, <1>3, <1>4, <1>5, <1>6, <1>7, <1>8, <1>9, <1>10, <1>11, <1>12
     DEF TestStep

\* The steps of the test that leave the Persisters and who has them alone.
PersisterIdle ==
  \/ SetNetwork \/ DisableOut \/ DisableIn \/ EnableOut \/ EnableIn \/ DeleteStep
  \/ KillStep \/ EndsStep \/ AddStep \/ CleanupKill \/ CleanupDone
  \/ UNCHANGED vars

\* They do.
LEMMA PersisterFrame ==
  ASSUME PersisterIdle
  PROVE  UNCHANGED <<inst, disk, saved, shared>>
<1>1. CASE SetNetwork \/ UNCHANGED vars
  BY Zenon, <1>1 DEF SetNetwork, vars, cfgVars, persistVars
<1>2. CASE DisableOut \/ DisableIn
  BY Zenon, <1>2 DEF DisableOut, DisableIn, cfgVars, persistVars
<1>3. CASE EnableOut \/ EnableIn
  BY Zenon, <1>3 DEF EnableOut, EnableIn, cfgVars, persistVars
<1>4. CASE DeleteStep \/ AddStep
  BY Zenon, <1>4 DEF DeleteStep, AddStep, cfgVars, persistVars
<1>5. CASE KillStep \/ EndsStep
  BY Zenon, <1>5 DEF KillStep, EndsStep, persistVars
<1>6. CASE CleanupKill \/ CleanupDone
  BY Zenon, <1>6 DEF CleanupKill, CleanupDone, cfgVars, persistVars
<1> QED
  BY Zenon, <1>1, <1>2, <1>3, <1>4, <1>5, <1>6 DEF PersisterIdle

\* Every step keeps the types of the variables of cfg.
LEMMA CfgTypeStep ==
  ASSUME TypeOK, StageOK, ServersOK, [Next]_vars
  PROVE  CfgType'
<1> USE HarnessAssumption DEF CfgType
<1>1. ASSUME UNCHANGED cfgVars PROVE CfgType'
  BY <1>1 DEF TypeOK, cfgVars
<1>2. CASE MakeConfig \/ TestBegins
  <2>1. PICK op \in {"crash1", "start1", "connect", "disconnect", "cleanup"}, i \in Server,
             stage \in {"disableOut", "enableOut", "kill"}, j \in {0, 1} :
               /\ Begin(op, i, stage, j)
               /\ \/ connected' = [connected EXCEPT ![i] = FALSE]
                  \/ connected' = [connected EXCEPT ![i] = TRUE]
                  \/ connected' = connected
    BY <1>2, BeginsStep, SMTT(30) DEF Begins
  <2>2. UNCHANGED <<gen, inst, killed>>
    BY Zenon, <2>1 DEF Begin
  <2>3. connected' \in [Server -> BOOLEAN]
    BY ZenonT(30), <2>1 DEF TypeOK
  <2> QED
    BY <2>2, <2>3 DEF TypeOK
<1>3. CASE SetNetwork \/ DisableOut \/ DisableIn \/ EnableOut \/ EnableIn \/ DeleteStep
           \/ CopyStep \/ AddStep \/ CleanupDone
  BY Zenon, <1>1, <1>3 DEF SetNetwork, DisableOut, DisableIn, EnableOut, EnableIn, DeleteStep,
     CopyStep, AddStep, CleanupDone
<1>4. CASE KillStep \/ CleanupKill
  <2>1. /\ killed' \subseteq killed \cup {<<at.i, inst[at.i]>>}
        /\ UNCHANGED <<connected, gen, inst>>
        /\ killed' # killed => inst[at.i] # 0
    BY <1>4 DEF KillStep, CleanupKill, Running
  <2>2. at.i \in Server /\ inst[at.i] \in 0..MaxGen
    BY <1>4 DEF KillStep, CleanupKill, In, StageOK, Idle, TypeOK
  <2> QED
    BY <2>1, <2>2, SMTT(30) DEF TypeOK, Gen
<1>5. CASE EndsStep
  <2>1. /\ gen' = [gen EXCEPT ![at.i] = @ + 1]
        /\ UNCHANGED <<connected, inst, killed>>
        /\ at.i \in Server /\ gen[at.i] < MaxGen
    BY <1>5 DEF EndsStep, In, StageOK, ServersOK, Idle
  <2>2. gen[at.i] + 1 \in 0..MaxGen
    BY <2>1, SMTT(30) DEF TypeOK
  <2> QED
    BY <2>1, <2>2 DEF TypeOK
<1>6. CASE MakeStep
  <2>1. /\ inst' = [inst EXCEPT ![at.i] = gen[at.i]]
        /\ UNCHANGED <<connected, gen, killed>>
        /\ at.i \in Server
    BY <1>6 DEF MakeStep, In, StageOK, Idle
  <2> QED
    BY <2>1 DEF TypeOK
<1>7. CASE CallStep
  BY <1>1, <1>7, CallFrame DEF cfgVars
<1>8. CASE UNCHANGED vars
  BY <1>1, <1>8 DEF vars
<1> QED
  BY <1>2, <1>3, <1>4, <1>5, <1>6, <1>7, <1>8 DEF Next, TestStep, CallStep

\* Every step keeps the types of the Persisters.
LEMMA DiskTypeStep ==
  ASSUME TypeOK, StageOK, ServersOK, [Next]_vars
  PROVE  DiskType'
<1> USE HarnessAssumption DEF DiskType
<1>1. ASSUME UNCHANGED persistVars PROVE DiskType'
  BY <1>1 DEF TypeOK, persistVars
<1>2. CASE MakeConfig \/ TestBegins
  BY <1>1, <1>2, BeginsStep DEF Begins, Begin
<1>3. CASE PersisterIdle
  BY Zenon, <1>1, <1>3, PersisterFrame DEF persistVars
<1>4. CASE CopyStep
  <2>1. at.i \in Server
    BY <1>4 DEF CopyStep, In, StageOK, Idle
  <2>2. SavedState(at.i) \in SUBSET Call
    <3>1. CASE shared[at.i]
      <4>1. <<at.i, inst[at.i]>> \in Server \X Gen
        BY <2>1, <3>1, SMTT(30) DEF ServersOK, TypeOK, CfgType, Gen
      <4> QED
        BY <3>1, <4>1 DEF SavedState, TypeOK
    <3>2. CASE ~shared[at.i]
      BY <2>1, <3>2 DEF SavedState, TypeOK
    <3> QED
      BY ZenonT(30), <3>1, <3>2
  <2>3. /\ saved' = [saved EXCEPT ![at.i] = SavedState(at.i)]
        /\ shared' = [shared EXCEPT ![at.i] = FALSE] /\ disk' = disk
    BY <1>4 DEF CopyStep
  <2>4. saved' \in [Server -> SUBSET Call]
    BY ZenonT(30), <2>2, <2>3 DEF TypeOK
  <2> QED
    BY <2>3, <2>4 DEF TypeOK
<1>5. CASE MakeStep
  <2>1. at.i \in Server /\ saved[at.i] \in SUBSET Call
    BY <1>5 DEF MakeStep, In, StageOK, Idle, TypeOK
  <2>2. /\ disk' = [disk EXCEPT ![<<at.i, gen[at.i]>>] = saved[at.i]]
        /\ shared' = [shared EXCEPT ![at.i] = TRUE] /\ saved' = saved
    BY <1>5 DEF MakeStep
  <2>3. disk' \in [Server \X Gen -> SUBSET Call]
    BY ZenonT(30), <2>1, <2>2 DEF TypeOK
  <2> QED
    BY <2>2, <2>3 DEF TypeOK
<1>6. ASSUME NEW k \in Call, HandlerStep(k) PROVE DiskType'
  <2>1. /\ disk' = [disk EXCEPT ![<<calls[k].end.to, calls[k].server>>] = @ \cup {k}]
        /\ UNCHANGED <<saved, shared>>
    BY <1>6 DEF HandlerStep
  <2>2. disk' \in [Server \X Gen -> SUBSET Call]
    BY ZenonT(30), <2>1 DEF TypeOK
  <2> QED
    BY <2>1, <2>2 DEF TypeOK
<1>7. ASSUME NEW k \in Call, NEW e \in End, InstanceCalls(k, e) PROVE DiskType'
  BY <1>1, <1>7 DEF InstanceCalls
<1>8. ASSUME NEW k \in Call, NetworkStep(k) PROVE DiskType'
  BY <1>1, <1>8 DEF NetworkStep
<1> QED
  BY Zenon, <1>2, <1>3, <1>4, <1>5, <1>6, <1>7, <1>8 DEF Next, TestStep, PersisterIdle

\* Every step keeps the counters within their bounds.
LEMMA CountStep ==
  ASSUME TypeOK, [Next]_vars
  PROVE  booted' \in 0..2 * N /\ ops' \in 0..MaxOps
<1>1. CASE MakeConfig \/ TestBegins
  BY <1>1, BeginsStep
<1>2. CASE SetNetwork
  BY <1>2, HarnessAssumption, SMTT(30) DEF SetNetwork, TypeOK
<1>3. CASE TestStep
  BY <1>3, TestFrame DEF TypeOK
<1>4. CASE CallStep
  BY <1>4, CallFrame DEF TypeOK
<1>5. CASE UNCHANGED vars
  BY <1>5 DEF vars, testVars, TypeOK
<1> QED
  BY <1>1, <1>2, <1>3, <1>4, <1>5 DEF Next, CallStep

----------------------------------------------------------------------------
(* The servers.                                                            *)

\* A step outside the stages in which a server is gone.
LEMMA ServersFrame ==
  ASSUME ServersOK,
         UNCHANGED <<servers, inst, gen, shared, killed>>,
         at.stage \notin {"copy", "kill", "ends", "make", "add"} \/ at.op = "cleanup",
         at'.stage \notin {"copy", "kill", "ends", "make", "add"} \/ at'.op = "cleanup",
         at.stage # "make", at'.stage # "make",
         Ended => at'.op = "cleanup" \/ done',
         at'.op = "start1" => gen[at'.i] < MaxGen
  PROVE  ServersOK'
<1>1. \A i \in Server : ~Gone(i) /\ ~Gone(i)'
  BY DEF Gone
<1>2. /\ Ended' <=> Ended
      /\ \A i \in Server : Running(i)' <=> Running(i)
  BY ZenonT(30) DEF Ended, Running
<1> QED
  BY <1>1, <1>2 DEF ServersOK

\* crash1, start1 and cleanup keep the server on the network, its latest instance
\* and cfg.saved[i] together.
LEMMA ServersStep ==
  ASSUME TypeOK, StageOK, ServersOK, [Next]_vars
  PROVE  ServersOK'
<1> USE HarnessAssumption
<1>1. CASE MakeConfig \/ TestBegins
  <2>1. PICK op \in {"crash1", "start1", "connect", "disconnect", "cleanup"}, i \in Server,
             stage \in {"disableOut", "enableOut", "kill"}, j \in {0, 1} :
       /\ Begin(op, i, stage, j)
       /\ stage = "kill" => op = "cleanup"
       /\ op = "start1" => gen[i] < MaxGen
    BY <1>1, BeginsStep, SMTT(30) DEF Begins
  <2>2. /\ at' = [op |-> op, i |-> i, stage |-> stage, j |-> j] /\ at = Idle /\ ~done
        /\ UNCHANGED <<servers, inst, gen, shared, killed>>
    BY <2>1 DEF Begin, rpcVars, netVars, persistVars
  <2>3. at.stage = "none" /\ at.op = "idle"
    BY <2>2 DEF Idle
  <2>4. ~Ended
    BY <2>2, <2>3 DEF ServersOK
  <2> QED
    BY <2>1, <2>2, <2>3, <2>4, ServersFrame
<1>2. CASE SetNetwork \/ CallStep \/ UNCHANGED vars
  <2>1. UNCHANGED <<servers, inst, gen, shared, killed, at, done>>
    BY <1>2, CallFrame DEF SetNetwork, Reliable, LongReordering, vars, rpcVars, netVars,
       cfgVars, persistVars, testVars
  <2> QED
    BY ZenonT(30), <2>1 DEF ServersOK, Ended, Gone, Running
<1>3. CASE DisableOut \/ DisableIn \/ EnableOut \/ EnableIn
  <2>1. /\ UNCHANGED <<servers, inst, gen, shared, killed, done>>
        /\ at.stage \in {"disableOut", "disableIn", "enableOut", "enableIn"}
        /\ at'.stage \in {"none", "disableOut", "disableIn", "enableOut", "enableIn",
                          "delete"}
        /\ at'.op = "start1" => at.op = "start1" /\ at'.i = at.i
    <3>1. UNCHANGED <<servers, inst, gen, shared, killed, done>>
      <4>1. CASE DisableOut \/ DisableIn
        BY Zenon, <4>1 DEF DisableOut, DisableIn, Disable, cfgVars, persistVars
      <4>2. CASE EnableOut \/ EnableIn
        BY Zenon, <4>2 DEF EnableOut, EnableIn, Enable, cfgVars, persistVars
      <4> QED
        BY Zenon, <1>3, <4>1, <4>2
    <3>2. PICK stage \in {"disableOut", "disableIn", "enableOut", "enableIn"},
               next \in {"return", "disableIn", "enableIn", "delete"} : Turn(stage, next)
      BY Zenon, <1>3 DEF DisableOut, DisableIn, EnableOut, EnableIn
    <3>3. CASE at' = Idle
      BY <3>1, <3>2, <3>3 DEF Turn, In, Idle
    <3>4. CASE at' = [at EXCEPT !.j = @ + 1]
      BY <3>1, <3>2, <3>4 DEF Turn, In, TypeOK, AtType
    <3>5. CASE next # "return" /\ at' = [at EXCEPT !.stage = next, !.j = 1]
      <4>1. at'.stage = next /\ at'.i = at.i /\ at'.op = at.op
        BY <3>5 DEF TypeOK, AtType
      <4> QED
        BY <3>1, <3>2, <3>5, <4>1 DEF Turn, In
    <3> QED
      BY <3>2, <3>3, <3>4, <3>5 DEF Turn
  <2>2. ~Ended
    BY ZenonT(30), <2>1 DEF ServersOK, StageOK, Idle
  <2>3. at'.op = "start1" => gen[at'.i] < MaxGen
    BY <2>1 DEF ServersOK
  <2> QED
    BY ZenonT(30), <2>1, <2>2, <2>3, ServersFrame
<1>4. CASE CleanupDone
  <2>1. /\ UNCHANGED <<servers, inst, gen, shared, killed>> /\ done'
        /\ at.stage = "done" /\ at'.stage = "none" /\ at'.op = "idle"
    BY <1>4 DEF CleanupDone, In, Cleanup, cfgVars, persistVars, Idle
  <2> QED
    BY <2>1, ServersFrame
<1>5. ASSUME at.op \in {"crash1", "start1"}, at # Idle
      PROVE  /\ at.i \in Server /\ ~Ended
             /\ \A i \in Server : shared[i] => Running(i)
  BY <1>5 DEF StageOK, ServersOK
<1>6. CASE DeleteStep
  <2>1. /\ servers' = [servers EXCEPT ![at.i] = 0]
        /\ UNCHANGED <<inst, gen, shared, killed>>
        /\ at.stage = "delete" /\ at' = [at EXCEPT !.stage = "copy"]
    BY <1>6, Zenon DEF DeleteStep, In, Goto, DeleteServer, cfgVars, persistVars
  <2>2. at.op \in {"crash1", "start1"} /\ at # Idle
    BY <2>1 DEF StageOK, Idle
  <2>3. at'.stage = "copy" /\ at'.i = at.i /\ at'.op = at.op
    BY <2>1 DEF TypeOK, AtType
  <2>4. /\ servers'[at.i] = 0 /\ \A i \in Server : i # at.i => servers'[i] = servers[i]
    BY <1>5, <2>1, <2>2 DEF TypeOK, NetType
  <2>5. \A i \in Server : ~Gone(i) /\ (Gone(i)' <=> i = at.i)
    BY <2>1, <2>2, <2>3 DEF Gone
  <2>6. ~Ended /\ ~Ended'
    <3>1. ~Ended
      BY <1>5, <2>2
    <3>2. \A i \in Server : servers'[i] # 0 => servers'[i] = servers[i]
      BY <2>4
    <3>3. ASSUME NEW i \in Server, servers'[i] # 0 PROVE <<i, servers'[i]>> \notin killed'
      <4>1. servers[i] # 0 => <<i, servers[i]>> \notin killed
        BY <3>1 DEF Ended
      <4>2. killed' = killed
        BY <2>1
      <4> QED
        BY <3>2, <3>3, <4>1, <4>2
    <3> QED
      BY ZenonT(30), <3>1, <3>3 DEF Ended
  <2>7. \A i \in Server : Running(i)' <=> Running(i)
    BY <2>1 DEF Running
  <2> QED
    BY <2>1, <2>3, <2>4, <2>5, <2>6, <2>7, SMTT(30) DEF ServersOK
<1>7. CASE CopyStep
  <2>1. /\ shared' = [shared EXCEPT ![at.i] = FALSE]
        /\ UNCHANGED <<inst, gen, servers, killed>>
        /\ at.stage = "copy" /\ at' = [at EXCEPT !.stage = "kill"]
    BY <1>7 DEF CopyStep, In, Goto, rpcVars, netVars, cfgVars
  <2>2. at.op \in {"crash1", "start1"} /\ at # Idle
    BY <2>1 DEF StageOK, Idle
  <2>3. at'.stage = "kill" /\ at'.i = at.i /\ at'.op = at.op
    BY <2>1 DEF TypeOK, AtType
  <2>4. /\ ~shared'[at.i] /\ \A i \in Server : i # at.i => shared'[i] = shared[i]
    BY <1>5, <2>1, <2>2 DEF TypeOK, DiskType
  <2>5. \A i \in Server : /\ Gone(i) <=> i = at.i
                          /\ Gone(i)' <=> i = at.i
    BY <2>1, <2>2, <2>3 DEF Gone
  <2>6. /\ ~Ended /\ ~Ended'
        /\ \A i \in Server : Running(i)' <=> Running(i)
    BY <1>5, <2>1, <2>2 DEF Ended, Running
  <2> QED
    BY <2>1, <2>3, <2>4, <2>5, <2>6 DEF ServersOK
<1>8. CASE KillStep
  <2>1. /\ killed' = IF Running(at.i) THEN killed \cup {<<at.i, inst[at.i]>>} ELSE killed
        /\ UNCHANGED <<inst, gen, servers, shared>>
        /\ at.stage = "kill" /\ at.op # "cleanup"
        /\ at' = IF at.op = "crash1" THEN Idle ELSE [at EXCEPT !.stage = "ends"]
    BY <1>8 DEF KillStep, In, rpcVars, netVars, persistVars
  <2>2. at.op \in {"crash1", "start1"} /\ at # Idle
    BY <2>1 DEF StageOK, Idle
  <2>3. \/ at'.stage = "ends" /\ at'.i = at.i /\ at'.op = "start1" /\ at.op = "start1"
        \/ at'.stage = "none" /\ at'.op = "idle"
    BY <2>1, <2>2 DEF TypeOK, AtType, Idle
  <2>4. /\ at.i \in Server /\ ~shared[at.i] /\ servers[at.i] = 0
        /\ \A i \in Server : i = at.i => ~Running(i)'
    <3>1. Gone(at.i)
      BY <2>1 DEF Gone
    <3>2. at.i \in Server /\ ~shared[at.i] /\ servers[at.i] = 0
      BY <1>5, <2>1, <2>2, <3>1 DEF ServersOK
    <3>3. \A i \in Server : i = at.i => ~Running(i)'
      BY <2>1 DEF Running
    <3> QED
      BY <3>2, <3>3
  <2>5. \A i \in Server : /\ Gone(i) <=> i = at.i
                          /\ Gone(i)' <=> i = at.i /\ at'.stage = "ends"
    BY <2>1, <2>2, <2>3 DEF Gone
  <2>6. \A i \in Server : i # at.i => (Running(i)' <=> Running(i))
    BY <2>1 DEF Running
  <2>7. ~Ended /\ ~Ended'
    BY <1>5, <2>1, <2>2, <2>4 DEF Ended
  <2>8. \A p \in killed' : p[2] <= inst[p[1]]
    <3>1. inst[at.i] <= inst[at.i]
      BY <2>4, SMTT(30) DEF TypeOK, CfgType
    <3> QED
      BY <2>1, <3>1, SMTT(30) DEF ServersOK
  <2>9. at'.op = "start1" => gen[at'.i] < MaxGen
    BY <2>1, <2>3 DEF ServersOK
  <2>10. ASSUME NEW i \in Server
         PROVE  /\ gen[i] = inst[i]
                /\ shared[i] => inst[i] # 0 /\ Running(i)'
                /\ servers[i] # 0 => servers[i] = inst[i] /\ shared[i]
                /\ Gone(i)' => servers[i] = 0 /\ ~shared[i]
                /\ ~Gone(i)' /\ shared[i] => servers[i] = inst[i]
                /\ Running(i)' => shared[i]
    BY <2>1, <2>4, <2>5, <2>6, <2>7 DEF ServersOK
  <2> QED
    BY <2>1, <2>3, <2>7, <2>8, <2>9, <2>10 DEF ServersOK
<1>9. CASE EndsStep
  <2>1. /\ gen' = [gen EXCEPT ![at.i] = @ + 1]
        /\ UNCHANGED <<inst, servers, shared, killed>>
        /\ at.stage = "ends" /\ at' = [at EXCEPT !.stage = "make"]
    BY <1>9 DEF EndsStep, In, Goto, rpcVars, netVars, persistVars
  <2>2. at.op = "start1" /\ at # Idle
    BY <2>1 DEF StageOK, Idle
  <2>3. at'.stage = "make" /\ at'.i = at.i /\ at'.op = at.op
    BY Zenon, <2>1 DEF TypeOK, AtType
  <2>4. /\ gen'[at.i] = gen[at.i] + 1
        /\ \A i \in Server : i # at.i => gen'[i] = gen[i]
    BY <1>5, <2>1, <2>2 DEF TypeOK, CfgType
  <2>5. \A i \in Server : /\ Gone(i) <=> i = at.i
                          /\ Gone(i)' <=> i = at.i
    BY <2>1, <2>2, <2>3 DEF Gone
  <2>6. /\ ~Ended /\ ~Ended'
        /\ \A i \in Server : Running(i)' <=> Running(i)
    BY <1>5, <2>1, <2>2 DEF Ended, Running
  <2> QED
    BY <2>1, <2>2, <2>3, <2>4, <2>5, <2>6, SMTT(30) DEF ServersOK
<1>10. CASE MakeStep
  <2>1. /\ inst' = [inst EXCEPT ![at.i] = gen[at.i]]
        /\ shared' = [shared EXCEPT ![at.i] = TRUE]
        /\ UNCHANGED <<gen, servers, killed>>
        /\ at.stage = "make" /\ at' = [at EXCEPT !.stage = "add"]
    BY <1>10 DEF MakeStep, In, Goto, rpcVars, netVars
  <2>2. at.op = "start1" /\ at # Idle
    BY <2>1 DEF StageOK, Idle
  <2>3. at'.stage = "add" /\ at'.i = at.i /\ at'.op = at.op
    BY <2>1 DEF TypeOK, AtType
  <2>4. /\ at.i \in Server /\ inst'[at.i] = inst[at.i] + 1 /\ shared'[at.i]
        /\ inst[at.i] \in Nat /\ gen'[at.i] = inst'[at.i]
        /\ \A i \in Server : i # at.i => inst'[i] = inst[i] /\ shared'[i] = shared[i]
    BY <1>5, <2>1, <2>2, SMTT(30) DEF TypeOK, CfgType, DiskType, ServersOK
  <2>5. \A i \in Server : /\ Gone(i) <=> i = at.i
                          /\ Gone(i)' <=> i = at.i
    BY <2>1, <2>2, <2>3 DEF Gone
  <2>6. ~Ended /\ ~Ended'
    BY <1>5, <2>1, <2>2 DEF Ended
  <2>7. \A i \in Server : i # at.i => (Running(i)' <=> Running(i))
    BY <2>1, <2>4, SMTT(30) DEF Running
  <2>8. Running(at.i)'
    <3>1. ASSUME NEW p \in killed, p[1] = at.i PROVE p[2] # inst[at.i] + 1
      BY <2>4, <3>1, SMTT(30) DEF ServersOK
    <3>2. <<at.i, inst[at.i] + 1>> \notin killed
      BY <3>1
    <3> QED
      BY <2>1, <2>4, <3>2, SMTT(30) DEF Running
  <2>9. \A p \in killed' : p[2] <= inst'[p[1]]
    <3>1. \A p \in killed : p[1] \in Server /\ p[2] \in Nat /\ p[2] <= inst[p[1]]
      BY SMTT(30) DEF TypeOK, CfgType, Gen, ServersOK
    <3> QED
      BY <2>1, <2>4, <3>1, SMTT(30)
  <2> QED
    BY <2>1, <2>3, <2>4, <2>5, <2>6, <2>7, <2>8, <2>9, SMTT(30) DEF ServersOK
<1>11. CASE AddStep
  <2>1. /\ servers' = [servers EXCEPT ![at.i] = inst[at.i]]
        /\ UNCHANGED <<gen, inst, shared, killed>>
        /\ at.stage = "add" /\ at' = Idle
    BY Zenon, <1>11 DEF AddStep, In, AddServer, cfgVars, persistVars
  <2>2. at.op = "start1" /\ at # Idle
    BY <2>1 DEF StageOK, Idle
  <2>3. at'.stage = "none" /\ at'.op = "idle"
    BY ZenonT(30), <2>1 DEF Idle
  <2>4. /\ at.i \in Server /\ servers'[at.i] = inst[at.i]
        /\ \A i \in Server : i # at.i => servers'[i] = servers[i]
    BY ZenonT(30), <1>5, <2>1, <2>2 DEF TypeOK, NetType
  <2>5. \A i \in Server : /\ Gone(i) <=> i = at.i
                          /\ ~Gone(i)'
    BY ZenonT(30), <2>1, <2>2, <2>3 DEF Gone
  <2>6. shared[at.i] /\ Running(at.i) /\ inst[at.i] # 0
    BY ZenonT(30), <1>5, <2>1, <2>2, <2>4, <2>5 DEF ServersOK
  <2>7. ~Ended /\ ~Ended'
    <3>1. ~Ended
      BY <1>5, <2>2
    <3>2. ASSUME NEW i \in Server, servers'[i] # 0 PROVE <<i, servers'[i]>> \notin killed'
      <4>1. CASE i = at.i
        BY <2>1, <2>4, <2>6, <4>1, SMTT(30) DEF Running
      <4>2. CASE i # at.i
        BY <2>1, <2>4, <3>1, <3>2, <4>2, SMTT(30) DEF Ended
      <4> QED
        BY <4>1, <4>2
    <3> QED
      BY Zenon, <3>1, <3>2 DEF Ended
  <2>8. \A i \in Server : Running(i)' <=> Running(i)
    BY <2>1 DEF Running
  <2> QED
    <3>1. ASSUME NEW i \in Server
          PROVE  /\ gen[i] = inst[i]
                 /\ shared[i] => inst[i] # 0 /\ Running(i)
                 /\ servers'[i] # 0 => servers'[i] = inst[i] /\ shared[i]
                 /\ shared[i] => servers'[i] = inst[i]
                 /\ Running(i) => shared[i]
      <4>1. CASE i = at.i
        BY <2>1, <2>4, <2>6, <4>1 DEF ServersOK
      <4>2. CASE i # at.i
        BY <2>1, <2>4, <2>5, <2>7, <4>2 DEF ServersOK
      <4> QED
        BY <4>1, <4>2
    <3>2. /\ \A p \in killed' : p[2] <= inst'[p[1]]
          /\ at'.op # "start1" /\ at'.stage # "make"
      BY <2>1, <2>3 DEF ServersOK
    <3> QED
      BY <2>1, <2>3, <2>5, <2>7, <2>8, <3>1, <3>2 DEF ServersOK
<1>12. CASE CleanupKill
  <2>1. /\ killed' = IF Running(at.i) THEN killed \cup {<<at.i, inst[at.i]>>} ELSE killed
        /\ UNCHANGED <<inst, gen, servers, shared>>
        /\ at.stage = "kill" /\ at.op = "cleanup"
        /\ at' = IF at.i < N THEN [at EXCEPT !.i = @ + 1] ELSE [at EXCEPT !.stage = "done"]
    BY <1>12 DEF CleanupKill, In, rpcVars, netVars, persistVars
  <2>2. at'.op = "cleanup" /\ at'.stage \in {"kill", "done"} /\ at.i \in Server
    BY <2>1 DEF TypeOK, AtType, StageOK, Idle
  <2>3. \A i \in Server : ~Gone(i) /\ ~Gone(i)'
    BY <2>1, <2>2 DEF Gone
  <2>4. \A p \in killed' : p[2] <= inst[p[1]]
    <3>1. inst[at.i] <= inst[at.i]
      BY <2>2, SMTT(30) DEF TypeOK, CfgType
    <3> QED
      BY <2>1, <3>1, SMTT(30) DEF ServersOK
  <2>5. Ended => Ended'
    BY ZenonT(30), <2>1 DEF Ended
  <2>6. Running(at.i) => Ended'
    <3> SUFFICES ASSUME Running(at.i) PROVE Ended'
      OBVIOUS
    <3>1. servers[at.i] = inst[at.i] /\ inst[at.i] # 0
      BY Zenon, <2>2, <2>3 DEF ServersOK, Running
    <3> QED
      BY <2>1, <2>2, <3>1 DEF Ended
  <2>7. \A i \in Server : Running(i)' => Running(i)
    BY <2>1 DEF Running
  <2>8. \A i \in Server : Running(i) => Running(i)' \/ i = at.i
    BY <2>1 DEF Running
  <2> QED
    BY <2>1, <2>2, <2>3, <2>4, <2>5, <2>6, <2>7, <2>8 DEF ServersOK
<1> QED
  BY <1>1, <1>2, <1>3, <1>4, <1>6, <1>7, <1>8, <1>9, <1>10, <1>11, <1>12
     DEF Next, TestStep, CallStep

\* A server that runs goes on until crash1, start1 or cleanup kills it.
LEMMA RunningStep ==
  ASSUME TypeOK, StageOK, ServersOK, [Next]_vars
  PROVE  /\ Ended => Ended'
         /\ \A i \in Server :
              Running(i) => \/ Running(i)' \/ Ended'
                            \/ (at.i = i /\ at.op \in {"crash1", "start1"})
<1> DEFINE Goal == /\ Ended => Ended'
                   /\ \A i \in Server :
                        Running(i) => \/ Running(i)' \/ Ended'
                                      \/ at.i = i /\ at.op \in {"crash1", "start1"}
<1> SUFFICES Goal
  OBVIOUS
<1>1. ASSUME UNCHANGED <<inst, killed, servers>> PROVE Goal
  BY <1>1 DEF Ended, Running
<1>2. CASE MakeConfig \/ TestBegins
  <2>1. UNCHANGED <<inst, killed, servers>>
    BY <1>2, BeginsStep DEF Begins, Begin, rpcVars, netVars
  <2> QED
    BY <1>1, <2>1
<1>3. CASE SetNetwork \/ DisableOut \/ DisableIn \/ EnableOut \/ EnableIn \/ CopyStep
           \/ EndsStep \/ CleanupDone \/ CallStep \/ UNCHANGED vars
  <2>1. CASE SetNetwork \/ CleanupDone
    BY Zenon, <1>1, <2>1 DEF SetNetwork, Reliable, LongReordering, CleanupDone, Cleanup, cfgVars
  <2>2. CASE DisableOut \/ DisableIn
    BY Zenon, <1>1, <2>2 DEF DisableOut, DisableIn, Disable, cfgVars
  <2>3. CASE EnableOut \/ EnableIn
    BY Zenon, <1>1, <2>3 DEF EnableOut, EnableIn, Enable, cfgVars
  <2>4. CASE CopyStep \/ EndsStep
    BY Zenon, <1>1, <2>4 DEF CopyStep, EndsStep, rpcVars, netVars, cfgVars
  <2>5. CASE CallStep \/ UNCHANGED vars
    BY Zenon, <1>1, <2>5, CallFrame DEF vars, rpcVars, netVars, cfgVars
  <2> QED
    BY Zenon, <1>3, <2>1, <2>2, <2>3, <2>4, <2>5
<1>4. CASE DeleteStep \/ KillStep \/ MakeStep \/ AddStep
  <2>1. at.op \in {"crash1", "start1"} /\ ~Ended
    <3>1. /\ at.stage \in {"delete", "kill", "make", "add"}
          /\ at.stage = "kill" => at.op # "cleanup"
      BY Zenon, <1>4 DEF DeleteStep, KillStep, MakeStep, AddStep, In
    <3> QED
      BY <3>1 DEF StageOK, ServersOK, Idle
  <2>2. ASSUME NEW i \in Server, Running(i), at.i # i PROVE Running(i)'
    <3>1. /\ inst'[i] = inst[i]
          /\ <<i, inst[i]>> \in killed' => <<i, inst[i]>> \in killed
      <4>1. CASE DeleteStep \/ AddStep
        BY Zenon, <4>1 DEF DeleteStep, AddStep, cfgVars
      <4>2. CASE KillStep
        BY <2>2, <4>2 DEF KillStep
      <4>3. CASE MakeStep
        BY <2>2, <4>3 DEF MakeStep, TypeOK, CfgType
      <4> QED
        BY Zenon, <1>4, <4>1, <4>2, <4>3
    <3> QED
      BY <2>2, <3>1 DEF Running
  <2> QED
    BY <2>1, <2>2
<1>5. CASE CleanupKill
  <2>1. /\ killed' = IF Running(at.i) THEN killed \cup {<<at.i, inst[at.i]>>} ELSE killed
        /\ UNCHANGED <<inst, servers>>
        /\ at.stage = "kill" /\ at.op = "cleanup" /\ at.i \in Server
    BY <1>5 DEF CleanupKill, In, rpcVars, netVars, StageOK, Idle
  <2>2. Running(at.i) => servers[at.i] = inst[at.i] /\ inst[at.i] # 0
    BY ZenonT(30), <2>1 DEF ServersOK, Running, Gone
  <2>3. Running(at.i) => Ended'
    BY ZenonT(30), <2>1, <2>2 DEF Ended
  <2>4. Ended => Ended'
    BY ZenonT(30), <2>1 DEF Ended
  <2>5. \A i \in Server : Running(i) /\ i # at.i => Running(i)'
    BY <2>1 DEF Running
  <2> QED
    BY <2>3, <2>4, <2>5
<1> QED
  BY <1>2, <1>3, <1>4, <1>5 DEF Next, TestStep, CallStep

\* Where an operation goes: it stays on its server until it returns.
LEMMA AtStep ==
  ASSUME TypeOK, StageOK, TestStep
  PROVE  \/ at'.op = at.op /\ (at'.i = at.i \/ at.op = "cleanup")
         \/ at' = Idle /\ at.op \in {"connect", "disconnect", "crash1", "cleanup"}
         \/ at' = Idle /\ AddStep
<1> USE DEF AtType
<1>1. CASE DisableOut \/ DisableIn \/ EnableOut \/ EnableIn
  <2>1. PICK stage \in {"disableOut", "disableIn", "enableOut", "enableIn"},
             next \in {"return", "disableIn", "enableIn", "delete"} :
               /\ Turn(stage, next)
               /\ next = "return" => stage = "enableIn" \/ at.op = "disconnect"
    BY Zenon, <1>1 DEF DisableOut, DisableIn, EnableOut, EnableIn
  <2>2. next = "return" => at.op \in {"connect", "disconnect"}
    BY <2>1 DEF Turn, In, StageOK
  <2>3. CASE at' = Idle /\ next = "return"
    BY <2>2, <2>3
  <2>4. CASE at' = [at EXCEPT !.j = @ + 1] \/ at' = [at EXCEPT !.stage = next, !.j = 1]
    BY ZenonT(30), <2>4 DEF TypeOK
  <2> QED
    BY <2>1, <2>3, <2>4 DEF Turn
<1>2. CASE DeleteStep \/ CopyStep \/ EndsStep \/ MakeStep
  BY <1>2 DEF DeleteStep, CopyStep, EndsStep, MakeStep, Goto, TypeOK
<1>3. CASE KillStep \/ CleanupKill
  BY <1>3 DEF KillStep, CleanupKill, In, StageOK, TypeOK
<1>4. CASE CleanupDone \/ AddStep
  BY Zenon, <1>4 DEF CleanupDone, AddStep, In, StageOK
<1> QED
  BY <1>1, <1>2, <1>3, <1>4 DEF TestStep

\* make_config connects servers only when all have been started.
LEMMA BootStep ==
  ASSUME TypeOK, StageOK, ServersOK, BootOK, [Next]_vars
  PROVE  BootOK'
<1> USE HarnessAssumption
<1>1. CASE MakeConfig
  <2>1. /\ booted < 2 * N /\ booted' = booted + 1 /\ booted \in Nat
        /\ IF booted < N THEN Start1(booted + 1) ELSE Connect(booted + 1 - N)
    BY <1>1, SMTT(30) DEF MakeConfig, TypeOK
  <2>2. at = Idle /\ at.op = "idle" /\ UNCHANGED <<inst, killed>>
    BY <2>1, SMTT(30) DEF Start1, Crash1, Disconnect, Connect, Begin, Idle
  <2>3. \A i \in Server : i <= booted => Running(i)'
    BY <2>1, <2>2 DEF BootOK, Running
  <2>4. CASE booted < N
    <3>1. at'.op = "start1" /\ at'.i = booted + 1
      BY <2>1, <2>4, SMTT(30) DEF Start1, Crash1, Disconnect, Begin
    <3> QED
      BY <2>1, <2>3, <3>1, SMTT(30) DEF BootOK, Server
  <2>5. CASE ~(booted < N)
    <3>1. at'.op = "connect"
      BY <2>1, <2>5, SMTT(30) DEF Connect, Begin
    <3> QED
      BY <2>1, <2>3, <2>5, <3>1, SMTT(30) DEF BootOK, Server
  <2> QED
    BY <2>4, <2>5
<1>2. CASE TestBegins \/ SetNetwork
  <2>1. booted = 2 * N /\ booted' = booted
    BY ZenonT(30), <1>2 DEF TestBegins, SetNetwork
  <2> QED
    BY <2>1, SMTT(30) DEF BootOK
<1>3. CASE TestStep
  <2> SUFFICES ASSUME booted' < 2 * N PROVE BootOK'
    BY Zenon DEF BootOK
  <2>1. booted' = booted
    BY Zenon, <1>3, TestFrame
  <2>2. /\ at.op \in {"idle", "start1", "connect"}
        /\ at.op = "start1" => at.i = booted
        /\ at.op = "connect" => booted > N
        /\ \A i \in Server : i <= booted => Running(i) \/ (at.op = "start1" /\ at.i = i)
    BY <2>1 DEF BootOK
  <2>3. ~Ended'
    <3>1. ServersOK' /\ StageOK'
      BY ServersStep, StageStep
    <3>2. at'.op # "cleanup" /\ ~done'
      <4>1. at'.op # "cleanup"
        BY <1>3, <2>2, AtStep, SMTT(30) DEF Idle
      <4>2. done' = done
        BY <1>3, <2>2, TestFrame DEF StageOK
      <4>3. at # Idle
        BY Zenon, <1>3, TestFrame
      <4> QED
        BY <4>1, <4>2, <4>3 DEF StageOK
    <3> QED
      BY <3>1, <3>2 DEF ServersOK
  <2>4. ASSUME NEW i \in Server, i <= booted, ~(at.op = "start1" /\ at.i = i)
        PROVE  Running(i)'
    BY <2>2, <2>3, <2>4, RunningStep
  <2>5. CASE at'.op = at.op /\ at'.i = at.i
    BY <2>1, <2>2, <2>4, <2>5 DEF BootOK
  <2>6. CASE at' = Idle /\ at.op = "connect"
    BY <2>1, <2>2, <2>4, <2>6 DEF BootOK, Idle
  <2>7. CASE at' = Idle /\ AddStep
    <3>1. /\ at.op = "start1" /\ at.stage = "add" /\ at.i \in Server /\ ~done
      BY <2>7 DEF AddStep, In, StageOK, Idle
    <3>2. Gone(at.i) /\ ~Ended
      BY <3>1 DEF Gone, ServersOK
    <3>3. Running(at.i)
      BY <3>1, <3>2 DEF ServersOK
    <3>4. \A i \in Server : Running(i) => Running(i)'
      BY <2>7 DEF AddStep, cfgVars, Running
    <3> QED
      BY <2>1, <2>2, <2>4, <2>7, <3>1, <3>3, <3>4 DEF BootOK, Idle
  <2> QED
    BY <1>3, <2>2, <2>5, <2>6, <2>7, AtStep
<1>4. CASE CallStep \/ UNCHANGED vars
  <2>1. UNCHANGED <<booted, at, inst, killed>>
    BY <1>4, CallFrame DEF vars, testVars, cfgVars
  <2> QED
    BY <2>1 DEF BootOK, Running
<1> QED
  BY <1>1, <1>2, <1>3, <1>4 DEF Next, CallStep

\* connect begins on a server that runs.
LEMMA ConnectRuns ==
  ASSUME TypeOK, BootOK, MakeConfig \/ TestBegins, at'.op = "connect"
  PROVE  Running(at'.i)
<1> USE HarnessAssumption
<1>1. CASE MakeConfig
  <2>1. /\ booted < 2 * N /\ booted \in Nat
        /\ IF booted < N THEN Start1(booted + 1) ELSE Connect(booted + 1 - N)
    BY <1>1, SMTT(30) DEF MakeConfig, TypeOK
  <2>2. at.op = "idle"
    BY <2>1, SMTT(30) DEF Start1, Crash1, Disconnect, Connect, Begin, Idle
  <2>3. ~(booted < N)
    BY <2>1, SMTT(30) DEF Start1, Crash1, Disconnect, Begin
  <2>4. at'.i = booted + 1 - N
    BY <2>1, <2>3, SMTT(30) DEF Connect, Begin
  <2>5. at'.i \in Server /\ at'.i <= booted
    BY <2>1, <2>3, <2>4, SMTT(30) DEF Server
  <2> QED
    BY <2>1, <2>2, <2>5 DEF BootOK
<1>2. CASE TestBegins
  <2>1. CASE \E i \in Server : Running(i) /\ Connect(i)
    BY <2>1, SMTT(30) DEF Connect, Begin
  <2>2. CASE \E i \in Server : \/ Crash1("crash1", i)
                               \/ Start1(i)
                               \/ Disconnect("disconnect", i)
    BY <2>2, SMTT(30) DEF Start1, Crash1, Disconnect, Begin
  <2>3. CASE Begin("cleanup", 1, "kill", 0)
    BY <2>3 DEF Begin
  <2> QED
    BY <1>2, <2>1, <2>2, <2>3 DEF TestBegins
<1> QED
  BY <1>1, <1>2

\* A server that is connected runs, and is not the one that is crashed or
\* started.
LEMMA ConnectedStep ==
  ASSUME TypeOK, StageOK, ServersOK, BootOK, EnabledOK, [Next]_vars
  PROVE  /\ \A i \in Server : connected'[i] => ~Leaving(i)' /\ (Running(i)' \/ Ended')
         /\ at'.op = "connect" => connected'[at'.i]
<1> USE HarnessAssumption
<1>1. \A i \in Server : connected[i] => Running(i)' \/ Ended'
  BY RunningStep DEF EnabledOK, Leaving
<1>2. CASE MakeConfig \/ TestBegins
  <2>1. PICK op \in {"crash1", "start1", "connect", "disconnect", "cleanup"}, i \in Server,
             stage \in {"disableOut", "enableOut", "kill"}, j \in {0, 1} :
               /\ Begin(op, i, stage, j)
               /\ CASE stage = "disableOut" -> /\ op \in {"crash1", "start1", "disconnect"}
                                               /\ j = 1
                                               /\ op = "start1" => gen[i] < MaxGen
                                               /\ connected' = [connected EXCEPT ![i] = FALSE]
                    [] stage = "enableOut" -> /\ op = "connect" /\ j = 1
                                              /\ connected' = [connected EXCEPT ![i] = TRUE]
                    [] stage = "kill" -> op = "cleanup" /\ i = 1 /\ UNCHANGED connected
    BY <1>2, BeginsStep DEF Begins
  <2>2. at'.op = op /\ at'.i = i /\ UNCHANGED <<inst, killed>>
    BY <2>1 DEF Begin
  <2>3. CASE stage = "disableOut"
    <3>1. /\ op # "connect" /\ ~connected'[i]
          /\ \A l \in Server : connected'[l] => connected[l] /\ l # i
      BY <2>1, <2>3 DEF TypeOK, CfgType
    <3> QED
      BY <1>1, <2>2, <3>1 DEF Leaving
  <2>4. CASE stage = "enableOut"
    <3>1. /\ op = "connect" /\ connected'[i]
          /\ \A l \in Server : connected'[l] => connected[l] \/ l = i
      BY <2>1, <2>4 DEF TypeOK, CfgType
    <3>2. Running(i)'
      BY <1>2, <2>2, <3>1, ConnectRuns DEF Running
    <3> QED
      BY <1>1, <2>2, <3>1, <3>2 DEF Leaving
  <2>5. CASE stage = "kill"
    <3>1. op = "cleanup" /\ connected' = connected
      BY <2>1, <2>5
    <3> QED
      BY <1>1, <2>2, <3>1 DEF Leaving
  <2> QED
    BY <2>3, <2>4, <2>5
<1>3. CASE TestStep
  <2>1. connected' = connected
    BY Zenon, <1>3, TestFrame
  <2>2. CASE at'.op = at.op /\ (at'.i = at.i \/ at.op = "cleanup")
    BY <1>1, <2>1, <2>2 DEF EnabledOK, Leaving
  <2>3. CASE at' = Idle
    BY <1>1, <2>1, <2>3 DEF Idle, Leaving
  <2> QED
    BY <1>3, <2>2, <2>3, AtStep
<1>4. CASE SetNetwork \/ CallStep \/ UNCHANGED vars
  <2>1. UNCHANGED <<at, connected>>
    BY ZenonT(30), <1>4, CallFrame DEF SetNetwork, vars, testVars, cfgVars
  <2> QED
    BY <1>1, <2>1 DEF EnabledOK, Leaving
<1> QED
  BY ZenonT(30), <1>2, <1>3, <1>4 DEF Next, CallStep

\* An end that is enabled is one of the latest instance, and that one runs.
LEMMA EndsOfRunning ==
  ASSUME TypeOK, StageOK, ServersOK, BootOK, EnabledOK, [Next]_vars
  PROVE  \A e \in enabled' :
           /\ e.gen = inst'[e.from] /\ (Running(e.from)' \/ Ended')
           /\ Leaving(e.from)' => at'.stage = "disableOut" /\ e.to >= at'.j
<1> USE HarnessAssumption
<1> DEFINE Good(e) ==
             /\ e.gen = inst'[e.from] /\ (Running(e.from)' \/ Ended')
             /\ Leaving(e.from)' => at'.stage = "disableOut" /\ e.to >= at'.j
<1> SUFFICES \A e \in enabled' : Good(e)
  OBVIOUS
<1>e. \A e \in enabled : e \in End /\ e.from \in Server /\ e.to \in Server
  BY DEF TypeOK, NetType, End
<1>r. \A e \in enabled : ~(at.op \in {"crash1", "start1"} /\ at.i = e.from)
                           => Running(e.from)' \/ Ended'
  BY <1>e, RunningStep DEF EnabledOK
<1>1. CASE MakeConfig \/ TestBegins
  <2>1. PICK op \in {"crash1", "start1", "connect", "disconnect", "cleanup"}, i \in Server,
             stage \in {"disableOut", "enableOut", "kill"}, j \in {0, 1} :
               /\ Begin(op, i, stage, j)
               /\ stage # "disableOut" => op \in {"connect", "cleanup"}
               /\ stage = "disableOut" => j = 1
    BY <1>1, BeginsStep, SMTT(30) DEF Begins
  <2>2. /\ at'.op = op /\ at'.i = i /\ at'.stage = stage /\ at'.j = j
        /\ at.op = "idle"
        /\ UNCHANGED <<inst, enabled>>
    BY <2>1 DEF Begin, Idle, rpcVars, netVars
  <2>3. ASSUME NEW e \in enabled PROVE Good(e)
    <3>1. e.gen = inst'[e.from] /\ (Running(e.from)' \/ Ended')
      BY <1>r, <2>2, <2>3 DEF EnabledOK
    <3>2. e.to >= 1
      BY <1>e, <2>3, SMTT(30) DEF Server
    <3> QED
      BY <2>1, <2>2, <3>1, <3>2 DEF Leaving
  <2> QED
    BY <2>2, <2>3
<1>2. CASE DisableOut
  <2>1. /\ at.stage = "disableOut" /\ at.op \in {"crash1", "start1", "disconnect"}
        /\ at.i \in Server /\ at.j \in Server
        /\ enabled' = enabled \ Ends(at.i, at.j)
        /\ UNCHANGED <<inst, killed, servers>>
        /\ gen[at.i] = inst[at.i]
    BY <1>2 DEF DisableOut, Turn, In, StageOK, Idle, Disable, cfgVars, ServersOK
  <2>2. /\ at'.op = at.op /\ at'.i = at.i
        /\ IF at.j < N THEN at'.stage = at.stage /\ at'.j = at.j + 1
                       ELSE at'.stage = "disableIn"
    BY ZenonT(30), <1>2 DEF DisableOut, Turn, TypeOK, AtType
  <2>3. ASSUME NEW e \in enabled' PROVE Good(e)
    <3>1. e \in enabled /\ e \in End /\ e \notin Ends(at.i, at.j)
      BY <1>e, <2>1, <2>3
    <3>2. e.gen = inst'[e.from] /\ (Running(e.from)' \/ Ended')
      BY <2>1, <3>1 DEF EnabledOK, Running, Ended
    <3>3. e.from = at.i => e.to > at.j /\ e.to <= N
      <4>1. e.from = at.i => e.to # at.j
        BY <2>1, <3>1 DEF Ends, EnabledOK
      <4>2. e.from = at.i => e.to >= at.j
        BY <2>1, <3>1 DEF EnabledOK, Leaving
      <4> QED
        BY <1>e, <2>1, <3>1, <4>1, <4>2, SMTT(30) DEF Server
    <3>4. e.from = at.i => at.j < N /\ e.to >= at.j + 1
      BY <1>e, <2>1, <3>1, <3>3, SMTT(30) DEF Server
    <3> QED
      BY <2>1, <2>2, <3>2, <3>4 DEF Leaving
  <2> QED
    BY <2>3
<1>3. ASSUME \/ DisableIn \/ DeleteStep \/ CopyStep \/ KillStep \/ EndsStep \/ MakeStep
             \/ AddStep
      PROVE  \A e \in enabled' : Good(e)
  <2>1. /\ at.op \in {"crash1", "start1", "disconnect"} /\ at.stage # "disableOut"
        /\ at.i \in Server
    <3>1. /\ at.stage \in {"disableIn", "delete", "copy", "kill", "ends", "make", "add"}
          /\ at.stage = "kill" => at.op # "cleanup"
      BY Zenon, <1>3 DEF DisableIn, DeleteStep, CopyStep, KillStep, EndsStep, MakeStep,
         AddStep, Turn, In
    <3> QED
      BY <3>1 DEF StageOK, Idle
  <2>2. enabled' \subseteq enabled
    BY <1>3, Zenon DEF DisableIn, Disable, DeleteStep, DeleteServer, CopyStep, KillStep,
       EndsStep, MakeStep, AddStep, AddServer, rpcVars, netVars
  <2>3. \A i \in Server : i # at.i => inst'[i] = inst[i]
    <3>1. CASE MakeStep
      BY <3>1 DEF MakeStep, TypeOK, CfgType
    <3>2. CASE ~MakeStep
      BY Zenon, <1>3, <3>2 DEF DisableIn, DeleteStep, CopyStep, KillStep, EndsStep, AddStep,
         cfgVars
    <3> QED
      BY Zenon, <3>1, <3>2
  <2>4. at' = Idle \/ at'.i = at.i
    <3>1. TestStep
      BY <1>3 DEF TestStep
    <3> QED
      BY <2>1, <3>1, AtStep
  <2>5. ASSUME NEW e \in enabled' PROVE Good(e)
    <3>1. e \in enabled /\ e.from # at.i
      BY <2>1, <2>2, <2>5 DEF EnabledOK, Leaving
    <3>2. e.gen = inst'[e.from] /\ (Running(e.from)' \/ Ended')
      BY <1>e, <1>r, <2>3, <3>1 DEF EnabledOK
    <3>3. ~Leaving(e.from)'
      BY <1>e, <2>4, <3>1, SMTT(30) DEF Leaving, Idle
    <3> QED
      BY <3>2, <3>3
  <2> QED
    BY <2>5
<1>4. CASE EnableOut \/ EnableIn
  <2>1. /\ at.op = "connect" /\ at.i \in Server /\ at.j \in Server
        /\ at.stage # "make"
        /\ UNCHANGED <<inst, killed, servers>>
    BY <1>4 DEF EnableOut, EnableIn, Turn, In, StageOK, Idle, Enable, cfgVars
  <2>2. ASSUME NEW e \in enabled', e \notin enabled
        PROVE  \E l \in Server : e.from = l /\ e.gen = gen[l] /\ connected[l]
    <3>1. CASE EnableOut
      BY <2>1, <2>2, <3>1 DEF EnableOut, Enable, Ends, EnabledOK
    <3>2. CASE EnableIn
      BY <2>1, <2>2, <3>2 DEF EnableIn, Enable, Ends
    <3> QED
      BY <1>4, <3>1, <3>2
  <2>3. at'.op \in {"idle", "connect"}
    <3>1. TestStep
      BY <1>4 DEF TestStep
    <3> QED
      BY <2>1, <3>1, AtStep, SMTT(30) DEF Idle
  <2>4. ASSUME NEW e \in enabled' PROVE Good(e)
    <3>1. e.gen = inst[e.from] /\ (Running(e.from) \/ Ended)
      BY <2>1, <2>2, <2>4, SMTT(30) DEF EnabledOK, ServersOK
    <3>2. e.gen = inst'[e.from] /\ (Running(e.from)' \/ Ended')
      BY <2>1, <3>1 DEF Running, Ended
    <3> QED
      BY <2>3, <3>2 DEF Leaving
  <2> QED
    BY <2>4
<1>5. CASE SetNetwork \/ CleanupKill \/ CleanupDone \/ CallStep \/ UNCHANGED vars
  <2>1. UNCHANGED <<enabled, inst>>
    <3>1. CASE SetNetwork \/ CallStep \/ UNCHANGED vars
      BY Zenon, <3>1, CallFrame DEF SetNetwork, Reliable, LongReordering, vars, rpcVars,
         netVars, cfgVars
    <3>2. CASE CleanupKill \/ CleanupDone
      BY Zenon, <3>2 DEF CleanupKill, CleanupDone, Cleanup, rpcVars, netVars, cfgVars
    <3> QED
      BY Zenon, <1>5, <3>1, <3>2
  <2>2. at' = at \/ (at'.op \in {"idle", "cleanup"} /\ at.op = "cleanup")
    <3>1. CASE SetNetwork \/ CallStep \/ UNCHANGED vars
      <4>1. at' = at
        BY ZenonT(30), <3>1, CallFrame DEF SetNetwork, vars, testVars
      <4> QED
        BY <4>1
    <3>2. CASE CleanupKill \/ CleanupDone
      <4>1. TestStep /\ at.op = "cleanup"
        BY <3>2 DEF TestStep, CleanupKill, CleanupDone, In, StageOK
      <4> QED
        BY <4>1, AtStep, SMTT(30) DEF Idle
    <3> QED
      BY <1>5, <3>1, <3>2
  <2>3. ASSUME NEW e \in enabled' PROVE Good(e)
    <3>1. e \in enabled
      BY <2>1, <2>3
    <3>2. e.gen = inst'[e.from]
      BY <2>1, <3>1 DEF EnabledOK
    <3>3. Running(e.from)' \/ Ended'
      <4>1. CASE SetNetwork \/ CallStep \/ UNCHANGED vars
        <5>1. UNCHANGED <<inst, killed, servers>>
          BY <4>1, CallFrame DEF SetNetwork, Reliable, LongReordering, vars, rpcVars,
             netVars, cfgVars
        <5> QED
          BY <3>1, <5>1 DEF EnabledOK, Running, Ended
      <4>2. CASE CleanupKill \/ CleanupDone
        <5>1. at.op = "cleanup"
          BY <4>2 DEF CleanupKill, CleanupDone, In, StageOK
        <5> QED
          BY <1>r, <3>1, <5>1
      <4> QED
        BY <1>5, <4>1, <4>2
    <3>4. Leaving(e.from)' => at'.stage = "disableOut" /\ e.to >= at'.j
      BY <2>2, <3>1 DEF Leaving, EnabledOK
    <3> QED
      BY <3>2, <3>3, <3>4
  <2> QED
    BY <2>3
<1> QED
  BY <1>1, <1>2, <1>3, <1>4, <1>5 DEF Next, TestStep, CallStep

\* connect and disconnect, a turn of a loop at a time, keep enabled the ends of
\* running instances only.
LEMMA EnabledStep ==
  ASSUME TypeOK, StageOK, ServersOK, BootOK, EnabledOK, [Next]_vars
  PROVE  EnabledOK'
BY ConnectedStep, EndsOfRunning DEF EnabledOK

----------------------------------------------------------------------------
(* The calls.                                                              *)

\* What an instance has saved stays saved, and a restart loses nothing.
LEMMA SavedStep ==
  ASSUME TypeOK, StageOK, ServersOK, [Next]_vars
  PROVE  /\ \A i \in Server : SavedState(i) \subseteq SavedState(i)'
         /\ \A i \in Server : inst[i] <= inst'[i]
         /\ \A i \in Server, g \in Gen : g <= inst[i] => disk[<<i, g>>] \subseteq disk'[<<i, g>>]
<1> USE HarnessAssumption
<1> DEFINE Goal ==
      /\ \A i \in Server : SavedState(i) \subseteq SavedState(i)'
      /\ \A i \in Server : inst[i] <= inst'[i]
      /\ \A i \in Server, g \in Gen : g <= inst[i] => disk[<<i, g>>] \subseteq disk'[<<i, g>>]
<1> SUFFICES Goal
  OBVIOUS
<1>t. \A i \in Server : inst[i] \in Nat
  BY SMTT(30) DEF TypeOK, CfgType
<1>1. ASSUME UNCHANGED <<inst, disk, saved, shared>> PROVE Goal
  BY <1>1, <1>t, SMTT(30) DEF SavedState
<1>2. CASE MakeConfig \/ TestBegins
  BY <1>1, <1>2, BeginsStep, SMTT(30) DEF Begins, Begin, persistVars
<1>3. CASE PersisterIdle
  BY Zenon, <1>1, <1>3, PersisterFrame
<1>4. CASE CopyStep
  <2>1. /\ at.i \in Server
        /\ saved' = [saved EXCEPT ![at.i] = SavedState(at.i)]
        /\ shared' = [shared EXCEPT ![at.i] = FALSE]
        /\ UNCHANGED <<inst, disk>>
    BY <1>4 DEF CopyStep, In, StageOK, Idle, cfgVars
  <2>2. \A i \in Server : SavedState(i)' = SavedState(i)
    BY <2>1 DEF SavedState, TypeOK, DiskType
  <2> QED
    BY <1>t, <2>1, <2>2, SMTT(30)
<1>5. CASE MakeStep
  <2>1. /\ at.i \in Server /\ at.stage = "make" /\ at.op = "start1"
        /\ inst' = [inst EXCEPT ![at.i] = gen[at.i]]
        /\ disk' = [disk EXCEPT ![<<at.i, gen[at.i]>>] = saved[at.i]]
        /\ shared' = [shared EXCEPT ![at.i] = TRUE]
        /\ saved' = saved
    BY <1>5 DEF MakeStep, In, StageOK, Idle
  <2>2. gen[at.i] = inst[at.i] + 1 /\ gen[at.i] \in Gen
    BY <1>t, <2>1, SMTT(30) DEF ServersOK, TypeOK, CfgType, Gen
  <2>3. ~shared[at.i]
    BY <2>1 DEF ServersOK, Gone
  <2>4. /\ inst'[at.i] = gen[at.i] /\ shared'[at.i]
        /\ disk'[<<at.i, gen[at.i]>>] = saved[at.i]
    BY <2>1, <2>2 DEF TypeOK, CfgType, DiskType
  <2>5. \A i \in Server, g \in Gen : g <= inst[i] => disk'[<<i, g>>] = disk[<<i, g>>]
    BY <1>t, <2>1, <2>2, SMTT(30) DEF TypeOK, DiskType, Gen
  <2>6. \A i \in Server : i # at.i =>
          /\ inst'[i] = inst[i] /\ shared'[i] = shared[i]
          /\ \A g \in Gen : disk'[<<i, g>>] = disk[<<i, g>>]
    BY <2>1, <2>2 DEF TypeOK, CfgType, DiskType
  <2>7. ASSUME NEW i \in Server PROVE SavedState(i)' = SavedState(i)
    <3>1. CASE i = at.i
      <4>1. SavedState(i) = saved[i]
        BY <2>3, <3>1 DEF SavedState
      <4> QED
        BY <2>4, <3>1, <4>1 DEF SavedState
    <3>2. CASE i # at.i
      <4>1. shared[i] => inst[i] \in Gen
        BY HarnessAssumption, SMTT(30) DEF ServersOK, TypeOK, CfgType, Gen
      <4> QED
        BY <2>1, <2>6, <3>2, <4>1, SMTT(30) DEF SavedState
    <3> QED
      BY <3>1, <3>2
  <2>8. \A i \in Server : inst[i] <= inst'[i]
    BY <1>t, <2>1, <2>2, <2>4, <2>6, SMTT(30)
  <2> QED
    BY <2>5, <2>7, <2>8
<1>6. CASE \E k \in Call, e \in End : InstanceCalls(k, e)
  BY <1>1, <1>6 DEF InstanceCalls, cfgVars, persistVars
<1>7. CASE \E k \in Call : NetworkStep(k)
  BY <1>1, <1>7 DEF NetworkStep, cfgVars, persistVars
<1>8. CASE \E k \in Call : HandlerStep(k)
  <2>1. PICK k \in Call : HandlerStep(k)
    BY <1>8
  <2>2. /\ disk' = [disk EXCEPT ![<<calls[k].end.to, calls[k].server>>] = @ \cup {k}]
        /\ UNCHANGED <<inst, saved, shared>>
    BY <2>1 DEF HandlerStep, cfgVars
  <2>3. \A i \in Server, g \in Gen : disk[<<i, g>>] \subseteq disk'[<<i, g>>]
    BY <2>2 DEF TypeOK, DiskType
  <2>4. ASSUME NEW i \in Server PROVE SavedState(i) \subseteq SavedState(i)'
    <3>1. shared[i] => inst[i] \in Gen
      BY HarnessAssumption, SMTT(30) DEF ServersOK, TypeOK, CfgType, Gen
    <3> QED
      BY <2>2, <2>3, <3>1 DEF SavedState
  <2> QED
    BY <1>t, <2>2, <2>3, <2>4, SMTT(30)
<1> QED
  BY Zenon, <1>2, <1>3, <1>4, <1>5, <1>6, <1>7, <1>8 DEF Next, TestStep, PersisterIdle

\* The owner of the network only cuts calls off.
LEMMA OwnerStep ==
  ASSUME TypeOK, MakeConfig \/ TestBegins \/ SetNetwork \/ TestStep \/ UNCHANGED vars
  PROVE  \A k \in Call :
           /\ calls'[k].pc = calls[k].pc
           /\ Made(k) => /\ calls'[k].end = calls[k].end
                         /\ calls'[k].server = calls[k].server
                         /\ calls'[k].handler = calls[k].handler
<1>1. CASE \E E : CutCalls(E)
  BY <1>1, CutStep
<1>2. CASE calls' = calls
  BY <1>2
<1>3. CASE DisableOut \/ DisableIn \/ DeleteStep
  BY <1>1, <1>3, Zenon DEF DisableOut, DisableIn, Disable, DeleteStep, DeleteServer
<1>4. CASE MakeConfig \/ TestBegins
  <2>1. calls' = calls
    BY <1>4, BeginsStep DEF Begins, Begin, rpcVars
  <2> QED
    BY <1>2, <2>1
<1>5. CASE SetNetwork \/ EnableOut \/ EnableIn \/ CopyStep \/ KillStep \/ EndsStep
           \/ MakeStep \/ AddStep \/ CleanupKill \/ CleanupDone \/ UNCHANGED vars
  <2>1. CASE SetNetwork \/ UNCHANGED vars
    BY Zenon, <1>2, <2>1 DEF SetNetwork, Reliable, LongReordering, vars, rpcVars
  <2>2. CASE EnableOut \/ EnableIn
    BY Zenon, <1>2, <2>2 DEF EnableOut, EnableIn, Enable
  <2>3. CASE CopyStep \/ KillStep \/ EndsStep \/ MakeStep \/ CleanupKill
    BY Zenon, <1>2, <2>3 DEF CopyStep, KillStep, EndsStep, MakeStep, CleanupKill, rpcVars
  <2>4. CASE AddStep \/ CleanupDone
    BY Zenon, <1>2, <2>4 DEF AddStep, AddServer, CleanupDone, Cleanup
  <2> QED
    BY Zenon, <1>5, <2>1, <2>2, <2>3, <2>4
<1> QED
  BY <1>3, <1>4, <1>5 DEF TestStep

\* CallsOK and ReplyIsDurable, of one call.
CallOK(k) ==
  Made(k) =>
    /\ calls[k].server <= inst[calls[k].end.to]
    /\ calls[k].pc = "sent" => calls[k].handler = "none"
    /\ calls[k].pc = "read" => calls[k].server # 0
    /\ calls[k].handler # "none" => calls[k].server # 0
    /\ calls[k].handler = "returned" =>
         k \in disk[<<calls[k].end.to, calls[k].server>>]
    /\ calls[k].pc = "reply" => calls[k].handler = "returned"

Durable(k) == calls[k].pc \in {"delayed", "ok"} => k \in SavedState(calls[k].end.to)

\* Durable, in the next state.
LEMMA DurableNext ==
  ASSUME NEW k \in Call, NEW i \in Server, calls'[k].end.to = i,
         k \in (IF shared'[i] THEN disk'[<<i, inst'[i]>>] ELSE saved'[i])
  PROVE  Durable(k)'
BY DEF Durable, SavedState

\* A call keeps them while nothing happens to it.
LEMMA QuietCall ==
  ASSUME TypeOK, StageOK, ServersOK, [Next]_vars, NEW k \in Call, CallOK(k), Durable(k),
         calls'[k].pc = calls[k].pc,
         Made(k) => /\ calls'[k].end = calls[k].end
                    /\ calls'[k].server = calls[k].server
                    /\ calls'[k].handler = calls[k].handler
  PROVE  CallOK(k)' /\ Durable(k)'
<1> USE HarnessAssumption
<1>1. CASE ~Made(k)
  BY <1>1 DEF CallOK, Durable, Made
<1>2. CASE Made(k)
  <2>1. /\ calls[k].end.to \in Server /\ calls[k].server \in 0..MaxGen
        /\ inst[calls[k].end.to] \in Nat /\ inst'[calls[k].end.to] \in Nat
    <3>1. calls[k] \in CallRec
      BY <1>2 DEF TypeOK, NetType
    <3>2. calls[k].end.to \in Server /\ calls[k].server \in 0..MaxGen
      BY <3>1 DEF CallRec, End
    <3>3. CfgType'
      BY CfgTypeStep
    <3> QED
      BY <3>2, <3>3, SMTT(30) DEF TypeOK, CfgType
  <2>2. calls'[k].server <= inst'[calls'[k].end.to]
    BY <1>2, <2>1, SavedStep, SMTT(30) DEF CallOK
  <2>3. calls'[k].handler = "returned" => k \in disk'[<<calls'[k].end.to, calls'[k].server>>]
    <3>1. ASSUME calls[k].handler = "returned"
          PROVE  /\ calls[k].server \in Gen /\ calls[k].server <= inst[calls[k].end.to]
                 /\ k \in disk[<<calls[k].end.to, calls[k].server>>]
      <4>1. /\ calls[k].server # 0 /\ calls[k].server <= inst[calls[k].end.to]
            /\ k \in disk[<<calls[k].end.to, calls[k].server>>]
        BY Zenon, <1>2, <3>1 DEF CallOK
      <4> QED
        BY <2>1, <4>1, SMTT(30) DEF Gen
    <3> QED
      BY <1>2, <2>1, <3>1, SavedStep
  <2>4. CallOK(k)'
    BY <1>2, <2>2, <2>3 DEF CallOK, Made
  <2>5. CASE calls[k].pc \in {"delayed", "ok"}
    <3>1. PICK i \in Server : i = calls[k].end.to
      BY <2>1
    <3>2. k \in SavedState(i)
      BY <2>5, <3>1 DEF Durable
    <3>3. k \in (IF shared'[i] THEN disk'[<<i, inst'[i]>>] ELSE saved'[i])
      BY ZenonT(30), <3>2, SavedStep DEF SavedState
    <3> QED
      BY ZenonT(30), <1>2, <2>4, <3>1, <3>3, DurableNext
  <2>6. CASE calls[k].pc \notin {"delayed", "ok"}
    BY <2>4, <2>6 DEF Durable
  <2> QED
    BY <2>5, <2>6
<1> QED
  BY <1>1, <1>2

\* What a call that is answered was answered with has been saved.
LEMMA CallsStep ==
  ASSUME TypeOK, StageOK, ServersOK, CallsOK, ReplyIsDurable, [Next]_vars
  PROVE  CallsOK' /\ ReplyIsDurable'
<1> USE HarnessAssumption
<1>a. \A k \in Call : CallOK(k) /\ Durable(k)
  BY DEF CallsOK, CallOK, ReplyIsDurable, Durable
<1> SUFFICES \A k \in Call : CallOK(k)' /\ Durable(k)'
  BY ZenonT(30) DEF CallsOK, CallOK, ReplyIsDurable, Durable
<1>1. CASE MakeConfig \/ TestBegins \/ SetNetwork \/ TestStep \/ UNCHANGED vars
  BY <1>1, <1>a, OwnerStep, QuietCall
<1>2. CASE \E k \in Call, e \in End : InstanceCalls(k, e)
  <2>1. PICK k \in Call, e \in End : InstanceCalls(k, e)
    BY <1>2
  <2>2. /\ CallEnd(k, e) /\ inst' = inst
    BY <2>1 DEF InstanceCalls, cfgVars
  <2>3. /\ \A l \in Call : l # k => calls'[l] = calls[l]
        /\ calls'[k] \in CallRec
        /\ calls'[k].pc \in {"sent", "failed"}
        /\ calls'[k].handler = "none"
        /\ calls'[k].server = 0
    BY <2>2, CallEffect
  <2>4. 0 <= inst'[calls'[k].end.to]
    BY <2>2, <2>3, SMTT(30) DEF CallRec, End, TypeOK, CfgType
  <2>5. CallOK(k)' /\ Durable(k)'
    BY <2>3, <2>4 DEF CallOK, Durable, Made
  <2> QED
    BY <1>a, <2>3, <2>5, QuietCall
<1>3. CASE \E k \in Call : NetworkStep(k)
  <2>1. PICK k \in Call : NetworkStep(k)
    BY <1>3
  <2>2. ProcessReq(k) /\ UNCHANGED <<inst, disk, saved, shared>>
    BY <2>1 DEF NetworkStep, cfgVars, persistVars
  <2>3. /\ \A l \in Call : l # k => calls'[l] = calls[l]
        /\ Made(k)
        /\ calls'[k].end = calls[k].end
        /\ ReadsServer(k) \/ StartsHandler(k) \/ MovesOn(k)
    BY <2>2, NetEffect
  <2>4. /\ calls[k].end.to \in Server /\ calls[k].server \in 0..MaxGen
        /\ inst[calls[k].end.to] \in Nat
    BY <2>3, SMTT(30) DEF TypeOK, NetType, CfgType, CallRec, End
  <2>5. ASSUME ReadsServer(k) PROVE CallOK(k)' /\ Durable(k)'
    <3>1. servers[calls[k].end.to] = inst[calls[k].end.to]
      BY ZenonT(30), <2>4, <2>5 DEF ReadsServer, ServersOK
    <3>2. calls[k].handler = "none"
      BY ZenonT(30), <1>a, <2>3, <2>5 DEF ReadsServer, CallOK
    <3>3. /\ calls'[k].server = inst[calls[k].end.to] /\ calls'[k].server # 0
          /\ calls'[k].pc = "read" /\ calls'[k].handler = "none"
      BY Zenon, <2>5, <3>1, <3>2 DEF ReadsServer
    <3>4. calls'[k].server <= inst'[calls'[k].end.to]
      BY <2>2, <2>3, <2>4, <3>3, SMTT(30)
    <3> QED
      BY Zenon, <3>3, <3>4 DEF CallOK, Durable
  <2>6. ASSUME StartsHandler(k) PROVE CallOK(k)' /\ Durable(k)'
    BY ZenonT(30), <1>a, <2>2, <2>3, <2>6 DEF StartsHandler, CallOK, Durable
  <2>7. ASSUME MovesOn(k) PROVE CallOK(k)' /\ Durable(k)'
    <3>1. CallOK(k)'
      BY ZenonT(30), <1>a, <2>2, <2>3, <2>7 DEF MovesOn, CallOK
    <3>2. ASSUME calls'[k].pc \in {"ok", "delayed"} PROVE k \in SavedState(calls[k].end.to)
      <4>1. CASE calls[k].pc = "delayed"
        BY <1>a, <4>1 DEF Durable
      <4>2. CASE calls[k].pc = "reply" /\ ~IsServerDead(k)
        <5>1. /\ calls[k].server # 0 /\ servers[calls[k].end.to] = calls[k].server
              /\ k \in disk[<<calls[k].end.to, calls[k].server>>]
          BY <1>a, <2>3, <4>2 DEF CallOK, IsServerDead
        <5>2. calls[k].server = inst[calls[k].end.to] /\ shared[calls[k].end.to]
          BY <2>4, <5>1 DEF ServersOK
        <5> QED
          BY <5>1, <5>2 DEF SavedState
      <4> QED
        BY <2>7, <3>2, <4>1, <4>2 DEF MovesOn
    <3>3. Durable(k)'
      <4>1. CASE calls'[k].pc \in {"ok", "delayed"}
        <5>1. PICK i \in Server : i = calls[k].end.to
          BY <2>4
        <5>2. k \in (IF shared'[i] THEN disk'[<<i, inst'[i]>>] ELSE saved'[i])
          BY <2>2, <3>2, <4>1, <5>1 DEF SavedState
        <5> QED
          BY <2>3, <5>1, <5>2, DurableNext
      <4>2. CASE calls'[k].pc \notin {"ok", "delayed"}
        BY <4>2 DEF Durable
      <4> QED
        BY <4>1, <4>2
    <3> QED
      BY <3>1, <3>3
  <2>8. CallOK(k)' /\ Durable(k)'
    BY <2>3, <2>5, <2>6, <2>7
  <2> QED
    BY <1>a, <2>3, <2>8, QuietCall
<1>4. CASE \E k \in Call : HandlerStep(k)
  <2>1. PICK k \in Call : HandlerStep(k)
    BY <1>4
  <2>2. /\ HandlerReturns(k) /\ inst' = inst
        /\ disk' = [disk EXCEPT ![<<calls[k].end.to, calls[k].server>>] = @ \cup {k}]
        /\ UNCHANGED <<saved, shared>>
    BY <2>1 DEF HandlerStep, cfgVars
  <2>3. /\ \A l \in Call : l # k => calls'[l] = calls[l]
        /\ Made(k)
        /\ calls[k].handler = "running" /\ calls'[k].handler = "returned"
        /\ calls'[k].pc = calls[k].pc
        /\ calls'[k].end = calls[k].end
        /\ calls'[k].server = calls[k].server
    BY <2>2, HandlerEffect
  <2>4. /\ calls[k].end.to \in Server /\ calls[k].server \in 0..MaxGen
        /\ calls[k].server # 0
    BY ZenonT(30), <1>a, <2>3 DEF TypeOK, NetType, CallRec, End, CallOK
  <2>5. calls[k].server \in Gen
    BY <2>4, SMTT(30) DEF Gen
  <2>6. k \in disk'[<<calls[k].end.to, calls[k].server>>]
    BY <2>2, <2>4, <2>5 DEF TypeOK, DiskType
  <2>7. CallOK(k)'
    BY ZenonT(30), <1>a, <2>2, <2>3, <2>4, <2>6 DEF CallOK
  <2>8. Durable(k)'
    <3>1. CASE calls[k].pc \in {"delayed", "ok"}
      <4>1. PICK i \in Server : i = calls[k].end.to
        BY <2>4
      <4>2. k \in SavedState(i)
        BY <1>a, <3>1, <4>1 DEF Durable
      <4>3. k \in (IF shared'[i] THEN disk'[<<i, inst'[i]>>] ELSE saved'[i])
        BY <4>2, SavedStep DEF SavedState
      <4> QED
        BY <2>3, <4>1, <4>3, DurableNext
    <3>2. CASE calls[k].pc \notin {"delayed", "ok"}
      BY <2>3, <3>2 DEF Durable
    <3> QED
      BY <3>1, <3>2
  <2> QED
    BY <1>a, <2>3, <2>7, <2>8, QuietCall
<1> QED
  BY <1>1, <1>2, <1>3, <1>4 DEF Next

----------------------------------------------------------------------------
(* The theorems.                                                           *)

\* Every step keeps the invariant.
LEMMA InvStep == HarnessInv /\ [Next]_vars => HarnessInv'
<1> SUFFICES ASSUME HarnessInv, [Next]_vars PROVE HarnessInv'
  OBVIOUS
<1>1. /\ TypeOK /\ StageOK /\ ServersOK /\ BootOK /\ EnabledOK
      /\ CallsOK /\ ReplyIsDurable
  BY DEF HarnessInv
<1>2. TypeOK'
  BY <1>1, NetTypeStep, StageStep, CountStep, CfgTypeStep, DiskTypeStep DEF TypeOK
<1>3. StageOK' /\ ServersOK' /\ BootOK'
  BY <1>1, StageStep, ServersStep, BootStep
<1>4. EnabledOK' /\ CallsOK' /\ ReplyIsDurable'
  BY <1>1, EnabledStep, CallsStep
<1> QED
  BY <1>2, <1>3, <1>4 DEF HarnessInv

\* The invariant holds in every state that the harness reaches.
LEMMA Invariance == Spec => []HarnessInv
BY InvInit, InvStep, PTL DEF Spec

\* For any number of servers, calls and restarts, a call that was answered has
\* its update in the Persister that the next instance of the server is made
\* from: processReq of labrpc.go looks at the server again before it answers,
\* and crash1 of config.go deletes the server before it copies the Persister.
THEOREM RepliesAreDurable == Spec => []ReplyIsDurable
BY Invariance, PTL DEF HarnessInv

\* For any number of servers, calls and restarts, a killed instance, which goes
\* on running, cannot change what the next one is made from: crash1 of
\* config.go copies the Persister before it kills.
THEOREM OldInstancesCannotSave == Spec => OldCannotSave
<1>1. HarnessInv /\ [Next]_vars =>
        [\A i \in Server : SavedState(i)' = SavedState(i) \/ Running(i) \/ Ended]_vars
  <2> SUFFICES ASSUME HarnessInv, [Next]_vars, NEW i \in Server, ~Running(i), ~Ended
               PROVE  SavedState(i)' = SavedState(i)
    OBVIOUS
  <2>1. TypeOK /\ StageOK /\ ServersOK
    BY DEF HarnessInv
  <2>2. ~shared[i]
    BY <2>1 DEF ServersOK
  <2>3. CASE UNCHANGED <<inst, saved, shared, disk>>
    BY <2>3 DEF SavedState
  <2>4. CASE MakeConfig \/ TestBegins
    BY <2>1, <2>3, <2>4, BeginsStep, SMTT(30) DEF Begins, Begin, persistVars
  <2>5. CASE PersisterIdle
    BY Zenon, <2>3, <2>5, PersisterFrame
  <2>6. CASE CopyStep
    BY <2>1, <2>2, <2>6 DEF CopyStep, SavedState, TypeOK, DiskType
  <2>7. CASE MakeStep
    <3>1. /\ inst' = [inst EXCEPT ![at.i] = gen[at.i]]
          /\ disk' = [disk EXCEPT ![<<at.i, gen[at.i]>>] = saved[at.i]]
          /\ shared' = [shared EXCEPT ![at.i] = TRUE]
          /\ saved' = saved
          /\ at.i \in Server /\ at.stage = "make"
      BY <2>1, <2>7 DEF MakeStep, In, StageOK, Idle
    <3>2. gen[at.i] = inst[at.i] + 1 /\ gen[at.i] \in Gen
      BY <2>1, <3>1, HarnessAssumption, SMTT(30) DEF ServersOK, TypeOK, CfgType, Gen
    <3>3. CASE i = at.i
      <4>1. /\ inst'[i] = gen[i] /\ shared'[i]
            /\ disk'[<<i, gen[i]>>] = saved[i]
        BY <2>1, <3>1, <3>2, <3>3 DEF TypeOK, CfgType, DiskType
      <4> QED
        BY ZenonT(30), <2>2, <4>1 DEF SavedState
    <3>4. CASE i # at.i
      <4>1. ~shared'[i] /\ saved'[i] = saved[i]
        BY <2>1, <2>2, <3>1, <3>4 DEF TypeOK, DiskType
      <4> QED
        BY <2>2, <4>1 DEF SavedState
    <3> QED
      BY <3>3, <3>4
  <2>8. CASE \E k \in Call, e \in End : InstanceCalls(k, e)
    BY <2>3, <2>8 DEF InstanceCalls, cfgVars, persistVars
  <2>9. CASE \E k \in Call : NetworkStep(k) \/ HandlerStep(k)
    BY <2>2, <2>9 DEF NetworkStep, HandlerStep, cfgVars, persistVars, SavedState
  <2> QED
    BY Zenon, <2>4, <2>5, <2>6, <2>7, <2>8, <2>9 DEF Next, TestStep, PersisterIdle
<1> QED
  BY <1>1, Invariance, PTL DEF Spec, OldCannotSave

\* For any number of servers, calls and restarts, no request of a killed
\* instance reaches a handler: crash1 of config.go disables its ends, and
\* nothing enables them again.
THEOREM KilledInstancesAreSilent == Spec => KilledIsSilent
<1>1. HarnessInv /\ [Next]_vars =>
        [\A k \in Call : calls[k].pc = "sent" /\ calls'[k].pc = "read" =>
           <<calls[k].end.from, calls[k].end.gen>> \notin killed \/ Ended]_vars
  <2> SUFFICES ASSUME HarnessInv, [Next]_vars, NEW k \in Call,
                      calls[k].pc = "sent", calls'[k].pc = "read"
               PROVE  <<calls[k].end.from, calls[k].end.gen>> \notin killed \/ Ended
    OBVIOUS
  <2>1. TypeOK /\ EnabledOK
    BY DEF HarnessInv
  <2>2. \E l \in Call : NetworkStep(l) \/ HandlerStep(l) \/ \E e \in End : InstanceCalls(l, e)
    BY <2>1, OwnerStep DEF Next
  <2>3. PICK l \in Call : ProcessReq(l) \/ HandlerReturns(l) \/ \E e \in End : CallEnd(l, e)
    BY <2>2 DEF NetworkStep, HandlerStep, InstanceCalls
  <2>4. CASE ProcessReq(l)
    <3>1. l = k /\ ReadsServer(k)
      BY <2>1, <2>4, NetEffect DEF StartsHandler, MovesOn
    <3>2. calls[k].end \in enabled
      BY <3>1 DEF ReadsServer
    <3>3. calls[k].end.gen = inst[calls[k].end.from] /\ (Running(calls[k].end.from) \/ Ended)
      BY <2>1, <3>2 DEF EnabledOK
    <3> QED
      BY <3>3 DEF Running
  <2>5. CASE HandlerReturns(l)
    BY <2>1, <2>5, HandlerEffect
  <2>6. CASE \E e \in End : CallEnd(l, e)
    BY <2>1, <2>6, CallEffect
  <2> QED
    BY <2>3, <2>4, <2>5, <2>6
<1> QED
  BY <1>1, Invariance, PTL DEF Spec, KilledIsSilent
============================================================================
