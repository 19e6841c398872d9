---------------------------- MODULE RaftHarness ----------------------------
(***************************************************************************)
(* How src/raft/config.go runs servers on the network of LabRPC: crash1,   *)
(* start1, connect, disconnect and cleanup, step by step, while the        *)
(* servers call each other.  An instance cannot really be killed.  It goes *)
(* on, can call, and its handlers run and save into the Persister it was   *)
(* made with: crash1 and start1 must isolate it by the order of their      *)
(* steps.                                                                  *)
(*                                                                         *)
(* The Raft state that a handler saves is the set of updates it holds.     *)
(***************************************************************************)
EXTENDS LabRPC

CONSTANTS
  MaxOps          \* bound: operations of the test after make_config

ASSUME HarnessAssumption ==
  /\ N \in Nat \ {0}
  /\ MaxGen \in Nat \ {0} /\ MaxOps \in Nat

VARIABLES
  at,             \* the test's operation, its server, its stage, its loop index
  booted,         \* operations of make_config begun
  ops,            \* operations begun after that
  connected,      \* cfg.connected
  gen,            \* which names cfg.endnames[i] holds; 0: nil
  inst,           \* the latest instance that Make has returned; 0: none
  killed,         \* the instances that have been killed
  disk,           \* what each instance has saved in its Persister
  saved,          \* cfg.saved[i], when it is no instance's Persister
  shared          \* is cfg.saved[i] the Persister of instance inst[i]?

persistVars == <<disk, saved, shared>>
cfgVars == <<connected, gen, inst, killed>>
testVars == <<at, booted, ops>>
vars == <<rpcVars, testVars, cfgVars, persistVars>>

Idle == [op |-> "idle", i |-> 0, stage |-> "none", j |-> 0]

\* Is server i running, that is, cfg.rafts[i] # nil?
Running(i) == inst[i] # 0 /\ <<i, inst[i]>> \notin killed

\* What ReadRaftState of cfg.saved[i] returns.
SavedState(i) == IF shared[i] THEN disk[<<i, inst[i]>>] ELSE saved[i]

\* The names that cfg.endnames[i][j] holds.
Ends(i, j) == {e \in End : e.from = i /\ e.gen = gen[i] /\ e.to = j}

Init ==
  /\ NetInit
  /\ at = Idle
  /\ booted = 0
  /\ ops = 0
  /\ connected = [i \in Server |-> FALSE]
  /\ gen = [i \in Server |-> 0]
  /\ inst = [i \in Server |-> 0]
  /\ killed = {}
  /\ disk = [p \in Server \X Gen |-> {}]
  /\ saved = [i \in Server |-> {}]
  /\ shared = [i \in Server |-> FALSE]

----------------------------------------------------------------------------
(* The operations begin.                                                   *)

\* make_config starts all servers, then connects them.  After that the test
\* begins an operation whenever the one before has returned.
Begin(op, i, stage, j) ==
  /\ at = Idle /\ ~done
  /\ at' = [op |-> op, i |-> i, stage |-> stage, j |-> j]
  /\ UNCHANGED <<rpcVars, gen, inst, killed, persistVars>>

Disconnect(op, i) ==
  /\ Begin(op, i, "disableOut", 1)
  /\ connected' = [connected EXCEPT ![i] = FALSE]

\* Mutant: crash1 leaves the server connected.
Crash1_Connected(op, i) ==
  /\ Begin(op, i, "delete", 0)
  /\ UNCHANGED connected

\* crash1, alone or of start1.
Crash1(op, i) == Disconnect(op, i)

Start1(i) == gen[i] < MaxGen /\ Crash1("start1", i)

Connect(i) ==
  /\ Begin("connect", i, "enableOut", 1)
  /\ connected' = [connected EXCEPT ![i] = TRUE]

MakeConfig ==
  /\ booted < 2 * N
  /\ booted' = booted + 1
  /\ IF booted < N THEN Start1(booted + 1) ELSE Connect(booted + 1 - N)
  /\ UNCHANGED ops

\* No test connects a server that is not running.
TestBegins ==
  /\ booted = 2 * N
  /\ ops < MaxOps
  /\ ops' = ops + 1
  /\ \/ \E i \in Server : \/ Crash1("crash1", i)
                          \/ Start1(i)
                          \/ Disconnect("disconnect", i)
                          \/ Running(i) /\ Connect(i)
     \/ Begin("cleanup", 1, "kill", 0) /\ UNCHANGED connected
  /\ UNCHANGED booted

\* setunreliable and setlongreordering.
SetNetwork ==
  /\ at = Idle /\ ~done
  /\ booted = 2 * N
  /\ ops < MaxOps
  /\ ops' = ops + 1
  /\ (\E u \in BOOLEAN : Reliable(u)) \/ LongReordering(TRUE)
  /\ UNCHANGED <<at, booted, cfgVars, persistVars>>

----------------------------------------------------------------------------
(* Their stages.                                                           *)

In(stage) == at.stage = stage /\ UNCHANGED <<booted, ops>>

Goto(stage) == at' = [at EXCEPT !.stage = stage]

\* A turn of a loop over the servers that ends in next.
Turn(stage, next) ==
  /\ In(stage)
  /\ IF at.j < N THEN at' = [at EXCEPT !.j = @ + 1]
     ELSE at' = IF next = "return" THEN Idle
                ELSE [at EXCEPT !.stage = next, !.j = 1]

\* disconnect, of crash1 and start1 too.
DisableOut ==
  /\ Turn("disableOut", "disableIn")
  /\ Disable(Ends(at.i, at.j))
  /\ UNCHANGED <<cfgVars, persistVars>>

DisableIn ==
  /\ Turn("disableIn", IF at.op = "disconnect" THEN "return" ELSE "delete")
  /\ Disable(Ends(at.j, at.i))
  /\ UNCHANGED <<cfgVars, persistVars>>

\* connect.
EnableOut ==
  /\ Turn("enableOut", "enableIn")
  /\ Enable(IF connected[at.j] THEN Ends(at.i, at.j) ELSE {})
  /\ UNCHANGED <<cfgVars, persistVars>>

\* Mutant: connect does not ask whether the other server is connected.
EnableIn_Any ==
  /\ Turn("enableIn", "return")
  /\ Enable(Ends(at.j, at.i))
  /\ UNCHANGED <<cfgVars, persistVars>>

EnableIn ==
  /\ Turn("enableIn", "return")
  /\ Enable(IF connected[at.j] THEN Ends(at.j, at.i) ELSE {})
  /\ UNCHANGED <<cfgVars, persistVars>>

\* crash1, of start1 too.
DeleteStep ==
  /\ In("delete") /\ Goto("copy")
  /\ DeleteServer(at.i)
  /\ UNCHANGED <<cfgVars, persistVars>>

\* Mutant: the Persister is not copied.
CopyStep_Kept ==
  /\ In("copy") /\ Goto("kill")
  /\ UNCHANGED <<rpcVars, cfgVars, persistVars>>

\* cfg.saved[i] = cfg.saved[i].Copy()
CopyStep ==
  /\ In("copy") /\ Goto("kill")
  /\ saved' = [saved EXCEPT ![at.i] = SavedState(at.i)]
  /\ shared' = [shared EXCEPT ![at.i] = FALSE]
  /\ UNCHANGED <<rpcVars, cfgVars, disk>>

\* rf.Kill().  The Persister that crash1 makes after that has the content of
\* the copy, which nobody else has: saved stays as it is.
KillStep ==
  /\ In("kill") /\ at.op # "cleanup"
  /\ at' = IF at.op = "crash1" THEN Idle ELSE [at EXCEPT !.stage = "ends"]
  /\ killed' = IF Running(at.i) THEN killed \cup {<<at.i, inst[at.i]>>} ELSE killed
  /\ UNCHANGED <<rpcVars, connected, gen, inst, persistVars>>

\* start1: fresh names and ends, made and connected.
EndsStep ==
  /\ In("ends") /\ Goto("make")
  /\ gen' = [gen EXCEPT ![at.i] = @ + 1]
  /\ UNCHANGED <<rpcVars, connected, inst, killed, persistVars>>

\* One more copy, and Make: the new instance reads that Persister and begins
\* to run.
MakeStep ==
  /\ In("make") /\ Goto("add")
  /\ inst' = [inst EXCEPT ![at.i] = gen[at.i]]
  /\ disk' = [disk EXCEPT ![<<at.i, gen[at.i]>>] = saved[at.i]]
  /\ shared' = [shared EXCEPT ![at.i] = TRUE]
  /\ UNCHANGED <<rpcVars, connected, gen, killed, saved>>

AddStep ==
  /\ In("add") /\ at' = Idle
  /\ AddServer(at.i, inst[at.i])
  /\ UNCHANGED <<cfgVars, persistVars>>

\* cleanup kills every server, one after another, and ends the network.
CleanupKill ==
  /\ In("kill") /\ at.op = "cleanup"
  /\ at' = IF at.i < N THEN [at EXCEPT !.i = @ + 1] ELSE [at EXCEPT !.stage = "done"]
  /\ killed' = IF Running(at.i) THEN killed \cup {<<at.i, inst[at.i]>>} ELSE killed
  /\ UNCHANGED <<rpcVars, connected, gen, inst, persistVars>>

CleanupDone ==
  /\ In("done") /\ at' = Idle
  /\ Cleanup
  /\ UNCHANGED <<cfgVars, persistVars>>

TestStep ==
  \/ DisableOut
  \/ DisableIn
  \/ EnableOut
  \/ EnableIn
  \/ DeleteStep
  \/ CopyStep
  \/ KillStep
  \/ EndsStep
  \/ MakeStep
  \/ AddStep
  \/ CleanupKill
  \/ CleanupDone

----------------------------------------------------------------------------
(* The instances.                                                          *)

\* An instance, killed or not, calls another server.
InstanceCalls(k, e) ==
  /\ e.gen <= inst[e.from] /\ e.from # e.to
  /\ CallEnd(k, e)
  /\ UNCHANGED <<testVars, cfgVars, persistVars>>

NetworkStep(k) ==
  /\ ProcessReq(k)
  /\ UNCHANGED <<testVars, cfgVars, persistVars>>

\* The handler makes its update and saves it in the Persister of its instance.
HandlerStep(k) ==
  /\ HandlerReturns(k)
  /\ disk' = [disk EXCEPT ![<<calls[k].end.to, calls[k].server>>] = @ \cup {k}]
  /\ UNCHANGED <<testVars, cfgVars, saved, shared>>

Next ==
  \/ MakeConfig
  \/ TestBegins
  \/ SetNetwork
  \/ TestStep
  \/ \E k \in Call, e \in End : InstanceCalls(k, e)
  \/ \E k \in Call : NetworkStep(k) \/ HandlerStep(k)

Spec == Init /\ [][Next]_vars

\* processReq runs on; so does a handler, but for one of a killed instance,
\* which may hang (RaftLock).  Nobody need call, and the test need not go on.
HandlerAlive(k) ==
  /\ Made(k)
  /\ <<calls[k].end.to, calls[k].server>> \notin killed
  /\ HandlerStep(k)

LiveSpec ==
  /\ Spec
  /\ \A k \in Call : WF_vars(NetworkStep(k)) /\ WF_vars(HandlerAlive(k))

----------------------------------------------------------------------------
Stage == {"none", "disableOut", "disableIn", "enableOut", "enableIn", "delete",
          "copy", "kill", "ends", "make", "add", "done"}

CallRec ==
  [pc : {"sent", "timer", "read", "wait", "dead", "reply", "delayed", "ok", "failed"},
   end : End, server : 0..MaxGen, reliable : BOOLEAN, late : BOOLEAN,
   handler : {"none", "running", "returned"}, cut : BOOLEAN]

NetType ==
  /\ enabled \subseteq End /\ servers \in [Server -> 0..MaxGen]
  /\ reliable \in BOOLEAN /\ longReordering \in BOOLEAN /\ done \in BOOLEAN
  /\ DOMAIN calls = Call
  /\ \A k \in Call : Made(k) => calls[k] \in CallRec

AtType ==
  at \in [op : {"idle", "crash1", "start1", "connect", "disconnect", "cleanup"},
          i : 0..N, stage : Stage, j : 0..N]

CfgType ==
  /\ connected \in [Server -> BOOLEAN]
  /\ gen \in [Server -> 0..MaxGen] /\ inst \in [Server -> 0..MaxGen]
  /\ killed \subseteq Server \X Gen

DiskType ==
  /\ disk \in [Server \X Gen -> SUBSET Call]
  /\ saved \in [Server -> SUBSET Call] /\ shared \in [Server -> BOOLEAN]

\* Every variable stays in its type, the indexes of the loops among them.
TypeOK ==
  /\ NetType
  /\ AtType
  /\ booted \in 0..2 * N /\ ops \in 0..MaxOps
  /\ CfgType
  /\ DiskType

\* cleanup has begun: it kills the servers and leaves them on the network.
Ended == \E i \in Server : servers[i] # 0 /\ <<i, servers[i]>> \in killed

\* An update that was acknowledged to the caller is in what the next instance
\* of the server will be made from, whenever the server crashes: "avoid
\* situation in which a client gets a positive reply to an Append, but the
\* server persisted the update into the old Persister" (processReq).
ReplyIsDurable ==
  \A k \in Call : calls[k].pc \in {"delayed", "ok"} => k \in SavedState(calls[k].end.to)

\* "so old instance doesn't overwrite new instance's persisted state" (start1):
\* only the running instance changes what the next one will be made from.
OldCannotSave ==
  [][\A i \in Server : SavedState(i)' = SavedState(i) \/ Running(i) \/ Ended]_vars

\* "so that old crashed instance's ClientEnds can't send" (start1): once an
\* instance has been killed, no request of its own reaches a handler.
KilledIsSilent ==
  [][\A k \in Call : calls[k].pc = "sent" /\ calls'[k].pc = "read" =>
       <<calls[k].end.from, calls[k].end.gen>> \notin killed \/ Ended]_vars

\* Between two operations of the test, messages can pass exactly between the
\* latest instances of the servers that are connected.
ConnectedIsEnabled ==
  at = Idle =>
    enabled = {e \in End : connected[e.from] /\ connected[e.to]
                             /\ e.gen = inst[e.from]}

\* On a reliable network a call fails only if its end was disabled or its
\* server was gone at some time during the call; never because a handler took
\* longer than the network's 100 ms.
NoSpuriousFailure ==
  \A k \in Call : calls[k].pc = "failed" =>
    calls[k].cut \/ ~calls[k].reliable \/ done

\* Until the test ends every call returns, though the handlers of a killed
\* instance may hang.
CallReturns == \A k \in Call : calls[k].pc = "sent" ~> Returned(k) \/ Ended
----------------------------------------------------------------------------
(* Why the first three hold: an inductive invariant, proved in             *)
(* RaftHarnessProofs.                                                      *)

\* The stages that an operation has, and what its server and index are then.
StageOK ==
  /\ (at.stage = "none") <=> (at = Idle)
  /\ at # Idle => at.i \in Server /\ ~done
  /\ at.stage \in {"disableOut", "disableIn", "enableOut", "enableIn"} => at.j \in Server
  /\ at.stage \in {"disableOut", "disableIn"} =>
       at.op \in {"crash1", "start1", "disconnect"}
  /\ at.stage \in {"delete", "copy"} => at.op \in {"crash1", "start1"}
  /\ at.stage \in {"ends", "make", "add"} => at.op = "start1"
  /\ at.stage \in {"enableOut", "enableIn"} => at.op = "connect"
  /\ at.stage = "kill" => at.op \in {"crash1", "start1", "cleanup"}
  /\ at.stage = "done" => at.op = "cleanup"

\* Server i has been deleted and is not yet back.
Gone(i) ==
  /\ at.i = i /\ at.op # "cleanup"
  /\ at.stage \in {"copy", "kill", "ends", "make", "add"}

\* The server on the network is the latest instance, and it has cfg.saved[i].
\* No instance that has been killed has cfg.saved[i], until the test ends.
ServersOK ==
  /\ Ended => at.op = "cleanup" \/ done
  /\ \A p \in killed : p[2] <= inst[p[1]]
  /\ at.op = "start1" /\ at.stage \notin {"make", "add"} => gen[at.i] < MaxGen
  /\ \A i \in Server :
       /\ gen[i] = IF at.i = i /\ at.stage = "make" THEN inst[i] + 1 ELSE inst[i]
       /\ shared[i] => inst[i] # 0 /\ (Running(i) \/ Ended)
       /\ servers[i] # 0 => servers[i] = inst[i] /\ shared[i]
       /\ Gone(i) => servers[i] = 0
       /\ Gone(i) /\ at.stage # "copy" => (shared[i] <=> at.stage = "add")
       /\ ~Gone(i) /\ shared[i] => servers[i] = inst[i]
       /\ Running(i) => shared[i] \/ Gone(i)

\* make_config has started the servers it connects.
BootOK ==
  booted < 2 * N =>
    /\ at.op \in {"idle", "start1", "connect"}
    /\ at.op = "start1" => at.i = booted
    /\ at.op = "connect" => booted > N
    /\ \A i \in Server : i <= booted => Running(i) \/ (at.op = "start1" /\ at.i = i)

\* Server i is being disconnected, crashed or started.
Leaving(i) ==
  at.i = i /\ at.op \in {"crash1", "start1", "disconnect"}

\* An end that is enabled is one of a running instance.
EnabledOK ==
  /\ \A i \in Server : connected[i] => ~Leaving(i) /\ (Running(i) \/ Ended)
  /\ at.op = "connect" => connected[at.i]
  /\ \A e \in enabled :
       /\ e.gen = inst[e.from] /\ (Running(e.from) \/ Ended)
       /\ Leaving(e.from) => at.stage = "disableOut" /\ e.to >= at.j

\* What a handler has returned its instance has saved.
CallsOK ==
  \A k \in Call : Made(k) =>
    /\ calls[k].server <= inst[calls[k].end.to]
    /\ calls[k].pc = "sent" => calls[k].handler = "none"
    /\ calls[k].pc = "read" => calls[k].server # 0
    /\ calls[k].handler # "none" => calls[k].server # 0
    /\ calls[k].handler = "returned" =>
         k \in disk[<<calls[k].end.to, calls[k].server>>]
    /\ calls[k].pc = "reply" => calls[k].handler = "returned"

HarnessInv ==
  /\ TypeOK
  /\ StageOK
  /\ ServersOK
  /\ BootOK
  /\ EnabledOK
  /\ CallsOK
  /\ ReplyIsDurable
============================================================================
