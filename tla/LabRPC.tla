------------------------------- MODULE LabRPC -------------------------------
(***************************************************************************)
(* The network of src/labrpc/labrpc.go.  A Call hands its request to the   *)
(* network and waits.  processReq, a goroutine of its own for every        *)
(* request, looks up the server, sleeps, runs the handler in yet another   *)
(* goroutine, and looks at the end and at the server again before it       *)
(* answers.  Meanwhile ends are enabled and disabled, and servers are      *)
(* deleted and replaced.                                                   *)
(***************************************************************************)
EXTENDS Naturals

CONSTANTS
  N,              \* servers
  Call,           \* the calls, each of which asks for one update
  MaxGen          \* bound: instances of a server

VARIABLES
  enabled,        \* rn.enabled: the ends that are
  servers,        \* rn.servers: the instance behind a name; 0: nil
  reliable, longReordering,
  done,           \* is rn.done closed?
  calls

netVars == <<enabled, servers, reliable, longReordering, done>>
rpcVars == <<netVars, calls>>

Server == 1..N
Gen == 1..MaxGen

\* The ends that an instance uses have names of their own (randstring), and an
\* end is connected to one server for its lifetime.
End == [from : Server, gen : Gen, to : Server]

\* end: the end that is called; server: the instance that readEndnameInfo
\* found; reliable, late: what it read; handler: the goroutine that runs
\* dispatch.  cut is history: the end was disabled, or its server absent, at
\* some time during the call.
NotMade == [pc |-> "idle"]
Made(k) == calls[k].pc # "idle"
Returned(k) == calls[k].pc \in {"ok", "failed"}
Active(k) == Made(k) /\ ~Returned(k)

NetInit ==
  /\ enabled = {}
  /\ servers = [i \in Server |-> 0]
  /\ reliable \in BOOLEAN
  /\ longReordering = FALSE
  /\ done = FALSE
  /\ calls = [k \in Call |-> NotMade]

----------------------------------------------------------------------------
(* What the owner of the network does.                                     *)

\* Every call on one of these ends has been cut off.
CutCalls(E) ==
  calls' = [k \in Call |-> IF Active(k) /\ calls[k].end \in E
                           THEN [calls[k] EXCEPT !.cut = TRUE] ELSE calls[k]]

\* Enable, with true and with false.
Enable(E) ==
  /\ enabled' = enabled \cup E
  /\ UNCHANGED <<servers, reliable, longReordering, done, calls>>

Disable(E) ==
  /\ enabled' = enabled \ E
  /\ CutCalls(E)
  /\ UNCHANGED <<servers, reliable, longReordering, done>>

AddServer(i, g) ==
  /\ servers' = [servers EXCEPT ![i] = g]
  /\ UNCHANGED <<enabled, reliable, longReordering, done, calls>>

DeleteServer(i) ==
  /\ servers' = [servers EXCEPT ![i] = 0]
  /\ CutCalls({e \in End : e.to = i})
  /\ UNCHANGED <<enabled, reliable, longReordering, done>>

Reliable(yes) ==
  /\ reliable' = yes
  /\ UNCHANGED <<enabled, servers, longReordering, done, calls>>

LongReordering(yes) ==
  /\ longReordering' = yes
  /\ UNCHANGED <<enabled, servers, reliable, done, calls>>

Cleanup ==
  /\ done' = TRUE
  /\ UNCHANGED <<enabled, servers, reliable, longReordering, calls>>

----------------------------------------------------------------------------
(* Calls.                                                                  *)

At(k, pc) == calls[k].pc = pc

Go(k, pc) == calls' = [calls EXCEPT ![k].pc = pc] /\ UNCHANGED netVars

\* Call, up to the send; or its return when the network has been destroyed.
\* Once done is closed, either case of its select may be taken.
CallEnd(k, e) ==
  /\ At(k, "idle")
  /\ \E pc \in {"sent", "failed"} :
       /\ pc = "failed" => done
       /\ calls' = [calls EXCEPT ![k] =
            [pc |-> pc, end |-> e, server |-> 0, reliable |-> TRUE,
             late |-> FALSE, handler |-> "none",
             cut |-> e \notin enabled \/ servers[e.to] = 0]]
  /\ UNCHANGED netVars

\* The network's goroutine has received the request and processReq reads what
\* it needs to know, once.
ReadEndnameInfo(k) ==
  LET e == calls[k].end
  IN  /\ At(k, "sent")
      /\ IF e \in enabled /\ servers[e.to] # 0
         THEN calls' = [calls EXCEPT ![k].pc = "read",
                          ![k].server = servers[e.to], ![k].reliable = reliable,
                          ![k].late = longReordering]
         ELSE calls' = [calls EXCEPT ![k].pc = "timer"]
      /\ UNCHANGED netVars

\* The time of a request that had nowhere to go is over.
Timer(k) == At(k, "timer") /\ Go(k, "failed")

DropRequest(k) == At(k, "read") /\ ~calls[k].reliable /\ Go(k, "failed")

\* go func() { ech <- server.dispatch(req) }
Dispatch(k) ==
  /\ At(k, "read")
  /\ calls' = [calls EXCEPT ![k].pc = "wait", ![k].handler = "running"]
  /\ UNCHANGED netVars

\* The handler has made its update; its goroutine sends the reply on ech.
HandlerReturns(k) ==
  /\ Made(k) /\ calls[k].handler = "running"
  /\ calls' = [calls EXCEPT ![k].handler = "returned"]
  /\ UNCHANGED netVars

ReceiveReply(k) == At(k, "wait") /\ calls[k].handler = "returned" /\ Go(k, "reply")

IsServerDead(k) ==
  \/ calls[k].end \notin enabled
  \/ servers[calls[k].end.to] # calls[k].server

\* Mutant: the wait ends with the handler only.
Poll_Never(k) ==
  /\ At(k, "wait")
  /\ FALSE
  /\ Go(k, "dead")

\* Mutant: the wait ends after 100 ms.
Poll_GivesUp(k) ==
  /\ At(k, "wait")
  /\ Go(k, "dead")

\* 100 ms have passed without a reply.  Otherwise the loop goes on waiting.
Poll(k) ==
  /\ At(k, "wait")
  /\ IsServerDead(k)
  /\ Go(k, "dead")

\* Mutant: the server is not looked at again once there is a reply.
Answer_Unchecked(k) ==
  \/ At(k, "dead") /\ Go(k, "failed")
  \/ At(k, "reply") /\ Go(k, "ok")

\* The test after the wait, and what is left to do then.
Answer(k) ==
  \/ At(k, "dead") /\ Go(k, "failed")
  \/ /\ At(k, "reply")
     /\ \/ IsServerDead(k) /\ Go(k, "failed")
        \/ ~IsServerDead(k) /\ ~calls[k].reliable /\ Go(k, "failed")
        \/ ~IsServerDead(k) /\ calls[k].late /\ Go(k, "delayed")
        \/ ~IsServerDead(k) /\ Go(k, "ok")

DelayedAnswer(k) == At(k, "delayed") /\ Go(k, "ok")

ProcessReq(k) ==
  \/ ReadEndnameInfo(k)
  \/ Timer(k)
  \/ DropRequest(k)
  \/ Dispatch(k)
  \/ ReceiveReply(k)
  \/ Poll(k)
  \/ Answer(k)
  \/ DelayedAnswer(k)

============================================================================
