------------------------------ MODULE RaftLock ------------------------------
(***************************************************************************)
(* How the goroutines of one Raft peer (src/raft/raft.go) wait for each    *)
(* other: the mutex rf.mu, the unbuffered channel rf.heartbeatC and the    *)
(* ticker that receives from it.                                           *)
(*                                                                         *)
(* becomeFollower sends on heartbeatC while its caller holds rf.mu, so     *)
(* every use of the peer waits until the ticker is back at its select.     *)
(* Critical sections that send nothing cannot block and are one step.      *)
(***************************************************************************)
EXTENDS Naturals, FiniteSets

CONSTANTS
  Call,        \* calls into the peer at the same time
  Elect,       \* goroutines of election at the same time
  Free         \* rf.mu is not held

ASSUME LockAssumption ==
  /\ Free \notin Call
  /\ Call \cap Elect = {}

VARIABLES
  mu,          \* the call that holds rf.mu
  role,        \* rf.state
  killed,      \* rf.dead
  ticker,      \* where the ticker is: at its loop head, its select, or gone
  pc,          \* where each call and each goroutine of election is
  kind,        \* what each call does
  sends        \* how often a call still sends on heartbeatC

vars == <<mu, role, killed, ticker, pc, kind, sends>>

\* Start and the handlers that refuse; the collector of an election that has
\* its votes; whoever calls becomeFollower; AppendEntries on a heartbeat,
\* which sends once more after becomeFollower.
Kind == {"Start", "Collect", "Follow", "Heartbeat"}
SendsOf(k) == IF k = "Heartbeat" THEN 2 ELSE IF k = "Follow" THEN 1 ELSE 0

Init ==
  /\ mu = Free
  /\ role = "Follower"
  /\ killed = FALSE
  /\ ticker = "loop"
  /\ pc = [p \in Call \cup Elect |-> "idle"]
  /\ kind = [c \in Call |-> "Start"]
  /\ sends = [c \in Call |-> 0]

\* A call arrives and waits for rf.mu; the collector of election has asked
\* killed before.
Invoke(c, k) ==
  /\ pc[c] = "idle"
  /\ k = "Collect" => ~killed
  /\ pc' = [pc EXCEPT ![c] = "lock"]
  /\ kind' = [kind EXCEPT ![c] = k]
  /\ sends' = [sends EXCEPT ![c] = SendsOf(k)]
  /\ UNCHANGED <<mu, role, killed, ticker>>

\* A call that sends nothing: it locks, reads or appends, and unlocks.
Start(c) ==
  /\ pc[c] = "lock" /\ kind[c] = "Start"
  /\ mu = Free
  /\ pc' = [pc EXCEPT ![c] = "idle"]
  /\ UNCHANGED <<mu, role, killed, ticker, kind, sends>>

\* The collector of election.
Collect(c) ==
  /\ pc[c] = "lock" /\ kind[c] = "Collect"
  /\ mu = Free
  /\ role' = IF role = "Candidate" THEN "Leader" ELSE role
  /\ pc' = [pc EXCEPT ![c] = "idle"]
  /\ UNCHANGED <<mu, killed, ticker, kind, sends>>

Lock(c) ==
  /\ pc[c] = "lock" /\ sends[c] > 0
  /\ mu = Free
  /\ mu' = c
  /\ pc' = [pc EXCEPT ![c] = "send"]
  /\ UNCHANGED <<role, killed, ticker, kind, sends>>

\* Mutant: heartbeatC counts a send that is not there.
HeartbeatC_Extra(c) ==
  /\ pc[c] = "send"
  /\ ticker = "select"
  /\ ticker' = "loop"
  /\ sends' = [sends EXCEPT ![c] = @ - 1]
  /\ UNCHANGED <<mu, role, killed, pc, kind>>

\* A send on heartbeatC meets the ticker at its select.  The first send of a
\* call is the one of becomeFollower, which then changes rf.state.
HeartbeatC(c) ==
  /\ pc[c] = "send" /\ sends[c] > 0
  /\ ticker = "select"
  /\ ticker' = "loop"
  /\ sends' = [sends EXCEPT ![c] = @ - 1]
  /\ IF sends[c] = SendsOf(kind[c])
     THEN role' = "Follower"
     ELSE UNCHANGED role
  /\ UNCHANGED <<mu, killed, pc, kind>>

\* The deferred Unlock.
Unlock(c) ==
  /\ pc[c] = "send" /\ sends[c] = 0
  /\ mu' = Free
  /\ pc' = [pc EXCEPT ![c] = "idle"]
  /\ UNCHANGED <<role, killed, ticker, kind, sends>>

\* Mutant: the ticker does not ask killed.
TickerLoop_Forever ==
  /\ ticker = "loop"
  /\ ticker' = "select"
  /\ UNCHANGED <<mu, role, killed, pc, kind, sends>>

\* The head of the ticker's loop.
TickerLoop ==
  /\ ticker = "loop"
  /\ ticker' = IF killed THEN "gone" ELSE "select"
  /\ UNCHANGED <<mu, role, killed, pc, kind, sends>>

\* The election timer fires: `go rf.election()'.
Timeout(e) ==
  /\ ticker = "select"
  /\ pc[e] = "idle"
  /\ ticker' = "loop"
  /\ pc' = [pc EXCEPT ![e] = "test"]
  /\ UNCHANGED <<mu, role, killed, kind, sends>>

\* Mutant: on a leader the goroutine tests again and again for a return.
ElectionTest_Again(e) ==
  /\ pc[e] = "test"
  /\ killed \/ mu = Free
  /\ pc' = [pc EXCEPT ![e] = IF killed THEN "idle"
                            ELSE IF role = "Leader" THEN "test" ELSE "lock"]
  /\ UNCHANGED <<mu, role, killed, ticker, kind, sends>>

\* election's test of killed and of isTargetState(Leader), which takes and
\* releases rf.mu.
ElectionTest(e) ==
  /\ pc[e] = "test"
  /\ killed \/ mu = Free
  /\ pc' = [pc EXCEPT ![e] = IF killed \/ role = "Leader" THEN "idle" ELSE "lock"]
  /\ UNCHANGED <<mu, role, killed, ticker, kind, sends>>

\* becomeCandidate, whatever rf.state is by now.
Campaign(e) ==
  /\ pc[e] = "lock"
  /\ mu = Free
  /\ role' = "Candidate"
  /\ pc' = [pc EXCEPT ![e] = "idle"]
  /\ UNCHANGED <<mu, killed, ticker, kind, sends>>

Kill ==
  /\ ~killed
  /\ killed' = TRUE
  /\ UNCHANGED <<mu, role, ticker, pc, kind, sends>>

Next ==
  \/ \E c \in Call, k \in Kind : Invoke(c, k)
  \/ \E c \in Call : Start(c)
  \/ \E c \in Call : Collect(c)
  \/ \E c \in Call : Lock(c)
  \/ \E c \in Call : HeartbeatC(c)
  \/ \E c \in Call : Unlock(c)
  \/ TickerLoop
  \/ \E e \in Elect : Timeout(e)
  \/ \E e \in Elect : ElectionTest(e)
  \/ \E e \in Elect : Campaign(e)
  \/ Kill

\* A Go mutex hands itself to whoever has waited longest, so a goroutine that
\* waits for rf.mu gets it if it is released again and again; a select whose
\* channel has a sender does not wait for its timer, and the timer of a select
\* fires in the end.  Nothing is assumed of calls or of Kill.
Fairness ==
  /\ WF_vars(TickerLoop)
  /\ WF_vars(\E e \in Elect : Timeout(e))
  /\ \A c \in Call : /\ SF_vars(Start(c) \/ Collect(c) \/ Lock(c))
                     /\ SF_vars(HeartbeatC(c) \/ Unlock(c))
  /\ \A e \in Elect : SF_vars(ElectionTest(e) \/ Campaign(e))

Spec == Init /\ [][Next]_vars

LiveSpec == Spec /\ Fairness

----------------------------------------------------------------------------
\* Every variable stays in its type, and only a call that has something to
\* send holds rf.mu between two steps.
TypeOK ==
  /\ mu \in Call \cup {Free}
  /\ role \in {"Follower", "Candidate", "Leader"}
  /\ killed \in BOOLEAN
  /\ ticker \in {"loop", "select", "gone"}
  /\ pc \in [Call \cup Elect -> {"idle", "test", "lock", "send"}]
  /\ kind \in [Call -> Kind]
  /\ sends \in [Call -> 0..2]
  /\ \A c \in Call : pc[c] = "send" <=> mu = c

\* While nobody kills the peer, every call into it returns, and every election
\* goroutine ends: the sends of becomeFollower and of AppendEntries under rf.mu
\* always find the ticker again.
CallsReturn ==
  \A p \in Call \cup Elect : pc[p] # "idle" ~> (pc[p] = "idle" \/ killed)

\* The ticker of a killed peer ends, whoever is blocked on heartbeatC (the
\* comment on Kill: a long-running loop should stop).
TickerStops == killed ~> ticker = "gone"

\* Start returns, on a killed peer too (the comment on Start).
StartReturns ==
  \A c \in Call :
    (pc[c] = "lock" /\ kind[c] = "Start") ~> pc[c] = "idle"
============================================================================
