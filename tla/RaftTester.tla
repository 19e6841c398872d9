----------------------------- MODULE RaftTester -----------------------------
(***************************************************************************)
(* The tester of src/raft/config.go, over peers that keep the promises of  *)
(* RaftService: the goroutines that read each applyCh and compare what the *)
(* servers apply, one, which submits a command and waits for agreement, and*)
(* checkOneLeader.                                                         *)
(*                                                                         *)
(* one and checkOneLeader ask the servers one after another while these go *)
(* on, so what they put together is no state the system was ever in.       *)
(*                                                                         *)
(* A faulty Raft is here too, which applies any started command anywhere:  *)
(* the tester must find it out.  Fatalf ends the test.                     *)
(***************************************************************************)
EXTENDS RaftService

CONSTANTS
  Mine,           \* the attempts of one to submit its command; any other
                  \* command comes from another goroutine of the test
  Expected,       \* expectedServers of one
  MaxIndex,       \* bound: indexes
  MaxRestart      \* bound: restarts

ASSUME TesterAssumption ==
  /\ IsFiniteSet(Server)
  /\ Mine \subseteq Command
  /\ Term \subseteq Nat \ {0}
  /\ Expected \in Nat \ {0}
  /\ MaxIndex \in Nat /\ MaxRestart \in Nat

VARIABLES
  faulty,         \* is this Raft the faulty one?
  hand,           \* what the appliers have received and not yet recorded
  logs,           \* cfg.logs
  heard,          \* history: what the appliers have recorded
  failed,         \* the Fatalf calls that have been made
  index,          \* where one waits for its command; 0: nowhere
  returned,       \* the index that one has returned; 0: none yet
  toAsk, seen,    \* checkOneLeader: servers left to ask, leaders among the rest
  restarts

applierVars == <<hand, logs, heard>>
oneVars == <<index, returned>>
askVars == <<toAsk, seen>>
testVars == <<faulty, applierVars, failed, oneVars, askVars, restarts>>
vars == <<svcVars, testVars>>

Entry == [index : 1..MaxIndex, command : Command]

\* make_config.
TestInit ==
  /\ Init
  /\ faulty \in BOOLEAN
  /\ hand = {}
  /\ logs = [i \in Server |-> {}]
  /\ heard = {}
  /\ failed = {}
  /\ index = 0 /\ returned = 0
  /\ toAsk = {} /\ seen = {}
  /\ restarts = 0

Testing == failed = {}

----------------------------------------------------------------------------
(* The appliers.                                                           *)

\* A server sends its next command on applyCh, which is unbuffered: its
\* applier is back from recording the one before.
Send(i, c) ==
  /\ Testing
  /\ applied[i] < MaxIndex
  /\ \A m \in hand : m.server = i => m.old
  /\ hand' = hand \cup {[server |-> i, index |-> applied[i] + 1, command |-> c,
                         old |-> FALSE]}
  /\ UNCHANGED <<faulty, logs, heard, failed, oneVars, askVars, restarts>>

TestApply(i) ==
  /\ ~faulty
  /\ Apply(i)
  /\ Send(i, agreed'[applied[i] + 1])

FaultyApply(i, c) ==
  /\ faulty
  /\ c \in started
  /\ Send(i, c)
  /\ applied' = [applied EXCEPT ![i] = @ + 1]
  /\ UNCHANGED <<agreed, started, office, leads>>

Recorded(i, k) == \E e \in logs[i] : e.index = k

\* Mutant: a server is compared with the others only.
CheckLogs_OthersOnly(m) ==
  /\ \A j \in Server \ {m.server} : \A e \in logs[j] :
       e.index = m.index => e.command = m.command
  /\ m.index > 1 => Recorded(m.server, m.index - 1)

\* checkLogs, and applier's test of the order.
CheckLogs(m) ==
  /\ \A j \in Server : \A e \in logs[j] :
       e.index = m.index => e.command = m.command
  /\ m.index > 1 => Recorded(m.server, m.index - 1)

\* A turn of applier.
Applier(m) ==
  LET e == [index |-> m.index, command |-> m.command]
  IN  /\ Testing
      /\ failed' = IF CheckLogs(m) THEN {} ELSE {"apply error"}
      /\ logs' = [logs EXCEPT ![m.server] = {f \in @ : f.index # m.index} \cup {e}]
      /\ heard' = heard \cup {e}
      /\ hand' = hand \ {m}
      /\ UNCHANGED <<svcVars, faulty, oneVars, askVars, restarts>>

\* Mutant: start1 also empties cfg.logs.
TestRestart_Empties(i) ==
  /\ Testing
  /\ restarts < MaxRestart
  /\ restarts' = restarts + 1
  /\ Restart(i)
  /\ hand' = {[m EXCEPT !.old = @ \/ m.server = i] : m \in hand}
  /\ logs' = [logs EXCEPT ![i] = {}]
  /\ UNCHANGED <<faulty, heard, failed, oneVars, askVars>>

\* crash1 and start1.  The old applier goes on beside the new one.
TestRestart(i) ==
  /\ Testing
  /\ restarts < MaxRestart
  /\ restarts' = restarts + 1
  /\ Restart(i)
  /\ hand' = {[m EXCEPT !.old = @ \/ m.server = i] : m \in hand}
  /\ UNCHANGED <<faulty, logs, heard, failed, oneVars, askVars>>

----------------------------------------------------------------------------
(* one, and the other goroutines that call Start.                          *)

\* one has come to a server that takes itself for the leader.  The index is
\* one that this server has not applied.
OneStart(i, c, k) ==
  /\ Testing
  /\ index = 0 /\ returned = 0
  /\ c \in Mine
  /\ Start(i, c)
  /\ k > applied[i]
  /\ index' = k
  /\ UNCHANGED <<faulty, applierVars, failed, returned, askVars, restarts>>

OtherStart(i, c) ==
  /\ Testing
  /\ c \notin Mine
  /\ Start(i, c)
  /\ UNCHANGED testVars

\* nCommitted: the servers in S had recorded the index when it came to them;
\* others may have recorded it since.
NCommitted(S) ==
  {e.command : e \in {f \in UNION {logs[i] : i \in S} : f.index = index}}

\* Mutant: one does not ask whether the command is its own.
OneReturn_AnyCommand(S) ==
  /\ Testing
  /\ index # 0
  /\ \A i \in S : Recorded(i, index)
  /\ Cardinality(S) >= Expected
  /\ failed' = IF Cardinality(NCommitted(S)) > 1 THEN {"do not match"} ELSE {}
  /\ returned' = index
  /\ index' = 0
  /\ UNCHANGED <<svcVars, faulty, applierVars, askVars, restarts>>

\* The turn of the loop that returns.
OneReturn(S) ==
  /\ Testing
  /\ index # 0
  /\ \A i \in S : Recorded(i, index)
  /\ Cardinality(S) >= Expected
  /\ NCommitted(S) \cap Mine # {}
  /\ failed' = IF Cardinality(NCommitted(S)) > 1 THEN {"do not match"} ELSE {}
  /\ returned' = index
  /\ index' = 0
  /\ UNCHANGED <<svcVars, faulty, applierVars, askVars, restarts>>

\* Two seconds are over: the command is submitted again (retry).
OneTimeout ==
  /\ Testing
  /\ index # 0
  /\ index' = 0
  /\ UNCHANGED <<svcVars, faulty, applierVars, failed, returned, askVars,
                 restarts>>

----------------------------------------------------------------------------
(* checkOneLeader.                                                         *)

AskAll ==
  /\ Testing
  /\ toAsk = {}
  /\ toAsk' = Server
  /\ seen' = {}
  /\ UNCHANGED <<svcVars, faulty, applierVars, failed, oneVars, restarts>>

\* GetState of the next server; after the last, the count for each term.
GetState(i) ==
  /\ Testing
  /\ i \in toAsk
  /\ toAsk' = toAsk \ {i}
  /\ seen' = IF leads[i] # 0
             THEN seen \cup {[term |-> leads[i], server |-> i]} ELSE seen
  /\ failed' = IF /\ toAsk' = {}
                  /\ \E l, m \in seen' : l.term = m.term /\ l.server # m.server
               THEN {"leaders"} ELSE {}
  /\ UNCHANGED <<svcVars, faulty, applierVars, oneVars, restarts>>

TestElect(i, t) == Testing /\ Elect(i, t) /\ UNCHANGED testVars

TestDepose(i) == Testing /\ Depose(i) /\ UNCHANGED testVars

----------------------------------------------------------------------------
TestNext ==
  \/ \E i \in Server : TestApply(i)
  \/ \E i \in Server, c \in Command : FaultyApply(i, c)
  \/ \E m \in hand : Applier(m)
  \/ \E i \in Server : TestRestart(i)
  \/ \E i \in Server, c \in Command, k \in 1..MaxIndex : OneStart(i, c, k)
  \/ \E i \in Server, c \in Command : OtherStart(i, c)
  \/ \E S \in SUBSET Server : OneReturn(S)
  \/ OneTimeout
  \/ AskAll
  \/ \E i \in Server : GetState(i)
  \/ \E i \in Server, t \in Term : TestElect(i, t)
  \/ \E i \in Server : TestDepose(i)

TestSpec == TestInit /\ [][TestNext]_vars

----------------------------------------------------------------------------
\* Every variable stays in its type, and an applier has one message at most.
TypeOK ==
  /\ agreed \in Seq(Command)
  /\ applied \in [Server -> Nat]
  /\ started \subseteq Command
  /\ office \subseteq [term : Term, server : Server]
  /\ leads \in [Server -> Term \cup {0}]
  /\ faulty \in BOOLEAN
  /\ hand \subseteq [server : Server, index : 1..MaxIndex, command : Command,
                     old : BOOLEAN]
  /\ logs \in [Server -> SUBSET Entry]
  /\ heard \subseteq Entry
  /\ index \in 0..MaxIndex /\ returned \in 0..MaxIndex
  /\ toAsk \subseteq Server
  /\ seen \subseteq [term : Term, server : Server]
  /\ restarts \in 0..MaxRestart
  /\ \A m, n \in hand : m.server = n.server /\ ~m.old /\ ~n.old => m = n

\* The tester never fails a Raft that keeps its promises: not because the old
\* applier of a restarted server records beside the new one, nor because
\* checkOneLeader asks two servers at different times.
NoFalseAlarm == ~faulty => failed = {}

\* Whatever Raft does: two commands recorded for one index, by two servers or
\* by one before and after a restart, fail the test.
NoMissedDivergence ==
  \A d, e \in heard : d.index = e.index /\ d.command # e.command => failed # {}

\* What one returns is an index at which its own command has been agreed on,
\* and which as many servers as expected have recorded, though it counts them
\* one after another and may have submitted the command several times.
OneAgreed ==
  ~faulty /\ returned # 0 =>
    /\ returned <= Len(agreed)
    /\ agreed[returned] \in Mine
    /\ Cardinality({i \in Server : Recorded(i, returned)}) >= Expected
----------------------------------------------------------------------------
(* Why these hold: an inductive invariant, proved in RaftTesterProofs.     *)

\* An entry says what has been agreed on.
Right(e) == e.index <= Len(agreed) /\ e.command = agreed[e.index]

\* What appliers have and what they have recorded is what has been agreed on.
EntriesRight ==
  /\ \A i \in Server : applied[i] <= Len(agreed)
  /\ \A m \in hand : Right(m)
  /\ \A i \in Server : \A e \in logs[i] : Right(e)

\* Whatever a server has applied is recorded, but for what its applier has in
\* hand; and an applier, old or new, has recorded what came before that.
NoGaps ==
  /\ \A i \in Server : \A k \in 1..applied[i] :
       \/ Recorded(i, k)
       \/ \E m \in hand : m.server = i /\ ~m.old /\ m.index = k
  /\ \A m \in hand : m.index > 1 => Recorded(m.server, m.index - 1)

\* Whoever is seen as a leader has been elected, and no other in that term.
SeenElected ==
  /\ \A i \in Server : leads[i] # 0 => [term |-> leads[i], server |-> i] \in office
  /\ seen \subseteq office
  /\ \A o, p \in office : o.term = p.term => o.server = p.server

\* As long as the test goes on, everything recorded is in some log, and no two
\* records disagree.
HeardAgree ==
  failed = {} =>
    /\ \A e \in heard : \E j \in Server : e \in logs[j]
    /\ \A d, e \in heard : d.index = e.index => d.command = e.command
    /\ \A i \in Server : logs[i] \subseteq heard

TesterInv ==
  /\ TypeOK
  /\ ~faulty => EntriesRight /\ NoGaps /\ NoFalseAlarm
  /\ SeenElected
  /\ HeardAgree
  /\ OneAgreed
============================================================================
