-------------------------------- MODULE Raft --------------------------------
(***************************************************************************)
(* The Raft peers of src/raft/raft.go: elections, replication, commit,     *)
(* apply, persistence and restarts.                                        *)
(*                                                                         *)
(* One action is one critical section of rf.mu.  A goroutine that takes    *)
(* the lock several times is a record that carries, between its critical   *)
(* sections, the local variables it read in the earlier ones: the          *)
(* goroutines of appendEntries and of heartbeat act on a term, a commit    *)
(* index and a log length that may be out of date.                         *)
(*                                                                         *)
(* The network is labrpc.  A call is retried until it is answered, its     *)
(* answer may be lost after the handler ran, and calls overtake each       *)
(* other; so requests and answers are sets that only grow, and a handler   *)
(* may run on any request ever sent, any number of times.                  *)
(*                                                                         *)
(* The service never calls Snapshot here, so rf.X = 0 throughout.          *)
(***************************************************************************)
EXTENDS RaftLog

CONSTANTS
  Server,           \* the peers
  Nil,              \* votedFor = -1
  MaxElection,      \* bound: elections, over all servers
  MaxRestart,       \* bound: restarts, over all servers
  MaxBeat           \* bound: heartbeat rounds of a server at the same time

Follower == "Follower"
Candidate == "Candidate"
Leader == "Leader"

ASSUME ServerAssumption == IsFiniteSet(Server) /\ Nil \notin Server
ASSUME BoundAssumption ==
  /\ MaxElection \in Nat
  /\ MaxRestart \in Nat
  /\ MaxBeat \in Nat

VARIABLES
  currentTerm, votedFor, state, log,   \* the fields of the same name
  stale,        \* what the backing array of log holds past its end
  persisted,    \* the persister's copy of currentTerm, votedFor and log
  commitIndex, lastApplied,
  nextIndex     \* NoNext until the first becomeLeader of a run

VARIABLES
  votes,        \* the server itself and the votes its current election counted
  broadcasts,   \* broadcastLogs goroutines that have not run yet
  appenders,    \* the per-peer goroutines of appendEntries
  acks,         \* the successes that the rounds of appendEntries collected
  beats         \* what the running heartbeat goroutines read: term, commitIndex

VARIABLES
  voteReq, voteRep, appReq, appRep   \* every RPC request and answer ever sent

VARIABLES
  delivered,    \* history: every [index, command] sent on an applyCh
  elections,    \* history: every becomeLeader, with the votes behind it
  started,      \* commands that clients have passed to Start
  restarts

electionVars == <<votes, elections>>
leaderVars == <<nextIndex, broadcasts, appenders, acks, beats>>
applyVars == <<commitIndex, lastApplied, delivered>>
logVars == <<log, stale>>
termVars == <<currentTerm, votedFor, state, persisted>>
voteMsgs == <<voteReq, voteRep>>
appMsgs == <<appReq, appRep>>
clientVars == <<started, restarts>>
vars == <<termVars, logVars, applyVars, electionVars, leaderVars,
          voteMsgs, appMsgs, clientVars>>

Peers(i) == Server \ {i}

\* Mutant: one vote too few.
IsMajority_Fewer(others) == Cardinality(others) + 1 >= Cardinality(Server) \div 2

\* count >= len(rf.peers)/2, where count does not include the server itself.
IsMajority(others) == Cardinality(others) >= Cardinality(Server) \div 2

NoNext == [p \in Server |-> 0]

\* The start of an appender that has not read nextIndex yet.
Unread == -1

----------------------------------------------------------------------------
(* The messages and the goroutines.                                        *)

VoteRequest == [term : Nat, candidateId : Server,
                lastLogTerm : Nat, lastLogIndex : Nat]
VoteReply == [candidateId : Server, reqTerm : Nat, voter : Server,
              term : Nat, granted : BOOLEAN]
AppendRequest == [term : Nat, leaderId : Server, peer : Server,
                  prevLogIndex : Nat, prevLogTerm : Nat,
                  entries : Seq(Entry), leaderCommit : Nat,
                  caller : {"appender", "heartbeat"}]
AppendReply == [req : AppendRequest, term : Nat, success : BOOLEAN,
                xLen : Nat, xTerm : Nat, xIndex : Nat]
Appender == [peer : Server, term : Nat, leaderCommit : Nat, end : Nat,
             round : Nat, start : Int]
Ack == [peer : Server, term : Nat, leaderCommit : Nat, end : Nat, round : Nat]
Beat == [term : Nat, commitIndex : Nat]
Saved == [currentTerm : Nat, votedFor : Server \cup {Nil}, log : Seq(Entry)]

----------------------------------------------------------------------------
\* Make on an empty persister, for every server.
Init ==
  /\ currentTerm = [i \in Server |-> 0]
  /\ votedFor = [i \in Server |-> Nil]
  /\ state = [i \in Server |-> Follower]
  /\ log = [i \in Server |-> << >>]
  /\ stale = [i \in Server |-> << >>]
  /\ persisted = [i \in Server |->
                    [currentTerm |-> 0, votedFor |-> Nil, log |-> << >>]]
  /\ commitIndex = [i \in Server |-> 0]
  /\ lastApplied = [i \in Server |-> 0]
  /\ nextIndex = [i \in Server |-> NoNext]
  /\ votes = [i \in Server |-> {}]
  /\ broadcasts = [i \in Server |-> 0]
  /\ appenders = [i \in Server |-> {}]
  /\ acks = [i \in Server |-> {}]
  /\ beats = [i \in Server |-> {}]
  /\ voteReq = {} /\ voteRep = {} /\ appReq = {} /\ appRep = {}
  /\ delivered = {}
  /\ elections = {}
  /\ started = {}
  /\ restarts = 0

\* Mutants: persist leaves the vote out, or the log.
Persist_NoVote(i) ==
  persisted' = [persisted EXCEPT ![i].currentTerm = currentTerm'[i],
                                 ![i].log = log'[i]]

Persist_NoLog(i) ==
  persisted' = [persisted EXCEPT ![i].currentTerm = currentTerm'[i],
                                 ![i].votedFor = votedFor'[i]]

\* persist: what a critical section leaves in the three persistent fields.
Persist(i) ==
  persisted' = [persisted EXCEPT ![i] = [currentTerm |-> currentTerm'[i],
                                         votedFor |-> votedFor'[i],
                                         log |-> log'[i]]]

\* Mutant: the vote is always forgotten.
BecomeFollower_Forgets(i, term, vote) ==
  /\ state' = [state EXCEPT ![i] = Follower]
  /\ currentTerm' = [currentTerm EXCEPT ![i] = term]
  /\ votedFor' = [votedFor EXCEPT ![i] = Nil]
  /\ Persist(i)

\* becomeFollower.  The send on heartbeatC that resets the election timer is
\* the subject of module RaftLock.
BecomeFollower(i, term, vote) ==
  /\ state' = [state EXCEPT ![i] = Follower]
  /\ currentTerm' = [currentTerm EXCEPT ![i] = term]
  /\ votedFor' = [votedFor EXCEPT ![i] = vote]
  /\ Persist(i)

\* reply.Term of a handler on v, read before it changes currentTerm.  Callers
\* only ask whether it is above their own term, which is never below the
\* term of their request; so a lower one counts as the request's.
AnswerTerm(v, m) == Max({currentTerm[v], m.term})

----------------------------------------------------------------------------
(* Elections.                                                              *)

\* election: becomeCandidate, and the broadcast of RequestVote.  election
\* tests isTargetState(Leader) in an earlier critical section, so a goroutine
\* that passed the test may find the server elected by the time it gets the
\* lock again: a leader can be turned into a candidate of the next term.
Election(i) ==
  /\ Cardinality(voteReq) < MaxElection
  /\ state' = [state EXCEPT ![i] = Candidate]
  /\ currentTerm' = [currentTerm EXCEPT ![i] = @ + 1]
  /\ votedFor' = [votedFor EXCEPT ![i] = i]
  /\ UNCHANGED logVars
  /\ Persist(i)
  /\ votes' = [votes EXCEPT ![i] = {i}]
  /\ voteReq' = voteReq \cup {[term |-> currentTerm'[i], candidateId |-> i,
                               lastLogTerm |-> LastTerm(log[i]),
                               lastLogIndex |-> Len(log[i])]}
  /\ UNCHANGED <<applyVars, elections, leaderVars, voteRep, appMsgs, clientVars>>

\* The candidate will look at v's answer to m: its term has not moved on, and
\* the answer is a vote or comes from a newer term.  (Any other answer ends
\* a goroutine of election and changes nothing, so it is not kept.)
VoteAwaited(v, m, grant) ==
  /\ currentTerm[m.candidateId] = m.term
  /\ grant \/ currentTerm[v] > m.term

\* RequestVote, the handler, on v.
RequestVote(v, m) ==
  LET newer == m.term > currentTerm[v]
      vote == IF newer THEN Nil ELSE votedFor[v]
      grant == /\ m.term >= currentTerm[v]
               /\ vote \in {Nil, m.candidateId}
               /\ IsUpToDate(log[v], m.lastLogTerm, m.lastLogIndex)
  IN  /\ m.candidateId # v
      /\ UNCHANGED logVars
      /\ voteRep' = IF VoteAwaited(v, m, grant)
                    THEN voteRep \cup {[candidateId |-> m.candidateId,
                                        reqTerm |-> m.term, voter |-> v,
                                        term |-> AnswerTerm(v, m),
                                        granted |-> grant]}
                    ELSE voteRep
      /\ \/ /\ newer
            /\ BecomeFollower(v, m.term, IF grant THEN m.candidateId ELSE Nil)
         \/ /\ ~newer /\ grant
            /\ votedFor' = [votedFor EXCEPT ![v] = m.candidateId]
            /\ UNCHANGED <<currentTerm, state>>
            /\ Persist(v)
         \/ /\ ~newer /\ ~grant
            /\ UNCHANGED termVars
      /\ UNCHANGED <<applyVars, electionVars, leaderVars, voteReq, appMsgs,
                     clientVars>>

\* A goroutine of election gets an answer.  One that comes when the term has
\* moved on is dropped, as is a vote for a server that is no longer a
\* candidate.  After a restart (votes[i] = {}) the goroutine is gone.
VoteReceived(i, r) ==
  /\ r.candidateId = i
  /\ votes[i] # {}
  /\ r.reqTerm = currentTerm[i]
  /\ UNCHANGED logVars
  /\ \/ /\ r.term > currentTerm[i]
        /\ BecomeFollower(i, r.term, Nil)
        /\ UNCHANGED votes
     \/ /\ r.term <= currentTerm[i]
        /\ r.granted
        /\ state[i] = Candidate
        /\ votes' = [votes EXCEPT ![i] = @ \cup {r.voter}]
        /\ UNCHANGED termVars
  /\ UNCHANGED <<applyVars, elections, leaderVars, voteMsgs, appMsgs, clientVars>>

\* The collector of election, and becomeLeader.
BecomeLeader(i) ==
  /\ state[i] = Candidate
  /\ IsMajority(votes[i] \ {i})
  /\ state' = [state EXCEPT ![i] = Leader]
  /\ nextIndex' = [nextIndex EXCEPT ![i] = [p \in Server |-> Len(log[i]) + 1]]
  /\ elections' = elections \cup {[term |-> currentTerm[i], leader |-> i,
                                   votes |-> votes[i]]}
  /\ UNCHANGED <<currentTerm, votedFor, persisted, logVars, applyVars, votes,
                 broadcasts, appenders, acks, beats, voteMsgs, appMsgs,
                 clientVars>>

----------------------------------------------------------------------------
(* Replication: the leader.                                                *)

\* Start on the leader.  `go rf.broadcastLogs()' runs later.
Start(i, c) ==
  /\ state[i] = Leader
  /\ c \notin started
  /\ started' = started \cup {c}
  /\ log' = [log EXCEPT ![i] =
               Append(@, [term |-> currentTerm[i], command |-> c])]
  /\ stale' = [stale EXCEPT ![i] = SubSeq(@, 2, Len(@))]
  /\ UNCHANGED <<currentTerm, votedFor, state>>
  /\ Persist(i)
  /\ broadcasts' = [broadcasts EXCEPT ![i] = @ + 1]
  /\ UNCHANGED <<applyVars, electionVars, nextIndex, appenders, acks, beats,
                 voteMsgs, appMsgs, restarts>>

\* broadcastLogs, whatever the server is by the time it runs, and the
\* goroutines appendEntries starts, one for each peer, with the term, commit
\* index and last index it read.  Rounds of a term with the same end have no
\* Start between them, so the number of broadcasts left tells them apart.
BroadcastLogs(i) ==
  /\ broadcasts[i] > 0
  /\ broadcasts' = [broadcasts EXCEPT ![i] = @ - 1]
  /\ appenders' = [appenders EXCEPT ![i] = @ \cup
       {[peer |-> p, term |-> currentTerm[i], leaderCommit |-> commitIndex[i],
         end |-> Len(log[i]), round |-> broadcasts[i],
         start |-> Unread] : p \in Peers(i)}]
  /\ UNCHANGED <<termVars, logVars, applyVars, electionVars, nextIndex, acks,
                 beats, voteMsgs, appMsgs, clientVars>>

\* The appender's first critical section.
AppenderRead(i, g) ==
  /\ g.start = Unread
  /\ appenders' = [appenders EXCEPT ![i] = (@ \ {g}) \cup
                     {[g EXCEPT !.start = nextIndex[i][g.peer]]}]
  /\ UNCHANGED <<termVars, logVars, applyVars, electionVars, nextIndex,
                 broadcasts, acks, beats, voteMsgs, appMsgs, clientVars>>

\* Mutant: without the test of nextIndex against end.
MustStop_Overlapping(i, g) == state[i] # Leader \/ g.start <= 0

\* The test at the head of the appender's loop.
MustStop(i, g) ==
  \/ state[i] # Leader
  \/ g.start <= 0
  \/ nextIndex[i][g.peer] > g.end

AppenderStop(i, g) ==
  /\ g.start # Unread
  /\ MustStop(i, g)
  /\ appenders' = [appenders EXCEPT ![i] = @ \ {g}]
  /\ UNCHANGED <<termVars, logVars, applyVars, electionVars, nextIndex,
                 broadcasts, acks, beats, voteMsgs, appMsgs, clientVars>>

\* What the appender sends.  rf.log[sliceStart:sliceEnd+1] is a slice
\* expression, bounded by the capacity and not by the length of rf.log.
AppendArgs(i, g) ==
  [term |-> g.term, leaderId |-> i, peer |-> g.peer,
   prevLogIndex |-> g.start - 1, prevLogTerm |-> TermAt(log[i], g.start - 1),
   entries |-> SubSeq(log[i] \o stale[i], g.start, g.end),
   leaderCommit |-> g.leaderCommit, caller |-> "appender"]

\* The indexes the appender uses are within the slice (otherwise it panics).
InRange(i, g) ==
  /\ g.start - 1 <= Len(log[i])
  /\ g.start - 1 <= g.end
  /\ g.end <= Len(log[i]) + Len(stale[i])

AppenderSend(i, g) ==
  /\ g.start # Unread
  /\ ~MustStop(i, g)
  /\ InRange(i, g)
  /\ appReq' = appReq \cup {AppendArgs(i, g)}
  /\ UNCHANGED <<termVars, logVars, applyVars, electionVars, leaderVars,
                 voteMsgs, appRep, clientVars>>

\* r answers a call of the appender g.
Answers(r, i, g) ==
  /\ r.req.leaderId = i
  /\ r.req.peer = g.peer
  /\ r.req.term = g.term
  /\ r.req.leaderCommit = g.leaderCommit
  /\ r.req.prevLogIndex = g.start - 1
  /\ r.req.prevLogIndex + Len(r.req.entries) = g.end
  /\ r.req.caller = "appender"

\* The appender gets an answer, in the term it was started in.
AppenderReceived(i, g, r) ==
  /\ Answers(r, i, g)
  /\ currentTerm[i] = g.term
  /\ UNCHANGED logVars
  /\ \/ /\ r.term > currentTerm[i]
        /\ BecomeFollower(i, r.term, Nil)
        /\ appenders' = [appenders EXCEPT ![i] = @ \ {g}]
        /\ UNCHANGED <<nextIndex, acks>>
     \/ /\ r.term <= currentTerm[i]
        /\ r.success
        /\ nextIndex' = [nextIndex EXCEPT ![i][g.peer] =
                           IF g.end + 1 > @ THEN g.end + 1 ELSE @]
        /\ acks' = [acks EXCEPT ![i] = @ \cup
                      {[peer |-> g.peer, term |-> g.term,
                        leaderCommit |-> g.leaderCommit, end |-> g.end,
                        round |-> g.round]}]
        /\ appenders' = [appenders EXCEPT ![i] = @ \ {g}]
        /\ UNCHANGED termVars
     \/ /\ r.term <= currentTerm[i]
        /\ ~r.success
        /\ ~SearchPanics(log[i], r.xTerm)
        /\ appenders' = [appenders EXCEPT ![i] = (@ \ {g}) \cup
             {[g EXCEPT !.start = NextStart(log[i], r.req.prevLogIndex,
                                            r.xLen, r.xTerm, r.xIndex)]}]
        /\ UNCHANGED <<termVars, nextIndex, acks>>
  /\ UNCHANGED <<applyVars, electionVars, broadcasts, beats, voteMsgs, appMsgs,
                 clientVars>>

\* The appender gets an answer when the term has moved on, and ends.
AppenderOutdated(i, g) ==
  /\ currentTerm[i] # g.term
  /\ \E m \in appReq : /\ m.leaderId = i /\ m.peer = g.peer /\ m.term = g.term
                        /\ m.caller = "appender"
                        /\ m.prevLogIndex + Len(m.entries) = g.end
  /\ appenders' = [appenders EXCEPT ![i] = @ \ {g}]
  /\ UNCHANGED <<termVars, logVars, applyVars, electionVars, nextIndex,
                 broadcasts, acks, beats, voteMsgs, appMsgs, clientVars>>

\* The collector of appendEntries, for the round of the ack a.
CommitRound(i, a) ==
  /\ state[i] = Leader
  /\ currentTerm[i] = a.term
  /\ commitIndex[i] < a.end
  /\ IsMajority({p \in Peers(i) : [a EXCEPT !.peer = p] \in acks[i]})
  /\ commitIndex' = [commitIndex EXCEPT ![i] = a.end]
  /\ UNCHANGED <<termVars, logVars, lastApplied, delivered, electionVars,
                 leaderVars, voteMsgs, appMsgs, clientVars>>

----------------------------------------------------------------------------
(* Heartbeats.                                                             *)

\* heartbeat reads the term and the commit index.  becomeLeader and the loop
\* of periodicallyHeartbeat spawn it; spawned on the leader, it may run when
\* the server is no longer that.
Heartbeat(i) ==
  /\ nextIndex[i] # NoNext
  /\ Cardinality(beats[i]) < MaxBeat
  /\ beats' = [beats EXCEPT ![i] = @ \cup {[term |-> currentTerm[i],
                                            commitIndex |-> commitIndex[i]]}]
  /\ UNCHANGED <<termVars, logVars, applyVars, electionVars, nextIndex,
                 broadcasts, appenders, acks, voteMsgs, appMsgs, clientVars>>

\* A goroutine of heartbeat calls its peer p.
HeartbeatSend(i, b, p) ==
  /\ state[i] = Leader
  /\ appReq' = appReq \cup
       {[term |-> b.term, leaderId |-> i, peer |-> p,
         prevLogIndex |-> nextIndex[i][p] - 1,
         prevLogTerm |-> TermAt(log[i], nextIndex[i][p] - 1),
         entries |-> << >>, leaderCommit |-> b.commitIndex,
         caller |-> "heartbeat"]}
  /\ UNCHANGED <<termVars, logVars, applyVars, electionVars, leaderVars,
                 voteMsgs, appRep, clientVars>>

\* The goroutines of a round end: the server is no longer leader, or each
\* has got an answer to its call.
HeartbeatEnd(i, b) ==
  /\ \/ state[i] # Leader
     \/ \A p \in Peers(i) : \E m \in appReq :
          /\ m.leaderId = i /\ m.peer = p /\ m.caller = "heartbeat"
          /\ m.term = b.term /\ m.leaderCommit = b.commitIndex
  /\ beats' = [beats EXCEPT ![i] = @ \ {b}]
  /\ UNCHANGED <<termVars, logVars, applyVars, electionVars, nextIndex,
                 broadcasts, appenders, acks, voteMsgs, appMsgs, clientVars>>

\* It gets an answer from a server with a newer term.
HeartbeatReceived(i, r) ==
  /\ r.req.leaderId = i
  /\ r.req.caller = "heartbeat"
  /\ [term |-> r.req.term, commitIndex |-> r.req.leaderCommit] \in beats[i]
  /\ r.term > currentTerm[i]
  /\ UNCHANGED logVars
  /\ BecomeFollower(i, r.term, Nil)
  /\ UNCHANGED <<applyVars, electionVars, leaderVars, voteMsgs, appMsgs,
                 clientVars>>

----------------------------------------------------------------------------
(* Replication: the follower.                                              *)

\* The caller will look at v's answer to m.  The goroutine of a heartbeat
\* asks only for a term newer than its own, an appender stops at any answer
\* once its term has passed (AppenderOutdated); other answers are not kept.
AppendAwaited(v, m) ==
  IF m.caller = "heartbeat"
  THEN currentTerm[v] > currentTerm[m.leaderId]
  ELSE currentTerm[m.leaderId] = m.term

AppendAnswer(v, m, success, xLen, xTerm, xIndex) ==
  appRep' = IF AppendAwaited(v, m)
            THEN appRep \cup {[req |-> m, term |-> AnswerTerm(v, m),
                               success |-> success, xLen |-> xLen,
                               xTerm |-> xTerm, xIndex |-> xIndex]}
            ELSE appRep

\* AppendEntries, the handler, on v.  It overwrites votedFor.
AppendEntries(v, m) ==
  /\ m.peer = v
  /\ \/ /\ m.term < currentTerm[v]
        /\ AppendAnswer(v, m, FALSE, 0, 0, 0)
        /\ UNCHANGED <<termVars, logVars, commitIndex>>
     \/ /\ m.term >= currentTerm[v]
        /\ TooShort(log[v], m.prevLogIndex)
        /\ AppendAnswer(v, m, FALSE, Len(log[v]) + 1, 0, 0)
        /\ UNCHANGED <<logVars, commitIndex>>
        /\ BecomeFollower(v, m.term, m.leaderId)
     \/ /\ m.term >= currentTerm[v]
        /\ Conflicts(log[v], m.prevLogIndex, m.prevLogTerm)
        /\ AppendAnswer(v, m, FALSE, Len(log[v]) + 1,
                        log[v][m.prevLogIndex].term,
                        FirstOfRun(log[v], m.prevLogIndex))
        /\ UNCHANGED <<logVars, commitIndex>>
        /\ BecomeFollower(v, m.term, m.leaderId)
     \/ /\ m.term >= currentTerm[v]
        /\ ~TooShort(log[v], m.prevLogIndex)
        /\ ~Conflicts(log[v], m.prevLogIndex, m.prevLogTerm)
        /\ AppendAnswer(v, m, TRUE, Len(log[v]) + 1, 0, 0)
        /\ log' = [log EXCEPT ![v] = MergeLog(@, m.prevLogIndex, m.entries)]
        /\ stale' = [stale EXCEPT ![v] =
                       MergeStale(log[v], @, m.prevLogIndex, m.entries)]
        /\ commitIndex' = [commitIndex EXCEPT ![v] =
                             MergeCommit(log[v], m.prevLogIndex, m.entries,
                                         m.leaderCommit, @)]
        /\ BecomeFollower(v, m.term, m.leaderId)
  /\ UNCHANGED <<lastApplied, delivered, electionVars, leaderVars, voteMsgs,
                 appReq, clientVars>>

\* One turn of applyLog, with the send on applyCh.
ApplyLog(i) ==
  /\ lastApplied[i] < commitIndex[i]
  /\ lastApplied[i] + 1 <= Len(log[i])
  /\ lastApplied' = [lastApplied EXCEPT ![i] = @ + 1]
  /\ delivered' = delivered \cup
       {[index |-> lastApplied'[i], command |-> log[i][lastApplied'[i]].command]}
  /\ UNCHANGED <<termVars, logVars, commitIndex, electionVars, leaderVars,
                 voteMsgs, appMsgs, clientVars>>

\* A crash, and Make on what the persister holds.
Restart(i) ==
  /\ restarts < MaxRestart
  /\ restarts' = restarts + 1
  /\ currentTerm' = [currentTerm EXCEPT ![i] = persisted[i].currentTerm]
  /\ votedFor' = [votedFor EXCEPT ![i] = persisted[i].votedFor]
  /\ log' = [log EXCEPT ![i] = persisted[i].log]
  /\ state' = [state EXCEPT ![i] = Follower]
  /\ stale' = [stale EXCEPT ![i] = << >>]
  /\ commitIndex' = [commitIndex EXCEPT ![i] = 0]
  /\ lastApplied' = [lastApplied EXCEPT ![i] = 0]
  /\ nextIndex' = [nextIndex EXCEPT ![i] = NoNext]
  /\ votes' = [votes EXCEPT ![i] = {}]
  /\ broadcasts' = [broadcasts EXCEPT ![i] = 0]
  /\ appenders' = [appenders EXCEPT ![i] = {}]
  /\ acks' = [acks EXCEPT ![i] = {}]
  /\ beats' = [beats EXCEPT ![i] = {}]
  /\ UNCHANGED <<persisted, delivered, elections, voteMsgs, appMsgs, started>>

----------------------------------------------------------------------------
Next ==
  \/ \E i \in Server : Election(i)
  \/ \E v \in Server, m \in voteReq : RequestVote(v, m)
  \/ \E i \in Server, r \in voteRep : VoteReceived(i, r)
  \/ \E i \in Server : BecomeLeader(i)
  \/ \E i \in Server, c \in Command : Start(i, c)
  \/ \E i \in Server : BroadcastLogs(i)
  \/ \E i \in Server : \E g \in appenders[i] : AppenderRead(i, g)
  \/ \E i \in Server : \E g \in appenders[i] : AppenderStop(i, g)
  \/ \E i \in Server : \E g \in appenders[i] : AppenderSend(i, g)
  \/ \E i \in Server : \E g \in appenders[i], r \in appRep :
       AppenderReceived(i, g, r)
  \/ \E i \in Server : \E g \in appenders[i] : AppenderOutdated(i, g)
  \/ \E i \in Server : \E a \in acks[i] : CommitRound(i, a)
  \/ \E i \in Server : Heartbeat(i)
  \/ \E i \in Server : \E b \in beats[i], p \in Peers(i) : HeartbeatSend(i, b, p)
  \/ \E i \in Server, r \in appRep : HeartbeatReceived(i, r)
  \/ \E i \in Server : \E b \in beats[i] : HeartbeatEnd(i, b)
  \/ \E v \in Server, m \in appReq : AppendEntries(v, m)
  \/ \E i \in Server : ApplyLog(i)
  \/ \E i \in Server : Restart(i)

Spec == Init /\ [][Next]_vars

\* Go runs every goroutine that can run; a heartbeat round starts every
\* HEARTBEATTIME; and a call that is retried for ever is answered in the end.
\* Nothing is assumed of elections, of clients or of restarts.
Fairness ==
  \A i \in Server :
    /\ WF_vars(BroadcastLogs(i))
    /\ WF_vars(\E a \in acks[i] : CommitRound(i, a))
    /\ WF_vars(ApplyLog(i))
    /\ WF_vars(Heartbeat(i))
    /\ SF_vars(\E r \in appRep : HeartbeatReceived(i, r))
    /\ WF_vars(\E b \in beats[i] : HeartbeatEnd(i, b))
    /\ \A p \in Server :
         /\ WF_vars(\E g \in appenders[i] : g.peer = p /\ AppenderRead(i, g))
         /\ WF_vars(\E g \in appenders[i] : g.peer = p /\ AppenderSend(i, g))
         /\ WF_vars(\E g \in appenders[i], r \in appRep :
                      g.peer = p /\ AppenderReceived(i, g, r))
         /\ WF_vars(\E b \in beats[i] : p # i /\ HeartbeatSend(i, b, p))
         /\ WF_vars(\E m \in appReq : m.leaderId = i /\ AppendEntries(p, m))

LiveSpec == Spec /\ Fairness

----------------------------------------------------------------------------
(* Properties.                                                             *)

\* Server d does not campaign in term t, now or ever after.
Retired(d, t) ==
  \/ currentTerm[d] > t
  \/ currentTerm[d] = t /\ state[d] # Candidate

HasEntry(l, d) == d.index <= Len(l) /\ l[d.index].command = d.command

\* Every variable stays in its type.
TypeOK ==
  /\ currentTerm \in [Server -> Nat]
  /\ votedFor \in [Server -> Server \cup {Nil}]
  /\ state \in [Server -> {Follower, Candidate, Leader}]
  /\ log \in [Server -> Seq(Entry)]
  /\ stale \in [Server -> Seq(Entry)]
  /\ persisted \in [Server -> Saved]
  /\ commitIndex \in [Server -> Nat]
  /\ lastApplied \in [Server -> Nat]
  /\ nextIndex \in [Server -> [Server -> Nat]]
  /\ votes \in [Server -> SUBSET Server]
  /\ broadcasts \in [Server -> Nat]
  /\ appenders \in [Server -> SUBSET Appender]
  /\ acks \in [Server -> SUBSET Ack]
  /\ beats \in [Server -> SUBSET Beat]
  /\ voteReq \subseteq VoteRequest
  /\ voteRep \subseteq VoteReply
  /\ appReq \subseteq AppendRequest
  /\ appRep \subseteq AppendReply
  /\ delivered \subseteq [index : Nat, command : Command]
  /\ elections \subseteq [term : Nat, leader : Server, votes : SUBSET Server]
  /\ started \subseteq Command
  /\ restarts \in Nat

\* No two servers ever call becomeLeader in the same term, whatever restarts
\* happen in between (checkOneLeader of src/raft/config.go).
ElectionSafety ==
  \A e, f \in elections : e.term = f.term => e.leader = f.leader

\* The newest leader holds every command any server has delivered: what
\* RequestVote's isUpToDate and the commit rule of appendEntries are for.
LeaderHasDelivered ==
  \A i \in Server :
    state[i] = Leader /\ (\A e \in elections : e.term <= currentTerm[i])
    => \A d \in delivered : HasEntry(log[i], d)

\* A delivered command is in the persisted log of a majority, so that the
\* crash of any minority cannot lose it.
DeliveredIsDurable ==
  \A d \in delivered :
    2 * Cardinality({i \in Server : HasEntry(persisted[i].log, d)})
      > Cardinality(Server)

\* Within a term a vote is only ever replaced by a server that has stopped
\* campaigning in that term.  AppendEntries overwrites votedFor with the
\* sender of the call, so this is not the rule of one vote for each term.
VoteStable ==
  [][\A v \in Server :
       /\ currentTerm'[v] = currentTerm[v]
       /\ votedFor[v] # Nil
       /\ votedFor'[v] # votedFor[v]
       => /\ votedFor'[v] # Nil
          /\ Retired(votedFor'[v], currentTerm[v])]_vars

\* The term of a server never goes back, over restarts too.
TermMonotone ==
  [][\A i \in Server : currentTerm'[i] >= currentTerm[i]]_vars

\* Each refusal moves an appender strictly back in the log, so that it
\* reaches a common prefix after finitely many (the conflict hint of
\* AppendEntries and isContainTerm).
BacktracksStrictly ==
  \A i \in Server : \A g \in appenders[i], r \in appRep :
    /\ Answers(r, i, g)
    /\ currentTerm[i] = g.term
    /\ r.term <= currentTerm[i]
    /\ ~r.success
    => NextStart(log[i], r.req.prevLogIndex, r.xLen, r.xTerm, r.xIndex) < g.start

\* A leader never drops a peer from a round of its own term because of a
\* conflict hint: isContainTerm's index 0, which ends the appender
\* (start <= rf.X), does not come up.
NeverGivesUp ==
  \A i \in Server : \A g \in appenders[i] :
    state[i] = Leader /\ currentTerm[i] = g.term => g.start # 0

\* What a leader has started in its term is applied by every server, unless
\* the leader loses its office first: by heartbeats, retries and the
\* collector of appendEntries, with no further Start.
StartedIsApplied ==
  \A i \in Server :
    (state[i] = Leader /\ LastTerm(log[i]) = currentTerm[i])
    ~> (state[i] # Leader \/ \A v \in Server : lastApplied[v] = Len(log[i]))

\* A leader that has started a command in its term brings every log to equal
\* its own, wherever they diverged before, and applies all of it, unless it
\* loses its office first.
StartedIsReplicated ==
  \A i \in Server :
    (state[i] = Leader /\ LastTerm(log[i]) = currentTerm[i])
    ~> (\/ state[i] # Leader
        \/ lastApplied[i] = Len(log[i]) /\ \A v \in Server : log[v] = log[i])

\* No slice of the log is indexed out of range: not by applyLog, not by an
\* appender or a heartbeat about to be sent, not by isContainTerm.
NoPanic ==
  \A i \in Server :
    /\ lastApplied[i] < commitIndex[i] => lastApplied[i] + 1 <= Len(log[i])
    /\ state[i] = Leader
       => \A p \in Server : nextIndex[i][p] \in 1..(Len(log[i]) + 1)
    /\ \A g \in appenders[i] :
         /\ g.start # Unread /\ ~MustStop(i, g) => InRange(i, g)
         /\ \A r \in appRep :
              /\ Answers(r, i, g)
              /\ currentTerm[i] = g.term
              /\ r.term <= g.term
              /\ ~r.success
              => ~SearchPanics(log[i], r.xTerm)

----------------------------------------------------------------------------
(* Why the types and ElectionSafety hold: the parts of an inductive        *)
(* invariant, proved in RaftTypeProofs and RaftElectionProofs.             *)

\* Whoever campaigns or leads has incremented its term.
ActiveTerm == \A i \in Server : state[i] # Follower => currentTerm[i] > 0

NextInLog ==
  \A i \in Server :
    state[i] = Leader
    => \A p \in Server : nextIndex[i][p] \in 1..(Len(log[i]) + 1)

\* The log of a server does not shrink while it campaigns and leads.
RoundsInLog ==
  \A i \in Server : \A g \in appenders[i] :
    /\ g.term <= currentTerm[i]
    /\ g.term = currentTerm[i] /\ state[i] # Follower => g.end <= Len(log[i])

TypeInv == TypeOK /\ ActiveTerm /\ NextInLog /\ RoundsInLog

\* A restart finds what the server last had.
Durable ==
  \A i \in Server :
    persisted[i] = [currentTerm |-> currentTerm[i], votedFor |-> votedFor[i],
                    log |-> log[i]]

\* v has voted for c in term t: by an answer to c, or for itself.
GrantedBy(v, c, t) ==
  \/ \E r \in voteRep :
       r.voter = v /\ r.candidateId = c /\ r.reqTerm = t /\ r.granted
  \/ v = c /\ \E m \in voteReq : m.candidateId = c /\ m.term = t

VoteTerms == {m.term : m \in voteReq} \cup {r.reqTerm : r \in voteRep}

\* No goroutine and no message of an election knows a term that its sender
\* has not reached.
BeatsTerm == \A i \in Server : \A b \in beats[i] : b.term <= currentTerm[i]

SendersTerm ==
  /\ \A m \in voteReq : m.term <= currentTerm[m.candidateId]
  /\ \A r \in voteRep : r.reqTerm <= currentTerm[r.candidateId]

\* A call of AppendEntries in term t comes from a server that no longer
\* campaigns in term t; so overwriting votedFor with it takes no vote from a
\* candidate that could count it.
AppendersRetired == \A m \in appReq : Retired(m.leaderId, m.term)

\* Who has voted for c in term t still says so, has gone to a later term, or
\* has had its vote replaced by a server that no longer campaigns in t.
VotesKept ==
  \A v, c \in Server : \A t \in VoteTerms :
    GrantedBy(v, c, t)
    => /\ t <= currentTerm[v]
       /\ currentTerm[v] = t
          => /\ votedFor[v] # Nil
             /\ votedFor[v] = c \/ Retired(votedFor[v], t)

VotesGranted ==
  \A i \in Server :
    state[i] = Candidate
    => i \in votes[i] /\ \A v \in votes[i] : GrantedBy(v, i, currentTerm[i])

\* Two candidates of a term share no voter, nor do a candidate and a leader.
CandidatesDisjoint ==
  \A i, j \in Server :
    /\ i # j
    /\ state[i] = Candidate /\ state[j] = Candidate
    /\ currentTerm[i] = currentTerm[j]
    => \A v \in Server : ~(GrantedBy(v, i, currentTerm[i])
                           /\ GrantedBy(v, j, currentTerm[i]))

LeadersElected ==
  \A e \in elections :
    /\ Retired(e.leader, e.term)
    /\ e.leader \in e.votes
    /\ IsMajority(e.votes \ {e.leader})
    /\ \A v \in e.votes : GrantedBy(v, e.leader, e.term)

LeadersDisjoint ==
  \A e \in elections, i \in Server :
    state[i] = Candidate /\ currentTerm[i] = e.term
    => \A v \in e.votes : ~GrantedBy(v, i, e.term)

CampaignInv ==
  /\ SendersTerm
  /\ VotesKept
  /\ VotesGranted
  /\ CandidatesDisjoint
  /\ LeadersElected
  /\ LeadersDisjoint
  /\ ElectionSafety

ElectionInv == Durable /\ BeatsTerm /\ AppendersRetired /\ CampaignInv
============================================================================
