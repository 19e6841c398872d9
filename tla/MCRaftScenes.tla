---------------------------- MODULE MCRaftScenes ----------------------------
(***************************************************************************)
(* Raft from three situations on that a search from the initial state does *)
(* not reach: the first steps of a scene are fixed, and everything after   *)
(* them is free, but for further elections.                                *)
(*                                                                         *)
(* "conflict": s1 is elected in term 1 by s3 and starts c1; s2, which never*)
(*   hears of it, is elected in term 2 by s3 and starts c2, then campaigns *)
(*   again and is elected in term 3 by s1.  The rounds of appendEntries so *)
(*   far end without a call.  Nothing has been replicated.                 *)
(* "shared": s1 is elected in term 1 and starts c1, which s2 gets and s3   *)
(*   does not, then c2, which nobody gets; s2 is elected in term 2 by s3,  *)
(*   starts c3, and is elected in term 3 by s1.  s1 and s2 differ after    *)
(*   entries of term 1 that both have.                                     *)
(* "figure8": the Raft paper's Figure 8.  s1 has c1 of term 1; s2 has c2 of*)
(*   term 2; s1 is elected in term 3 by s3 and starts c3, so that it       *)
(*   replicates an entry of an older term, while s2 campaigns in term 4.   *)
(***************************************************************************)
EXTENDS RaftImplements, TLC

CONSTANTS s1, s2, s3, c1, c2, c3, c4,
  Scene          \* the scenes of a run

VARIABLES scene, script

\* The voter v handles the request of term t; its vote is received.
Vote(v, t) == \E m \in voteReq : m.term = t /\ RequestVote(v, m)
Receive(i, t) == \E r \in voteRep : r.reqTerm = t /\ VoteReceived(i, r)
Read(i) == \E g \in appenders[i] : AppenderRead(i, g)
Stop(i) == \E g \in appenders[i] : AppenderStop(i, g)

\* s1 takes office in term 1 and starts c1.
Opening(k) ==
  \/ k = 1 /\ Election(s1)
  \/ k = 2 /\ Vote(s3, 1)
  \/ k = 3 /\ Receive(s1, 1)
  \/ k = 4 /\ BecomeLeader(s1)
  \/ k = 5 /\ Start(s1, c1)

Conflict(k) ==
  \/ k \in 6..7 /\ Election(s2)
  \/ k = 8 /\ Vote(s3, 2)
  \/ k = 9 /\ Receive(s2, 2)
  \/ k = 10 /\ BecomeLeader(s2)
  \/ k = 11 /\ Start(s2, c2)
  \/ k = 12 /\ BroadcastLogs(s2)
  \/ k = 13 /\ Election(s2)
  \/ k \in 14..15 /\ Read(s2)
  \/ k \in 16..17 /\ Stop(s2)
  \/ k = 18 /\ Vote(s1, 3)
  \/ k = 19 /\ Receive(s2, 3)
  \/ k = 20 /\ BecomeLeader(s2)
  \/ k = 21 /\ BroadcastLogs(s1)
  \/ k \in 22..23 /\ Read(s1)
  \/ k \in 24..25 /\ Stop(s1)

Shared(k) ==
  \/ k = 6 /\ BroadcastLogs(s1)
  \/ k = 7 /\ \E g \in appenders[s1] : g.peer = s2 /\ AppenderRead(s1, g)
  \/ k = 8 /\ \E g \in appenders[s1] : AppenderSend(s1, g)
  \/ k = 9 /\ \E m \in appReq : AppendEntries(s2, m)
  \/ k = 10 /\ Start(s1, c2)
  \/ k = 11 /\ Election(s2)
  \/ k = 12 /\ Vote(s3, 2)
  \/ k = 13 /\ Receive(s2, 2)
  \/ k = 14 /\ BecomeLeader(s2)
  \/ k = 15 /\ Start(s2, c3)
  \/ k = 16 /\ BroadcastLogs(s2)
  \/ k = 17 /\ Election(s2)
  \/ k \in 18..19 /\ Read(s2)
  \/ k \in 20..21 /\ Stop(s2)
  \/ k = 22 /\ Vote(s1, 3)
  \/ k = 23 /\ Receive(s2, 3)
  \/ k = 24 /\ BecomeLeader(s2)
  \/ k = 25 /\ BroadcastLogs(s1)
  \/ k \in 26..28 /\ Read(s1)
  \/ k \in 29..32 /\ Stop(s1)

Figure8(k) ==
  \/ k \in 6..7 /\ Election(s2)
  \/ k = 8 /\ Vote(s3, 2)
  \/ k = 9 /\ Receive(s2, 2)
  \/ k = 10 /\ BecomeLeader(s2)
  \/ k = 11 /\ Start(s2, c2)
  \/ k \in 12..13 /\ Election(s1)
  \/ k = 14 /\ Vote(s3, 3)
  \/ k = 15 /\ Receive(s1, 3)
  \/ k = 16 /\ BecomeLeader(s1)
  \/ k \in 17..18 /\ Election(s2)
  \/ k = 19 /\ BroadcastLogs(s2)
  \/ k \in 20..21 /\ Read(s2)
  \/ k \in 22..23 /\ Stop(s2)
  \/ k = 24 /\ BroadcastLogs(s1)
  \/ k = 25 /\ Start(s1, c3)
  \/ k = 26 /\ BroadcastLogs(s1)

Scripted(k) ==
  \/ Opening(k)
  \/ scene = "conflict" /\ Conflict(k)
  \/ scene = "shared" /\ Shared(k)
  \/ scene = "figure8" /\ Figure8(k)

ScriptLength == [conflict |-> 25, shared |-> 32, figure8 |-> 26]

\* Bound: the commands of a scene, those of its script included.
CommandOf == [conflict |-> {c1, c2, c3}, shared |-> {c1, c2, c3, c4},
              figure8 |-> {c1, c2, c3}]

MCInit == Init /\ script = 0 /\ scene \in Scene

\* Bounds on the free steps: no election, and heartbeats only of s2 in one of
\* the scenes, where it is the leader, and once it has committed something.
MCNext ==
  \/ /\ script < ScriptLength[scene]
     /\ script' = script + 1
     /\ Scripted(script')
     /\ UNCHANGED scene
  \/ /\ script = ScriptLength[scene]
     /\ Next
     /\ UNCHANGED <<script, scene, voteReq>>
     /\ started' \subseteq CommandOf[scene]
     /\ \A i \in Server :
          \/ scene = "conflict" /\ i = s2 /\ commitIndex[s2] > 0
          \/ beats'[i] = beats[i]

MCSpec == MCInit /\ [][MCNext]_<<vars, scene, script>>

MCLiveSpec == MCSpec /\ Fairness
============================================================================
