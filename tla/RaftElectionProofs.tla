------------------------- MODULE RaftElectionProofs -------------------------
(***************************************************************************)
(* At most one leader for each term, for any number of servers, elections, *)
(* restarts and heartbeats; the term of a server never goes back; a vote   *)
(* is only replaced by a server that has stopped campaigning.              *)
(*                                                                         *)
(* AppendEntries overwrites votedFor, so a server may have voted for one   *)
(* candidate and name another in the same term.  The argument is therefore *)
(* not the one of the Raft paper (votedFor is written once in a term), but *)
(* that the server it is overwritten with cannot count votes in that term  *)
(* any more (Retired), which is for ever.                                  *)
(***************************************************************************)
EXTENDS RaftTypeProofs, FiniteSetTheorems

\* The provers of a leaf that names none, in the order they are tried.
USE ZenonT(2), SMTT(30), Zenon, SMTT(40)

----------------------------------------------------------------------------
(* What an election needs of the steps of the servers (CampaignStep), and  *)
(* that such steps, and becomeLeader, keep the invariant of the elections. *)

\* Two majorities, each counted without the server it belongs to, share a
\* member when those servers are added.
LEMMA QuorumsMeet ==
  ASSUME NEW A \in SUBSET Server, NEW B \in SUBSET Server,
         NEW a \in A, NEW b \in B,
         IsMajority(A \ {a}), IsMajority(B \ {b})
  PROVE  \E v \in Server : v \in A /\ v \in B
<1> DEFINE n == Cardinality(Server)
<1>1. IsFiniteSet(Server) /\ n \in Nat
  BY ServerAssumption, FS_CardinalityType
<1>2. /\ IsFiniteSet(A) /\ IsFiniteSet(B)
      /\ Cardinality(A) \in Nat /\ Cardinality(B) \in Nat
  BY <1>1, FS_Subset, FS_CardinalityType
<1>3. /\ Cardinality(A \ {a}) = Cardinality(A) - 1
      /\ Cardinality(B \ {b}) = Cardinality(B) - 1
  BY <1>2, FS_RemoveElement, Zenon
<1>4. Cardinality(A) + Cardinality(B) > n
  BY <1>1, <1>2, <1>3, SMTT(30) DEF IsMajority
<1>5. SUFFICES ASSUME A \cap B = {} PROVE FALSE
  OBVIOUS
<1>6. Cardinality(A \cup B) = Cardinality(A) + Cardinality(B)
  BY <1>2, <1>5, FS_Union, FS_EmptySet, SMTT(30)
<1>7. Cardinality(A \cup B) <= n
  BY <1>1, FS_Subset
<1> QED
  BY <1>1, <1>2, <1>4, <1>6, <1>7, SMTT(30)

----------------------------------------------------------------------------
(* The kind of step every action but BecomeLeader is, in the eyes of the   *)
(* elections.                                                              *)

\* No server comes back to a term it has left, or to campaign in a term in
\* which it had stopped.
NoComeback ==
  \A d \in Server :
    /\ currentTerm'[d] >= currentTerm[d]
    /\ currentTerm'[d] = currentTerm[d] /\ state'[d] = Candidate
       => state[d] = Candidate

\* s votes for d in term u, which it may when it has not voted in that term.
NewVote(s, d, u) ==
  /\ votedFor'[s] = d
  /\ currentTerm'[s] = u
  /\ currentTerm[s] = u => votedFor[s] \in {Nil, d}

VoteReplaced(s) ==
  /\ currentTerm'[s] = currentTerm[s]
  /\ votedFor[s] # Nil
  /\ votedFor'[s] # votedFor[s]

CampaignStep(s) ==
  /\ NoComeback
  /\ \A j \in Server \ {s} : /\ currentTerm'[j] = currentTerm[j]
                             /\ votedFor'[j] = votedFor[j]
                             /\ state'[j] = state[j]
  /\ \A w, d \in Server, u \in Nat : GrantedBy(w, d, u) => GrantedBy(w, d, u)'
  /\ \A w, d \in Server, u \in Nat :
       GrantedBy(w, d, u)' => GrantedBy(w, d, u) \/ (w = s /\ NewVote(s, d, u))
  /\ VoteReplaced(s) => /\ votedFor'[s] \in Server
                        /\ Retired(votedFor'[s], currentTerm[s])
  /\ elections' = elections
  /\ VotesGranted'
  /\ SendersTerm'

\* A server that can no longer count votes in a term never can again.
LEMMA RetiredForever ==
  ASSUME TypeInv, TypeInv', NoComeback, NEW d \in Server, NEW t \in Nat,
         Retired(d, t)
  PROVE  Retired(d, t)'
<1>1. currentTerm[d] \in Nat /\ currentTerm'[d] \in Nat
  BY DEF TypeInv, TypeOK
<1>2. /\ currentTerm'[d] >= currentTerm[d]
      /\ currentTerm'[d] = currentTerm[d] /\ state'[d] = Candidate
         => state[d] = Candidate
  BY DEF NoComeback
<1> QED
  BY <1>1, <1>2, SMTT(30) DEF Retired

\* A vote is for a term that both its candidate and its voter have reached,
\* and the voter has not forgotten it.
LEMMA GrantFacts ==
  ASSUME TypeInv, SendersTerm, VotesKept,
         NEW v \in Server, NEW c \in Server, NEW t \in Nat, GrantedBy(v, c, t)
  PROVE  /\ t <= currentTerm[c]
         /\ t <= currentTerm[v]
         /\ currentTerm[v] = t
            => /\ votedFor[v] # Nil
               /\ votedFor[v] = c \/ Retired(votedFor[v], t)
<1>1. t \in VoteTerms
  BY DEF GrantedBy, VoteTerms
<1>2. t <= currentTerm[c]
  BY DEF GrantedBy, SendersTerm
<1> QED
  BY <1>1, <1>2 DEF VotesKept

\* Whoever voted for s before the step voted in a term s had reached.
LEMMA OldVotes ==
  ASSUME TypeInv, TypeInv', CampaignInv, NEW s \in Server, CampaignStep(s),
         NEW w \in Server, NEW i \in Server, NEW t \in Nat,
         GrantedBy(w, i, t), state'[i] = Candidate, currentTerm'[i] = t
  PROVE  state[i] = Candidate /\ currentTerm[i] = t
<1>1. t <= currentTerm[i]
  BY GrantFacts DEF CampaignInv
<1>2. currentTerm[i] \in Nat /\ currentTerm'[i] >= currentTerm[i]
  BY DEF TypeInv, TypeOK, CampaignStep, NoComeback
<1>3. currentTerm[i] = t
  BY <1>1, <1>2, SMTT(30)
<1> QED
  BY <1>3 DEF CampaignStep, NoComeback

\* A server that votes anew for i had not voted for anybody else in the term,
\* unless i has stopped campaigning.
LEMMA NewVotes ==
  ASSUME TypeInv, TypeInv', CampaignInv, NEW s \in Server, CampaignStep(s),
         NEW i \in Server, NEW j \in Server, NEW t \in Nat, i # j,
         NewVote(s, i, t), GrantedBy(s, j, t)
  PROVE  Retired(i, t)
<1>1. /\ t <= currentTerm[s]
      /\ currentTerm[s] = t
         => /\ votedFor[s] # Nil
            /\ votedFor[s] = j \/ Retired(votedFor[s], t)
  BY GrantFacts DEF CampaignInv
<1>2. currentTerm[s] \in Nat /\ currentTerm'[s] >= currentTerm[s]
      /\ currentTerm'[s] = t
  BY DEF TypeInv, TypeOK, CampaignStep, NoComeback, NewVote
<1>3. currentTerm[s] = t
  BY <1>1, <1>2, SMTT(30)
<1> QED
  BY <1>1, <1>3 DEF NewVote

\* A step of one server's campaign keeps the invariant of the elections.
LEMMA CampaignStepInv ==
  ASSUME TypeInv, TypeInv', CampaignInv, NEW s \in Server, CampaignStep(s)
  PROVE  CampaignInv'
<1>1. VotesKept'
  <2> SUFFICES ASSUME NEW v \in Server, NEW c \in Server, NEW t \in VoteTerms',
                      GrantedBy(v, c, t)'
               PROVE  /\ t <= currentTerm'[v]
                      /\ currentTerm'[v] = t
                         => /\ votedFor'[v] # Nil
                            /\ votedFor'[v] = c \/ Retired(votedFor[v], t)'
    BY DEF VotesKept
  <2>1. t \in Nat
    <3>1. CASE \E m \in voteReq' : t = m.term
      BY <3>1 DEF TypeInv, TypeOK, VoteRequest
    <3>2. CASE \E r \in voteRep' : t = r.reqTerm
      BY <3>2 DEF TypeInv, TypeOK, VoteReply
    <3> QED
      BY <3>1, <3>2 DEF VoteTerms
  <2>2. /\ currentTerm[v] \in Nat /\ currentTerm'[v] \in Nat
        /\ currentTerm'[v] >= currentTerm[v]
        /\ votedFor[v] \in Server \cup {Nil} /\ votedFor'[v] \in Server \cup {Nil}
    BY Zenon DEF TypeInv, TypeOK, CampaignStep, NoComeback
  <2>3. CASE GrantedBy(v, c, t)
    <3>1. /\ t <= currentTerm[v]
          /\ currentTerm[v] = t
             => /\ votedFor[v] # Nil
                /\ votedFor[v] = c \/ Retired(votedFor[v], t)
      BY <2>1, <2>3, GrantFacts DEF CampaignInv
    <3>2. t <= currentTerm'[v]
      BY <2>1, <2>2, <3>1, SMTT(30)
    <3>3. ASSUME currentTerm'[v] = t
          PROVE  /\ votedFor'[v] # Nil
                 /\ votedFor'[v] = c \/ Retired(votedFor[v], t)'
      <4>1. currentTerm[v] = t
        BY <2>1, <2>2, <3>1, <3>3, SMTT(30)
      <4>2. CASE votedFor'[v] = votedFor[v]
        <5>1. CASE votedFor[v] = c
          BY <3>1, <4>1, <4>2, <5>1
        <5>2. CASE Retired(votedFor[v], t)
          <6>1. PICK x \in Server : x = votedFor[v]
            BY <2>2, <3>1, <4>1
          <6>2. Retired(x, t)'
            BY <2>1, <5>2, <6>1, RetiredForever DEF CampaignStep
          <6> QED
            BY <3>1, <4>1, <4>2, <6>1, <6>2 DEF Retired
        <5> QED
          BY <3>1, <4>1, <5>1, <5>2
      <4>3. CASE votedFor'[v] # votedFor[v]
        <5>1. v = s
          BY <4>3 DEF CampaignStep
        <5>2. VoteReplaced(s)
          BY <3>1, <3>3, <4>1, <4>3, <5>1 DEF VoteReplaced
        <5>3. votedFor'[v] \in Server /\ Retired(votedFor'[v], t)
          BY <4>1, <5>1, <5>2 DEF CampaignStep
        <5>4. PICK x \in Server : x = votedFor'[v]
          BY <5>3
        <5>5. Retired(x, t)'
          BY <2>1, <5>3, <5>4, RetiredForever DEF CampaignStep
        <5>6. votedFor'[v] # Nil
          BY <5>3, ServerAssumption
        <5> QED
          BY <5>4, <5>5, <5>6 DEF Retired
      <4> QED
        BY <4>2, <4>3
    <3> QED
      BY <3>2, <3>3
  <2>4. CASE v = s /\ NewVote(s, c, t)
    <3>1. votedFor'[v] = c /\ currentTerm'[v] = t
      BY <2>4 DEF NewVote
    <3>2. c # Nil
      BY ServerAssumption
    <3> QED
      BY <2>2, <3>1, <3>2, SMTT(30)
  <2> QED
    BY <2>1, <2>3, <2>4 DEF CampaignStep

<1>2. CandidatesDisjoint'
  <2> SUFFICES ASSUME NEW i \in Server, NEW j \in Server, i # j,
                      state'[i] = Candidate, state'[j] = Candidate,
                      currentTerm'[i] = currentTerm'[j], NEW v \in Server,
                      GrantedBy(v, i, currentTerm[i])',
                      GrantedBy(v, j, currentTerm[i])'
               PROVE  FALSE
    BY DEF CandidatesDisjoint
  <2>1. PICK t \in Nat : currentTerm'[i] = t
    BY DEF TypeInv, TypeOK
  <2>2. GrantedBy(v, i, t)' /\ GrantedBy(v, j, t)'
    BY <2>1 DEF GrantedBy
  <2>3. ~Retired(i, t)' /\ ~Retired(j, t)'
    BY <2>1, SMTT(30) DEF Retired
  <2>4. ~Retired(i, t) /\ ~Retired(j, t)
    BY <2>3, RetiredForever DEF CampaignStep
  <2>5. CASE GrantedBy(v, i, t) /\ GrantedBy(v, j, t)
    <3>1. /\ state[i] = Candidate /\ currentTerm[i] = t
          /\ state[j] = Candidate /\ currentTerm[j] = t
      BY <2>5, <2>1, OldVotes, ZenonT(30)
    <3> QED
      BY <2>5, <3>1 DEF CampaignInv, CandidatesDisjoint
  <2>6. CASE GrantedBy(v, i, t) /\ ~GrantedBy(v, j, t)
    <3>1. v = s /\ NewVote(s, j, t)
      BY <2>6, <2>2 DEF CampaignStep
    <3> QED
      BY <2>4, <2>6, <3>1, NewVotes
  <2>7. CASE ~GrantedBy(v, i, t) /\ GrantedBy(v, j, t)
    <3>1. v = s /\ NewVote(s, i, t)
      BY <2>7, <2>2 DEF CampaignStep
    <3> QED
      BY <2>4, <2>7, <3>1, NewVotes
  <2>8. CASE ~GrantedBy(v, i, t) /\ ~GrantedBy(v, j, t)
    <3>1. NewVote(s, i, t) /\ NewVote(s, j, t)
      BY <2>8, <2>2 DEF CampaignStep
    <3> QED
      BY <3>1 DEF NewVote
  <2> QED
    BY <2>5, <2>6, <2>7, <2>8
<1>3. LeadersElected'
  <2> SUFFICES ASSUME NEW e \in elections
               PROVE  /\ Retired(e.leader, e.term)'
                      /\ e.leader \in e.votes
                      /\ IsMajority(e.votes \ {e.leader})
                      /\ \A v \in e.votes : GrantedBy(v, e.leader, e.term)'
    BY DEF LeadersElected, CampaignStep, IsMajority
  <2>1. e.leader \in Server /\ e.term \in Nat /\ e.votes \subseteq Server
    BY ZenonT(30) DEF TypeInv, TypeOK
  <2>2. /\ Retired(e.leader, e.term)
        /\ e.leader \in e.votes
        /\ IsMajority(e.votes \ {e.leader})
        /\ \A v \in e.votes : GrantedBy(v, e.leader, e.term)
    BY DEF CampaignInv, LeadersElected
  <2>3. Retired(e.leader, e.term)'
    BY <2>1, <2>2, RetiredForever DEF CampaignStep
  <2>4. \A v \in e.votes : GrantedBy(v, e.leader, e.term)'
    BY <2>1, <2>2 DEF CampaignStep
  <2> QED
    BY <2>2, <2>3, <2>4
<1>4. LeadersDisjoint'
  <2> SUFFICES ASSUME NEW e \in elections, NEW i \in Server,
                      state'[i] = Candidate, currentTerm'[i] = e.term,
                      NEW v \in e.votes, GrantedBy(v, i, e.term)'
               PROVE  FALSE
    BY DEF LeadersDisjoint, CampaignStep
  <2>1. e.leader \in Server /\ e.term \in Nat /\ v \in Server
    BY ZenonT(30) DEF TypeInv, TypeOK
  <2>2. ~Retired(i, e.term)
    <3>1. ~Retired(i, e.term)'
      BY <2>1, SMTT(30) DEF Retired
    <3> QED
      BY <2>1, <3>1, RetiredForever DEF CampaignStep
  <2>3. CASE GrantedBy(v, i, e.term)
    <3>1. state[i] = Candidate /\ currentTerm[i] = e.term
      BY <2>1, <2>3, OldVotes
    <3> QED
      BY <2>3, <3>1 DEF CampaignInv, LeadersDisjoint
  <2>4. CASE ~GrantedBy(v, i, e.term)
    <3>1. v = s /\ NewVote(s, i, e.term)
      BY <2>1, <2>4 DEF CampaignStep
    <3>2. GrantedBy(v, e.leader, e.term) /\ Retired(e.leader, e.term)
      BY ZenonT(30) DEF CampaignInv, LeadersElected
    <3> QED
      BY <2>1, <2>2, <3>1, <3>2, NewVotes
  <2> QED
    BY <2>3, <2>4
<1>5. ElectionSafety'
  BY DEF CampaignInv, ElectionSafety, CampaignStep
<1> QED
  BY <1>1, <1>2, <1>3, <1>4, <1>5 DEF CampaignInv, CampaignStep

\* becomeLeader: the votes behind it meet those behind any other leader of the
\* term, and every other candidate of the term has other voters.
LEMMA BecomeLeaderInv ==
  ASSUME TypeInv, TypeInv', CampaignInv, NEW i \in Server, BecomeLeader(i)
  PROVE  CampaignInv' /\ NoComeback
<1> DEFINE t == currentTerm[i]
           new == [term |-> t, leader |-> i, votes |-> votes[i]]
<1>1. UNCHANGED <<currentTerm, votedFor, votes, voteReq, voteRep>>
  BY DEF BecomeLeader, voteMsgs
<1>2. /\ state[i] = Candidate /\ IsMajority(votes[i] \ {i})
      /\ state' = [state EXCEPT ![i] = Leader]
      /\ elections' = elections \cup {new}
  BY DEF BecomeLeader
<1>3. \A j \in Server : state'[j] = Candidate => j # i /\ state[j] = Candidate
  BY <1>2 DEF TypeInv, TypeOK, Candidate, Leader
<1>4. t \in Nat /\ votes[i] \subseteq Server
  BY DEF TypeInv, TypeOK
<1>5. NoComeback
  <2>1. \A d \in Server : currentTerm[d] \in Nat
    BY DEF TypeInv, TypeOK
  <2> QED
    BY <1>1, <1>3, <2>1, SMTT(30) DEF NoComeback
<1>6. ASSUME NEW w, NEW d, NEW u
      PROVE  GrantedBy(w, d, u)' <=> GrantedBy(w, d, u)
  BY <1>1 DEF GrantedBy
<1>7. i \in votes[i] /\ \A v \in votes[i] : GrantedBy(v, i, t)
  BY <1>2 DEF CampaignInv, VotesGranted
<1>8. SendersTerm'
  BY <1>1 DEF CampaignInv, SendersTerm
<1>9. VotesKept'
  <2> SUFFICES ASSUME NEW v \in Server, NEW c \in Server, NEW u \in VoteTerms,
                      GrantedBy(v, c, u)
               PROVE  /\ u <= currentTerm[v]
                      /\ currentTerm[v] = u
                         => /\ votedFor[v] # Nil
                            /\ votedFor[v] = c \/ Retired(votedFor[v], u)'
    BY <1>1, <1>6, SMTT(30) DEF VotesKept, VoteTerms, Retired
  <2>1. /\ u <= currentTerm[v]
        /\ currentTerm[v] = u
           => /\ votedFor[v] # Nil
              /\ votedFor[v] = c \/ Retired(votedFor[v], u)
    BY DEF CampaignInv, VotesKept
  <2>2. votedFor[v] # Nil => votedFor[v] \in Server
    BY DEF TypeInv, TypeOK
  <2> QED
    BY <1>1, <1>3, <2>1, <2>2 DEF Retired
<1>10. VotesGranted'
  <2> SUFFICES ASSUME NEW j \in Server, state'[j] = Candidate
               PROVE  /\ j \in votes[j]
                      /\ \A v \in votes[j] : GrantedBy(v, j, currentTerm[j])
    BY <1>1 DEF VotesGranted, GrantedBy
  <2> QED
    BY <1>3 DEF CampaignInv, VotesGranted
<1>11. CandidatesDisjoint'
  <2> SUFFICES ASSUME NEW j \in Server, NEW k \in Server, j # k,
                      state'[j] = Candidate, state'[k] = Candidate,
                      currentTerm[j] = currentTerm[k], NEW v \in Server,
                      GrantedBy(v, j, currentTerm[j]),
                      GrantedBy(v, k, currentTerm[j])
               PROVE  FALSE
    BY <1>1, SMTT(30) DEF CandidatesDisjoint, GrantedBy
  <2> QED
    BY <1>3 DEF CampaignInv, CandidatesDisjoint
<1>12. ASSUME NEW e \in elections
       PROVE  /\ e.leader \in e.votes /\ e.leader \in Server
              /\ e.votes \in SUBSET Server
              /\ Retired(e.leader, e.term) /\ e.term \in Nat
              /\ IsMajority(e.votes \ {e.leader})
              /\ \A v \in e.votes : GrantedBy(v, e.leader, e.term)
  BY ZenonT(30) DEF CampaignInv, LeadersElected, TypeInv, TypeOK
<1>13. LeadersElected'
  <2> SUFFICES ASSUME NEW e \in elections'
               PROVE  /\ Retired(e.leader, e.term)'
                      /\ e.leader \in e.votes
                      /\ IsMajority(e.votes \ {e.leader})
                      /\ \A v \in e.votes : GrantedBy(v, e.leader, e.term)'
    BY DEF LeadersElected, IsMajority
  <2>1. CASE e \in elections
    BY <1>5, <1>6, <1>12, <2>1, RetiredForever
  <2>2. CASE e = new
    <3>1. e.leader = i /\ e.term = currentTerm[i] /\ e.votes = votes[i]
      BY <2>2
    <3>2. Retired(i, e.term)'
      BY <1>1, <1>3, <3>1 DEF Retired
    <3>3. \A v \in e.votes : GrantedBy(v, i, e.term)'
      BY <1>6, <1>7, <3>1
    <3> QED
      BY <1>2, <1>7, <3>1, <3>2, <3>3
  <2> QED
    BY <1>2, <2>1, <2>2
<1>14. LeadersDisjoint'
  <2> SUFFICES ASSUME NEW e \in elections', NEW j \in Server,
                      state'[j] = Candidate, currentTerm[j] = e.term,
                      NEW v \in e.votes, GrantedBy(v, j, e.term)
               PROVE  FALSE
    BY <1>1, <1>6 DEF LeadersDisjoint
  <2>1. j # i /\ state[j] = Candidate
    BY <1>3
  <2>2. CASE e \in elections
    BY <2>1, <2>2 DEF CampaignInv, LeadersDisjoint
  <2>3. CASE e = new
    <3>1. v \in votes[i] /\ v \in Server /\ e.term = currentTerm[i]
      BY <1>4, <2>3
    <3>2. GrantedBy(v, i, currentTerm[i]) /\ GrantedBy(v, j, currentTerm[i])
      BY <1>7, <3>1
    <3> QED
      BY <1>2, <2>1, <3>1, <3>2 DEF CampaignInv, CandidatesDisjoint
  <2> QED
    BY <1>2, <2>2, <2>3
<1>15. ElectionSafety'
  <2>1. ASSUME NEW e \in elections, e.term = t PROVE FALSE
    <3>1. e.leader \in e.votes /\ e.votes \in SUBSET Server
          /\ IsMajority(e.votes \ {e.leader})
      BY <1>12
    <3>2. PICK v \in Server : v \in e.votes /\ v \in votes[i]
      BY <1>2, <1>4, <1>7, <3>1, QuorumsMeet, ZenonT(30)
    <3>3. GrantedBy(v, i, e.term)
      BY <1>7, <2>1, <3>2
    <3> QED
      BY <1>2, <2>1, <3>2, <3>3 DEF CampaignInv, LeadersDisjoint
  <2>2. \A e, f \in elections : e.term = f.term => e.leader = f.leader
    BY DEF CampaignInv, ElectionSafety
  <2>3. new.term = t
    OBVIOUS
  <2> HIDE DEF new
  <2> QED
    BY <1>2, <2>1, <2>2, <2>3, SMTT(30) DEF ElectionSafety
<1> QED
  BY <1>5, <1>8, <1>9, <1>10, <1>11, <1>13, <1>14, <1>15 DEF CampaignInv

----------------------------------------------------------------------------
(* Every action is a CampaignStep of the server it runs on, or             *)
(* BecomeLeader.                                                           *)

\* Steps that leave the elections alone.
LEMMA QuietStep ==
  ASSUME TypeInv, CampaignInv, NEW s \in Server,
         UNCHANGED <<currentTerm, votedFor, state, votes, elections, voteReq,
                     voteRep>>
  PROVE  CampaignStep(s)
<1>1. \A d \in Server : currentTerm[d] \in Nat
  BY DEF TypeInv, TypeOK
<1>2. NoComeback
  BY <1>1, SMTT(30) DEF NoComeback
<1>3. VotesGranted' /\ SendersTerm'
  BY DEF CampaignInv, VotesGranted, GrantedBy, SendersTerm
<1>4. ASSUME NEW w, NEW d, NEW u
      PROVE  GrantedBy(w, d, u)' <=> GrantedBy(w, d, u)
  BY DEF GrantedBy
<1> QED
  BY <1>2, <1>3, <1>4 DEF CampaignStep, VoteReplaced

\* Steps after which s is a follower: becomeFollower on an answer with a newer
\* term, AppendEntries, a restart.
LEMMA FollowerStep ==
  ASSUME TypeInv, CampaignInv, NEW s \in Server, NEW term \in Nat, NEW vote,
         state' = [state EXCEPT ![s] = Follower],
         currentTerm' = [currentTerm EXCEPT ![s] = term],
         votedFor' = [votedFor EXCEPT ![s] = vote],
         term >= currentTerm[s],
         VoteReplaced(s) => vote \in Server /\ Retired(vote, term),
         \A j \in Server \ {s} : votes'[j] = votes[j],
         UNCHANGED <<elections, voteReq, voteRep>>
  PROVE  CampaignStep(s)
<1>1. \A d \in Server : currentTerm[d] \in Nat
  BY DEF TypeInv, TypeOK
<1>2. /\ currentTerm'[s] = term /\ votedFor'[s] = vote /\ state'[s] = Follower
      /\ \A j \in Server \ {s} : /\ currentTerm'[j] = currentTerm[j]
                                 /\ votedFor'[j] = votedFor[j]
                                 /\ state'[j] = state[j]
  BY DEF TypeInv, TypeOK
<1>3. NoComeback
  BY <1>1, <1>2, SMTT(30) DEF NoComeback, Follower, Candidate
<1>4. ASSUME NEW w, NEW d, NEW u
      PROVE  GrantedBy(w, d, u)' <=> GrantedBy(w, d, u)
  BY DEF GrantedBy
<1>5. VotesGranted'
  <2> SUFFICES ASSUME NEW j \in Server, state'[j] = Candidate
               PROVE  /\ j \in votes'[j]
                      /\ \A v \in votes'[j] : GrantedBy(v, j, currentTerm'[j])
    BY SMTT(30) DEF VotesGranted, GrantedBy
  <2>1. j # s
    BY <1>2 DEF Follower, Candidate
  <2> QED
    BY <1>2, <2>1 DEF CampaignInv, VotesGranted
<1>6. SendersTerm'
  <2>1. ASSUME NEW m \in voteReq PROVE m.term <= currentTerm'[m.candidateId]
    <3>1. m.candidateId \in Server /\ m.term \in Nat
      BY ZenonT(30) DEF TypeInv, TypeOK, VoteRequest
    <3>2. m.term <= currentTerm[m.candidateId]
      BY DEF CampaignInv, SendersTerm
    <3> QED
      BY <1>1, <1>2, <3>1, <3>2, SMTT(30)
  <2>2. ASSUME NEW r \in voteRep PROVE r.reqTerm <= currentTerm'[r.candidateId]
    <3>1. r.candidateId \in Server /\ r.reqTerm \in Nat
      BY ZenonT(30) DEF TypeInv, TypeOK, VoteReply
    <3>2. r.reqTerm <= currentTerm[r.candidateId]
      BY DEF CampaignInv, SendersTerm
    <3> QED
      BY <1>1, <1>2, <3>1, <3>2, SMTT(30)
  <2> QED
    BY <2>1, <2>2 DEF SendersTerm
<1>7. VoteReplaced(s) => votedFor'[s] \in Server /\ Retired(votedFor'[s], currentTerm[s])
  BY <1>2 DEF VoteReplaced
<1> QED
  BY <1>2, <1>3, <1>4, <1>5, <1>6, <1>7 DEF CampaignStep

\* election: the candidate votes for itself, in a term in which nobody can
\* have voted for it, nor it for anybody.
LEMMA ElectionStep ==
  ASSUME TypeInv, CampaignInv, NEW i \in Server, Election(i)
  PROVE  CampaignStep(i)
<1> DEFINE t == currentTerm[i] + 1
           m == [term |-> t, candidateId |-> i,
                 lastLogTerm |-> LastTerm(log[i]),
                 lastLogIndex |-> Len(log[i])]
<1>1. \A d \in Server : currentTerm[d] \in Nat
  BY DEF TypeInv, TypeOK
<1>2. /\ currentTerm'[i] = t /\ votedFor'[i] = i
      /\ \A j \in Server \ {i} : /\ currentTerm'[j] = currentTerm[j]
                                 /\ votedFor'[j] = votedFor[j]
                                 /\ state'[j] = state[j]
                                 /\ votes'[j] = votes[j]
      /\ votes'[i] = {i}
  BY DEF Election, TypeInv, TypeOK
<1>3. voteReq' = voteReq \cup {m} /\ UNCHANGED <<voteRep, elections>>
  BY <1>2 DEF Election
<1>4. m.term = t /\ m.candidateId = i
  OBVIOUS
<1> HIDE DEF m
<1>5. NoComeback
  BY <1>1, <1>2, SMTT(30) DEF NoComeback
<1>6. ASSUME NEW w, NEW d, NEW u, GrantedBy(w, d, u) PROVE GrantedBy(w, d, u)'
  BY <1>3, <1>6 DEF GrantedBy
<1>7. ASSUME NEW w, NEW d, NEW u, GrantedBy(w, d, u)'
      PROVE  GrantedBy(w, d, u) \/ (w = i /\ NewVote(i, d, u))
  <2>1. GrantedBy(w, d, u) \/ (w = i /\ d = i /\ u = t)
    BY <1>3, <1>4, <1>7 DEF GrantedBy
  <2>2. currentTerm[i] # t
    BY <1>1, SMTT(30)
  <2> QED
    BY <1>2, <2>1, <2>2 DEF NewVote
<1>8. VotesGranted'
  <2> SUFFICES ASSUME NEW j \in Server, state'[j] = Candidate, NEW u,
                      u = currentTerm'[j]
               PROVE  j \in votes'[j] /\ \A v \in votes'[j] : GrantedBy(v, j, u)'
    BY SMTT(30) DEF VotesGranted, GrantedBy
  <2>1. CASE j = i
    BY <1>2, <1>3, <1>4, <2>1 DEF GrantedBy
  <2>2. CASE j # i
    BY <1>2, <1>6, <2>2 DEF CampaignInv, VotesGranted
  <2> QED
    BY <2>1, <2>2
<1>9. SendersTerm'
  <2>1. ASSUME NEW x \in voteReq' PROVE x.term <= currentTerm'[x.candidateId]
    <3>1. CASE x \in voteReq
      <4>1. x.candidateId \in Server /\ x.term \in Nat
        BY <3>1, ZenonT(30) DEF TypeInv, TypeOK, VoteRequest
      <4>2. x.term <= currentTerm[x.candidateId]
        BY <3>1 DEF CampaignInv, SendersTerm
      <4> QED
        BY <1>1, <1>2, <4>1, <4>2, SMTT(30)
    <3>2. CASE x = m
      BY <1>1, <1>2, <1>4, <3>2, SMTT(30)
    <3> QED
      BY <1>3, <3>1, <3>2
  <2>2. ASSUME NEW r \in voteRep PROVE r.reqTerm <= currentTerm'[r.candidateId]
    <3>1. r.candidateId \in Server /\ r.reqTerm \in Nat
      BY ZenonT(30) DEF TypeInv, TypeOK, VoteReply
    <3>2. r.reqTerm <= currentTerm[r.candidateId]
      BY DEF CampaignInv, SendersTerm
    <3> QED
      BY <1>1, <1>2, <3>1, <3>2, SMTT(30)
  <2> QED
    BY <1>3, <2>1, <2>2 DEF SendersTerm
<1>10. ~VoteReplaced(i)
  BY <1>1, <1>2, SMTT(30) DEF VoteReplaced
<1> QED
  BY <1>2, <1>3, <1>5, <1>6, <1>7, <1>8, <1>9, <1>10 DEF CampaignStep

\* RequestVote: a vote is given only in the voter's own term or a newer one,
\* and only to the candidate it has voted for already, if any.
LEMMA RequestVoteStep ==
  ASSUME TypeInv, TypeInv', CampaignInv, NEW v \in Server, NEW m \in voteReq,
         RequestVote(v, m)
  PROVE  CampaignStep(v)
<1> DEFINE newer == m.term > currentTerm[v]
           vote == IF newer THEN Nil ELSE votedFor[v]
           grant == /\ m.term >= currentTerm[v]
                    /\ vote \in {Nil, m.candidateId}
                    /\ IsUpToDate(log[v], m.lastLogTerm, m.lastLogIndex)
           r == [candidateId |-> m.candidateId, reqTerm |-> m.term, voter |-> v,
                 term |-> AnswerTerm(v, m), granted |-> grant]
<1>1. \A d \in Server : currentTerm[d] \in Nat
  BY DEF TypeInv, TypeOK
<1>2. m.candidateId \in Server /\ m.term \in Nat
  BY ZenonT(30) DEF TypeInv, TypeOK, VoteRequest
<1>3. UNCHANGED <<votes, elections, voteReq>>
  BY DEF RequestVote, electionVars
<1>4. /\ voteRep \subseteq voteRep'
      /\ voteRep' \subseteq voteRep \cup {r}
      /\ r \in voteRep' \ voteRep => currentTerm[m.candidateId] = m.term
  BY DEF RequestVote, VoteAwaited
<1>5. r.candidateId = m.candidateId /\ r.reqTerm = m.term /\ r.voter = v
      /\ (r.granted <=> grant)
  OBVIOUS
<1>6. /\ \A j \in Server \ {v} : /\ currentTerm'[j] = currentTerm[j]
                                 /\ votedFor'[j] = votedFor[j]
                                 /\ state'[j] = state[j]
      /\ currentTerm'[v] >= currentTerm[v]
      /\ state'[v] = Candidate => /\ state[v] = Candidate
                                  /\ currentTerm'[v] = currentTerm[v]
      /\ grant => NewVote(v, m.candidateId, m.term)
      /\ ~VoteReplaced(v)
  <2>1. CASE newer
    <3>1. /\ state' = [state EXCEPT ![v] = Follower]
          /\ currentTerm' = [currentTerm EXCEPT ![v] = m.term]
          /\ votedFor' = [votedFor EXCEPT ![v] =
                            IF grant THEN m.candidateId ELSE Nil]
      BY <2>1, ZenonT(30) DEF RequestVote, BecomeFollower
    <3>2. /\ currentTerm'[v] = m.term /\ state'[v] # Candidate
          /\ grant => votedFor'[v] = m.candidateId
          /\ \A j \in Server \ {v} : /\ currentTerm'[j] = currentTerm[j]
                                     /\ votedFor'[j] = votedFor[j]
                                     /\ state'[j] = state[j]
      BY <3>1, ZenonT(30) DEF TypeInv, TypeOK, Follower, Candidate
    <3>3. currentTerm[v] # m.term /\ m.term >= currentTerm[v]
      BY <1>1, <1>2, <2>1, SMTT(30)
    <3> HIDE DEF grant
    <3> QED
      BY <3>2, <3>3 DEF NewVote, VoteReplaced
  <2>2. CASE ~newer /\ grant
    <3>1. /\ votedFor' = [votedFor EXCEPT ![v] = m.candidateId]
          /\ UNCHANGED <<currentTerm, state>>
      BY <2>2, ZenonT(30) DEF RequestVote
    <3>2. /\ votedFor'[v] = m.candidateId
          /\ \A j \in Server \ {v} : votedFor'[j] = votedFor[j]
      BY <3>1 DEF TypeInv, TypeOK
    <3>3. currentTerm[v] = m.term /\ votedFor[v] \in {Nil, m.candidateId}
      BY <1>1, <1>2, <2>2, SMTT(30)
    <3> QED
      BY <1>1, <3>1, <3>2, <3>3, SMTT(30) DEF NewVote, VoteReplaced
  <2>3. CASE ~newer /\ ~grant
    <3>1. UNCHANGED <<currentTerm, votedFor, state>>
      BY <2>3 DEF RequestVote, termVars
    <3> QED
      BY <1>1, <2>3, <3>1, SMTT(30) DEF VoteReplaced
  <2> QED
    BY <2>1, <2>2, <2>3, ZenonT(30)
<1> HIDE DEF r, grant
<1>7. NoComeback
  BY <1>1, <1>6, SMTT(30) DEF NoComeback
<1>8. ASSUME NEW w, NEW d, NEW u, GrantedBy(w, d, u) PROVE GrantedBy(w, d, u)'
  BY <1>3, <1>4, <1>8 DEF GrantedBy
<1>9. ASSUME NEW w, NEW d, NEW u, GrantedBy(w, d, u)'
      PROVE  GrantedBy(w, d, u) \/ (w = v /\ NewVote(v, d, u))
  <2>1. \/ GrantedBy(w, d, u)
        \/ w = v /\ d = m.candidateId /\ u = m.term /\ grant
    BY <1>3, <1>4, <1>5, <1>9 DEF GrantedBy
  <2> QED
    BY <1>6, <2>1
<1>10. VotesGranted'
  <2> SUFFICES ASSUME NEW j \in Server, state'[j] = Candidate, NEW u,
                      u = currentTerm'[j]
               PROVE  j \in votes[j] /\ \A x \in votes[j] : GrantedBy(x, j, u)'
    BY <1>3, SMTT(30) DEF VotesGranted, GrantedBy
  <2>1. state[j] = Candidate /\ u = currentTerm[j]
    BY <1>6
  <2> QED
    BY <1>8, <2>1 DEF CampaignInv, VotesGranted
<1>11. SendersTerm'
  <2>1. ASSUME NEW d \in Server, NEW u \in Nat, u <= currentTerm[d]
        PROVE  u <= currentTerm'[d]
    <3>1. currentTerm'[d] >= currentTerm[d] /\ currentTerm'[d] \in Nat
      BY <1>7 DEF NoComeback, TypeInv, TypeOK
    <3> QED
      BY <1>1, <2>1, <3>1, SMTT(30)
  <2>2. ASSUME NEW x \in voteReq PROVE x.term <= currentTerm'[x.candidateId]
    <3>1. x.candidateId \in Server /\ x.term \in Nat
      BY ZenonT(30) DEF TypeInv, TypeOK, VoteRequest
    <3> QED
      BY <2>1, <3>1 DEF CampaignInv, SendersTerm
  <2>3. ASSUME NEW x \in voteRep'
        PROVE  x.reqTerm <= currentTerm'[x.candidateId]
    <3>1. x.candidateId \in Server /\ x.reqTerm \in Nat
      BY ZenonT(30) DEF TypeInv, TypeOK, VoteReply
    <3>2. CASE x \in voteRep
      BY <2>1, <3>1, <3>2 DEF CampaignInv, SendersTerm
    <3>3. CASE x \notin voteRep
      <4>1. x.reqTerm = currentTerm[x.candidateId]
        BY <1>4, <1>5, <3>3
      <4>2. x.reqTerm <= currentTerm[x.candidateId]
        BY <3>1, <4>1, SMTT(30)
      <4> QED
        BY <2>1, <3>1, <4>2
    <3> QED
      BY <3>2, <3>3
  <2> QED
    BY <1>3, <2>2, <2>3 DEF SendersTerm
<1> QED
  BY <1>3, <1>6, <1>7, <1>8, <1>9, <1>10, <1>11 DEF CampaignStep

\* A vote that arrives is counted only in its term, so that every counted
\* vote was given.
LEMMA VoteReceivedStep ==
  ASSUME TypeInv, CampaignInv, NEW i \in Server, NEW r \in voteRep,
         VoteReceived(i, r)
  PROVE  CampaignStep(i)
<1>1. UNCHANGED <<elections, voteReq, voteRep>>
  BY DEF VoteReceived, voteMsgs
<1>2. r.term \in Nat /\ \A d \in Server : currentTerm[d] \in Nat
  BY ZenonT(30) DEF TypeInv, TypeOK, VoteReply
<1>3. CASE /\ r.term > currentTerm[i]
           /\ BecomeFollower(i, r.term, Nil)
           /\ UNCHANGED votes
  <2>1. /\ state' = [state EXCEPT ![i] = Follower]
        /\ currentTerm' = [currentTerm EXCEPT ![i] = r.term]
        /\ votedFor' = [votedFor EXCEPT ![i] = Nil]
    BY <1>3 DEF BecomeFollower
  <2>2. r.term >= currentTerm[i] /\ r.term # currentTerm[i]
    BY <1>2, <1>3, SMTT(30)
  <2>3. ~VoteReplaced(i)
    BY <2>1, <2>2 DEF VoteReplaced, TypeInv, TypeOK
  <2> QED
    BY <1>1, <1>2, <1>3, <2>1, <2>2, <2>3, FollowerStep, ZenonT(30)
<1>4. CASE /\ r.granted
           /\ votes' = [votes EXCEPT ![i] = @ \cup {r.voter}]
           /\ UNCHANGED termVars
  <2>1. UNCHANGED <<currentTerm, votedFor, state>>
    BY <1>4 DEF termVars
  <2>2. ASSUME NEW w, NEW d, NEW u
        PROVE  GrantedBy(w, d, u)' <=> GrantedBy(w, d, u)
    BY <1>1 DEF GrantedBy
  <2>3. NoComeback
    BY <1>2, <2>1, SMTT(30) DEF NoComeback
  <2>4. VotesGranted'
    <3> SUFFICES ASSUME NEW j \in Server, state[j] = Candidate
                 PROVE  /\ j \in votes'[j]
                        /\ \A v \in votes'[j] : GrantedBy(v, j, currentTerm[j])
      BY <1>1, <2>1 DEF VotesGranted, GrantedBy
    <3>1. /\ j \in votes[j]
          /\ \A v \in votes[j] : GrantedBy(v, j, currentTerm[j])
      BY DEF CampaignInv, VotesGranted
    <3>2. GrantedBy(r.voter, i, currentTerm[i])
      BY <1>4 DEF VoteReceived, GrantedBy
    <3> QED
      BY <1>4, <3>1, <3>2 DEF TypeInv, TypeOK
  <2>5. SendersTerm'
    BY <1>1, <2>1 DEF CampaignInv, SendersTerm
  <2> QED
    BY <1>1, <2>1, <2>2, <2>3, <2>4, <2>5 DEF CampaignStep, VoteReplaced
<1> QED
  BY <1>3, <1>4 DEF VoteReceived

\* AppendEntries may overwrite a vote of the term, but with the sender of the
\* call, which no longer campaigns in it.
LEMMA AppendEntriesStep ==
  ASSUME TypeInv, ElectionInv, NEW v \in Server, NEW m \in appReq,
         AppendEntries(v, m)
  PROVE  CampaignStep(v)
<1>1. UNCHANGED <<votes, elections, voteReq, voteRep>>
  BY ZenonT(30) DEF AppendEntries, electionVars, voteMsgs
<1>2. m.term \in Nat /\ m.leaderId \in Server /\ currentTerm[v] \in Nat
  BY ZenonT(30) DEF TypeInv, TypeOK, AppendRequest
<1>3. CASE UNCHANGED termVars
  BY <1>1, <1>3, QuietStep DEF termVars, ElectionInv
<1>4. CASE m.term >= currentTerm[v] /\ BecomeFollower(v, m.term, m.leaderId)
  <2>1. Retired(m.leaderId, m.term)
    BY DEF ElectionInv, AppendersRetired
  <2> QED
    BY <1>1, <1>2, <1>4, <2>1, FollowerStep, ZenonT(30) DEF BecomeFollower, ElectionInv
<1> QED
  BY <1>3, <1>4, ZenonT(30) DEF AppendEntries

\* An answer with a newer term, to an appender or a heartbeat.
LEMMA AnswerStep ==
  ASSUME TypeInv, ElectionInv, NEW i \in Server, NEW r \in appRep,
         HeartbeatReceived(i, r) \/ \E g \in appenders[i] : AppenderReceived(i, g, r)
  PROVE  CampaignStep(i)
<1>1. UNCHANGED <<votes, elections, voteReq, voteRep>>
  BY DEF HeartbeatReceived, AppenderReceived, electionVars, voteMsgs
<1>2. r.term \in Nat /\ currentTerm[i] \in Nat
  BY DEF TypeInv, TypeOK, AppendReply
<1>3. CASE UNCHANGED termVars
  BY <1>1, <1>3, QuietStep DEF termVars, ElectionInv
<1>4. CASE r.term > currentTerm[i] /\ BecomeFollower(i, r.term, Nil)
  <2>1. r.term >= currentTerm[i] /\ r.term # currentTerm[i]
    BY <1>2, <1>4, SMTT(30)
  <2>2. ~VoteReplaced(i)
    BY <1>4, <2>1 DEF BecomeFollower, VoteReplaced, TypeInv, TypeOK
  <2> QED
    BY <1>1, <1>2, <1>4, <2>1, <2>2, FollowerStep, ZenonT(30) DEF BecomeFollower, ElectionInv
<1> QED
  BY <1>3, <1>4 DEF HeartbeatReceived, AppenderReceived

\* A restarted server has its term and its vote.
LEMMA RestartStep ==
  ASSUME TypeInv, ElectionInv, NEW i \in Server, Restart(i)
  PROVE  CampaignStep(i)
<1>1. UNCHANGED <<elections, voteReq, voteRep>>
  BY DEF Restart, voteMsgs
<1>2. /\ persisted[i].currentTerm = currentTerm[i]
      /\ persisted[i].votedFor = votedFor[i]
      /\ currentTerm[i] \in Nat
  BY SMTT(30) DEF ElectionInv, Durable, TypeInv, TypeOK
<1>3. /\ currentTerm' = [currentTerm EXCEPT ![i] = currentTerm[i]]
      /\ votedFor' = [votedFor EXCEPT ![i] = votedFor[i]]
      /\ state' = [state EXCEPT ![i] = Follower]
  BY <1>2 DEF Restart
<1>4. ~VoteReplaced(i)
  BY <1>3 DEF VoteReplaced, TypeInv, TypeOK
<1>5. \A j \in Server \ {i} : votes'[j] = votes[j]
  BY DEF Restart, TypeInv, TypeOK
<1>6. currentTerm[i] >= currentTerm[i]
  BY <1>2, SMTT(30)
<1> QED
  BY <1>1, <1>2, <1>3, <1>4, <1>5, <1>6, FollowerStep, Zenon DEF ElectionInv

\* To the elections every step of Raft is a step of one server's campaign, or its
\* victory.
LEMMA EveryStep ==
  ASSUME TypeInv, TypeInv', ElectionInv, Next
  PROVE  \E i \in Server : CampaignStep(i) \/ BecomeLeader(i)
<1> USE DEF ElectionInv
<1>1. ASSUME NEW i \in Server, Election(i) PROVE CampaignStep(i)
  BY <1>1, ElectionStep
<1>2. ASSUME NEW v \in Server, NEW m \in voteReq, RequestVote(v, m)
      PROVE  CampaignStep(v)
  BY <1>2, RequestVoteStep
<1>3. ASSUME NEW i \in Server, NEW r \in voteRep, VoteReceived(i, r)
      PROVE  CampaignStep(i)
  BY <1>3, VoteReceivedStep
<1>4. ASSUME NEW i \in Server, NEW c \in Command, Start(i, c)
      PROVE  CampaignStep(i)
  BY <1>4, QuietStep DEF Start, electionVars, voteMsgs
<1>5. ASSUME NEW i \in Server, BroadcastLogs(i) \/ Heartbeat(i) \/ ApplyLog(i)
      PROVE  CampaignStep(i)
  BY <1>5, QuietStep, ZenonT(30) DEF BroadcastLogs, Heartbeat, ApplyLog, termVars,
                         electionVars, voteMsgs
<1>6. ASSUME NEW i \in Server, NEW g \in appenders[i],
             \/ AppenderRead(i, g) \/ AppenderStop(i, g) \/ AppenderSend(i, g)
             \/ AppenderOutdated(i, g)
      PROVE  CampaignStep(i)
  BY <1>6, QuietStep DEF AppenderRead, AppenderStop, AppenderSend,
                         AppenderOutdated, termVars, electionVars, voteMsgs
<1>7. ASSUME NEW i \in Server, NEW g \in appenders[i], NEW r \in appRep,
             AppenderReceived(i, g, r)
      PROVE  CampaignStep(i)
  BY <1>7, AnswerStep
<1>8. ASSUME NEW i \in Server, NEW a \in acks[i], CommitRound(i, a)
      PROVE  CampaignStep(i)
  BY <1>8, QuietStep DEF CommitRound, termVars, electionVars, voteMsgs
<1>9. ASSUME NEW i \in Server, NEW b \in beats[i],
             HeartbeatEnd(i, b) \/ \E p \in Peers(i) : HeartbeatSend(i, b, p)
      PROVE  CampaignStep(i)
  BY <1>9, QuietStep DEF HeartbeatSend, HeartbeatEnd, termVars, electionVars,
                         voteMsgs
<1>10. ASSUME NEW i \in Server, NEW r \in appRep, HeartbeatReceived(i, r)
       PROVE  CampaignStep(i)
  BY <1>10, AnswerStep
<1>11. ASSUME NEW v \in Server, NEW m \in appReq, AppendEntries(v, m)
       PROVE  CampaignStep(v)
  BY <1>11, AppendEntriesStep
<1>12. ASSUME NEW i \in Server, Restart(i) PROVE CampaignStep(i)
  BY <1>12, RestartStep
<1> QED
  BY <1>1, <1>2, <1>3, <1>4, <1>5, <1>6, <1>7, <1>8, <1>9, <1>10, <1>11, <1>12,
     ZenonT(30) DEF Next

----------------------------------------------------------------------------
(* The theorems.                                                           *)

\* persist makes what is saved equal to what the server has.
LEMMA PersistDurable ==
  ASSUME TypeInv, Durable, NEW i \in Server, Persist(i),
         \A j \in Server \ {i} : /\ currentTerm'[j] = currentTerm[j]
                                 /\ votedFor'[j] = votedFor[j]
                                 /\ log'[j] = log[j]
  PROVE  Durable'
  BY DEF TypeInv, TypeOK, Durable, Persist

\* becomeFollower persists the term and the vote that it sets.
LEMMA BecomeFollowerDurable ==
  ASSUME TypeInv, Durable, NEW i \in Server, NEW term, NEW vote,
         BecomeFollower(i, term, vote),
         \A j \in Server \ {i} : log'[j] = log[j]
  PROVE  Durable'
<1>1. \A j \in Server \ {i} : /\ currentTerm'[j] = currentTerm[j]
                              /\ votedFor'[j] = votedFor[j]
  BY DEF BecomeFollower, TypeInv, TypeOK
<1> QED
  BY <1>1, PersistDurable DEF BecomeFollower

\* Steps that touch nothing persistent leave it saved.
LEMMA UnchangedDurable ==
  ASSUME Durable, UNCHANGED <<currentTerm, votedFor, log, persisted>>
  PROVE  Durable'
  BY DEF Durable

\* Every critical section that changes a persistent field calls persist.
LEMMA DurableStep ==
  ASSUME TypeInv, Durable, Next
  PROVE  Durable'
<1>1. ASSUME NEW i \in Server, Election(i) PROVE Durable'
  <2>1. \A j \in Server \ {i} : /\ currentTerm'[j] = currentTerm[j]
                                /\ votedFor'[j] = votedFor[j]
                                /\ log'[j] = log[j]
    BY <1>1 DEF Election, logVars, TypeInv, TypeOK
  <2> QED
    BY <1>1, <2>1, PersistDurable DEF Election
<1>2. ASSUME NEW v \in Server, NEW m \in voteReq, RequestVote(v, m)
      PROVE  Durable'
  <2>1. UNCHANGED log
    BY <1>2 DEF RequestVote, logVars
  <2>2. CASE \E term, vote : BecomeFollower(v, term, vote)
    BY <2>1, <2>2, BecomeFollowerDurable
  <2>3. CASE /\ votedFor' = [votedFor EXCEPT ![v] = m.candidateId]
             /\ UNCHANGED <<currentTerm, state>>
             /\ Persist(v)
    <3>1. \A j \in Server \ {v} : votedFor'[j] = votedFor[j]
      BY <2>3 DEF TypeInv, TypeOK
    <3> QED
      BY <2>1, <2>3, <3>1, PersistDurable
  <2>4. CASE UNCHANGED termVars
    BY <2>1, <2>4, UnchangedDurable DEF termVars
  <2> QED
    BY <1>2, <2>2, <2>3, <2>4 DEF RequestVote
<1>3. ASSUME NEW i \in Server, NEW r \in voteRep, VoteReceived(i, r)
      PROVE  Durable'
  BY <1>3, BecomeFollowerDurable, UnchangedDurable
     DEF VoteReceived, termVars, logVars
<1>4. ASSUME NEW i \in Server, NEW c \in Command, Start(i, c)
      PROVE  Durable'
  <2>1. /\ UNCHANGED <<currentTerm, votedFor>>
        /\ \A j \in Server \ {i} : log'[j] = log[j]
    BY <1>4 DEF Start, TypeInv, TypeOK
  <2> QED
    BY <1>4, <2>1, PersistDurable DEF Start
<1>5. ASSUME NEW i \in Server,
             BecomeLeader(i) \/ BroadcastLogs(i) \/ Heartbeat(i) \/ ApplyLog(i)
      PROVE  Durable'
  BY <1>5, UnchangedDurable DEF BecomeLeader, BroadcastLogs, Heartbeat,
                                ApplyLog, termVars, logVars
<1>6. ASSUME NEW i \in Server, NEW g \in appenders[i],
             \/ AppenderRead(i, g) \/ AppenderStop(i, g) \/ AppenderSend(i, g)
             \/ AppenderOutdated(i, g)
      PROVE  Durable'
  BY <1>6, UnchangedDurable DEF AppenderRead, AppenderStop, AppenderSend,
                                AppenderOutdated, termVars, logVars
<1>7. ASSUME NEW i \in Server, NEW g \in appenders[i], NEW r \in appRep,
             AppenderReceived(i, g, r)
      PROVE  Durable'
  BY <1>7, BecomeFollowerDurable, UnchangedDurable
     DEF AppenderReceived, termVars, logVars
<1>8. ASSUME NEW i \in Server, NEW a \in acks[i], CommitRound(i, a)
      PROVE  Durable'
  BY <1>8, UnchangedDurable DEF CommitRound, termVars, logVars
<1>9. ASSUME NEW i \in Server, NEW b \in beats[i],
             HeartbeatEnd(i, b) \/ \E p \in Peers(i) : HeartbeatSend(i, b, p)
      PROVE  Durable'
  BY <1>9, UnchangedDurable DEF HeartbeatSend, HeartbeatEnd, termVars, logVars
<1>10. ASSUME NEW i \in Server, NEW r \in appRep, HeartbeatReceived(i, r)
       PROVE  Durable'
  BY <1>10, BecomeFollowerDurable DEF HeartbeatReceived, logVars
<1>11. ASSUME NEW v \in Server, NEW m \in appReq, AppendEntries(v, m)
       PROVE  Durable'
  <2>1. \A j \in Server \ {v} : log'[j] = log[j]
    BY <1>11, ZenonT(30) DEF AppendEntries, logVars, TypeInv, TypeOK
  <2>2. CASE BecomeFollower(v, m.term, m.leaderId)
    BY <2>1, <2>2, BecomeFollowerDurable
  <2>3. CASE UNCHANGED <<termVars, logVars>>
    BY <2>3, UnchangedDurable DEF termVars, logVars
  <2> QED
    BY <1>11, <2>2, <2>3, ZenonT(30) DEF AppendEntries
<1>12. ASSUME NEW i \in Server, Restart(i) PROVE Durable'
  <2>1. /\ currentTerm' = [currentTerm EXCEPT ![i] = persisted[i].currentTerm]
        /\ votedFor' = [votedFor EXCEPT ![i] = persisted[i].votedFor]
        /\ log' = [log EXCEPT ![i] = persisted[i].log]
        /\ persisted' = persisted
    BY <1>12 DEF Restart
  <2>2. persisted[i] = [currentTerm |-> currentTerm[i], votedFor |-> votedFor[i],
                        log |-> log[i]]
    BY DEF Durable
  <2>3. UNCHANGED <<currentTerm, votedFor, log>>
    BY <2>1, <2>2, SMTT(30) DEF TypeInv, TypeOK
  <2> QED
    BY <2>1, <2>3, UnchangedDurable
<1> QED
  BY <1>1, <1>2, <1>3, <1>4, <1>5, <1>6, <1>7, <1>8, <1>9, <1>10, <1>11, <1>12
     DEF Next

\* A heartbeat round reads the term of its server.
LEMMA BeatsTermStep ==
  ASSUME TypeInv, TypeInv', BeatsTerm, NoComeback, Next
  PROVE  BeatsTerm'
<1>1. ASSUME NEW i \in Server, Heartbeat(i)
      PROVE  /\ UNCHANGED currentTerm
             /\ \A j \in Server : \A b \in beats'[j] :
                  b \in beats[j] \/ b.term = currentTerm[j]
  BY <1>1, SMTT(30) DEF Heartbeat, termVars, TypeInv, TypeOK
<1>2. \/ \A j \in Server : beats'[j] \subseteq beats[j]
      \/ \E i \in Server : Heartbeat(i)
  <2>1. ASSUME NEW i \in Server,
               Election(i) \/ BecomeLeader(i) \/ BroadcastLogs(i) \/ ApplyLog(i)
        PROVE  UNCHANGED beats
    BY <2>1 DEF Election, BecomeLeader, BroadcastLogs, ApplyLog, leaderVars
  <2>2. ASSUME NEW v \in Server, NEW m \in voteReq, RequestVote(v, m)
        PROVE  UNCHANGED beats
    BY <2>2 DEF RequestVote, leaderVars
  <2>3. ASSUME NEW i \in Server, NEW r \in voteRep, VoteReceived(i, r)
        PROVE  UNCHANGED beats
    BY <2>3 DEF VoteReceived, leaderVars
  <2>4. ASSUME NEW i \in Server, NEW c \in Command, Start(i, c)
        PROVE  UNCHANGED beats
    BY <2>4 DEF Start
  <2>5. ASSUME NEW i \in Server, NEW g \in appenders[i],
               \/ AppenderRead(i, g) \/ AppenderStop(i, g) \/ AppenderSend(i, g)
               \/ AppenderOutdated(i, g)
               \/ \E r \in appRep : AppenderReceived(i, g, r)
        PROVE  UNCHANGED beats
    BY <2>5 DEF AppenderRead, AppenderStop, AppenderSend, AppenderOutdated,
                AppenderReceived, leaderVars
  <2>6. ASSUME NEW i \in Server, NEW a \in acks[i], CommitRound(i, a)
        PROVE  UNCHANGED beats
    BY <2>6 DEF CommitRound, leaderVars
  <2>7. ASSUME NEW i \in Server, NEW b \in beats[i], NEW p \in Peers(i),
               HeartbeatSend(i, b, p)
        PROVE  UNCHANGED beats
    BY <2>7 DEF HeartbeatSend, leaderVars
  <2>8. ASSUME NEW i \in Server, NEW r \in appRep, HeartbeatReceived(i, r)
        PROVE  UNCHANGED beats
    BY <2>8 DEF HeartbeatReceived, leaderVars
  <2>9. ASSUME NEW v \in Server, NEW m \in appReq, AppendEntries(v, m)
        PROVE  UNCHANGED beats
    BY <2>9 DEF AppendEntries, leaderVars
  <2>10. ASSUME NEW i \in Server, Restart(i)
         PROVE  \A j \in Server : beats'[j] \subseteq beats[j]
    <3>1. beats' = [beats EXCEPT ![i] = {}]
      BY <2>10, Zenon DEF Restart
    <3> QED
      BY <3>1 DEF TypeInv, TypeOK
  <2>11. ASSUME NEW i \in Server, NEW b \in beats[i], HeartbeatEnd(i, b)
         PROVE  \A j \in Server : beats'[j] \subseteq beats[j]
    <3>1. beats' = [beats EXCEPT ![i] = @ \ {b}]
      BY <2>11, Zenon DEF HeartbeatEnd
    <3> QED
      BY <3>1 DEF TypeInv, TypeOK
  <2>12. CASE UNCHANGED beats
    BY <2>12
  <2> QED
    BY ZenonT(30), <2>1, <2>2, <2>3, <2>4, <2>5, <2>6, <2>7, <2>8, <2>9, <2>10,
       <2>11, <2>12 DEF Next
<1> SUFFICES ASSUME NEW j \in Server, NEW b \in beats'[j]
             PROVE  b.term <= currentTerm'[j]
  BY DEF BeatsTerm
<1>3. /\ b.term \in Nat /\ currentTerm[j] \in Nat /\ currentTerm'[j] \in Nat
      /\ currentTerm'[j] >= currentTerm[j]
  BY SMTT(30) DEF TypeInv, TypeOK, Beat, NoComeback
<1>4. CASE b \in beats[j]
  <2>1. b.term <= currentTerm[j]
    BY <1>4 DEF BeatsTerm
  <2> QED
    BY <1>3, <2>1, SMTT(30)
<1>5. CASE b.term = currentTerm[j]
  BY <1>3, <1>5
<1> QED
  BY <1>1, <1>2, <1>4, <1>5

\* Only a leader calls AppendEntries, in its term or an earlier one.
LEMMA AppendersRetiredStep ==
  ASSUME TypeInv, TypeInv', BeatsTerm, AppendersRetired, NoComeback, Next
  PROVE  AppendersRetired'
<1>1. ASSUME NEW i \in Server, NEW t \in Nat, t <= currentTerm[i],
             state[i] = Leader
      PROVE  Retired(i, t)
  <2>1. currentTerm[i] \in Nat
    BY DEF TypeInv, TypeOK
  <2> QED
    BY <1>1, <2>1, SMTT(30) DEF Retired, Leader, Candidate
<1>2. ASSUME NEW i \in Server, NEW g \in appenders[i], AppenderSend(i, g),
             NEW m \in appReq', m \notin appReq
      PROVE  Retired(m.leaderId, m.term)
  <2>1. m.leaderId = i /\ m.term = g.term
    <3>1. m = AppendArgs(i, g)
      BY <1>2 DEF AppenderSend
    <3> QED
      BY <3>1 DEF AppendArgs
  <2>2. g.term \in Nat /\ g.term <= currentTerm[i] /\ state[i] = Leader
    BY <1>2, SMTT(30) DEF AppenderSend, MustStop, TypeInv, TypeOK, Appender, RoundsInLog
  <2> QED
    BY <1>1, <2>1, <2>2
<1>3. ASSUME NEW i \in Server, NEW b \in beats[i], NEW p \in Peers(i),
             HeartbeatSend(i, b, p), NEW m \in appReq', m \notin appReq
      PROVE  Retired(m.leaderId, m.term)
  <2>1. m.leaderId = i /\ m.term = b.term /\ state[i] = Leader
    <3>1. /\ state[i] = Leader
          /\ m = [term |-> b.term, leaderId |-> i, peer |-> p,
                  prevLogIndex |-> nextIndex[i][p] - 1,
                  prevLogTerm |-> TermAt(log[i], nextIndex[i][p] - 1),
                  entries |-> << >>, leaderCommit |-> b.commitIndex,
                  caller |-> "heartbeat"]
      BY <1>3, ZenonT(30) DEF HeartbeatSend
    <3> QED
      BY <3>1, Zenon
  <2>2. b.term \in Nat /\ b.term <= currentTerm[i]
    BY SMTT(30) DEF TypeInv, TypeOK, Beat, BeatsTerm
  <2> QED
    BY <1>1, <2>1, <2>2
<1>4. \/ appReq' = appReq
      \/ \E i \in Server : \E g \in appenders[i] : AppenderSend(i, g)
      \/ \E i \in Server : \E b \in beats[i], p \in Peers(i) : HeartbeatSend(i, b, p)
  <2>1. ASSUME NEW i \in Server,
               \/ Election(i) \/ BecomeLeader(i) \/ BroadcastLogs(i)
               \/ Heartbeat(i) \/ ApplyLog(i) \/ Restart(i)
        PROVE  UNCHANGED appReq
    BY <2>1, Zenon DEF Election, BecomeLeader, BroadcastLogs, Heartbeat, ApplyLog,
                Restart, appMsgs
  <2>2. ASSUME NEW v \in Server, NEW m \in voteReq, RequestVote(v, m)
        PROVE  UNCHANGED appReq
    BY <2>2, Zenon DEF RequestVote, appMsgs
  <2>3. ASSUME NEW i \in Server, NEW r \in voteRep, VoteReceived(i, r)
        PROVE  UNCHANGED appReq
    BY <2>3, Zenon DEF VoteReceived, appMsgs
  <2>4. ASSUME NEW i \in Server, NEW c \in Command, Start(i, c)
        PROVE  UNCHANGED appReq
    BY <2>4 DEF Start, appMsgs
  <2>5. ASSUME NEW i \in Server, NEW g \in appenders[i],
               \/ AppenderRead(i, g) \/ AppenderStop(i, g)
               \/ AppenderOutdated(i, g)
               \/ \E r \in appRep : AppenderReceived(i, g, r)
        PROVE  UNCHANGED appReq
    BY <2>5 DEF AppenderRead, AppenderStop, AppenderOutdated,
                AppenderReceived, appMsgs
  <2>6. ASSUME NEW i \in Server, NEW a \in acks[i], CommitRound(i, a)
        PROVE  UNCHANGED appReq
    BY <2>6 DEF CommitRound, appMsgs
  <2>7. ASSUME NEW i \in Server, NEW b \in beats[i], HeartbeatEnd(i, b)
        PROVE  UNCHANGED appReq
    BY <2>7 DEF HeartbeatEnd, appMsgs
  <2>8. ASSUME NEW i \in Server, NEW r \in appRep, HeartbeatReceived(i, r)
        PROVE  UNCHANGED appReq
    BY <2>8 DEF HeartbeatReceived, appMsgs
  <2>9. ASSUME NEW v \in Server, NEW m \in appReq, AppendEntries(v, m)
        PROVE  UNCHANGED appReq
    BY <2>9 DEF AppendEntries, appMsgs
  <2> QED
    BY <2>1, <2>2, <2>3, <2>4, <2>5, <2>6, <2>7, <2>8, <2>9, Zenon DEF Next
<1> SUFFICES ASSUME NEW m \in appReq' PROVE Retired(m.leaderId, m.term)'
  BY DEF AppendersRetired
<1>5. m.leaderId \in Server /\ m.term \in Nat
  BY ZenonT(30) DEF TypeInv, TypeOK, AppendRequest
<1>6. Retired(m.leaderId, m.term)
  BY <1>2, <1>3, <1>4 DEF AppendersRetired
<1> QED
  BY <1>5, <1>6, RetiredForever

----------------------------------------------------------------------------
\* Make leaves no vote, no message and no leader behind.
LEMMA InitElection == Init => ElectionInv
<1> SUFFICES ASSUME Init PROVE ElectionInv
  OBVIOUS
<1>1. Durable /\ BeatsTerm /\ AppendersRetired
  BY DEF Init, Durable, BeatsTerm, AppendersRetired
<1>2. CampaignInv
  BY Zenon DEF Init, CampaignInv, SendersTerm, VotesKept, VoteTerms, GrantedBy,
         VotesGranted, CandidatesDisjoint, LeadersElected, LeadersDisjoint,
         ElectionSafety, Follower, Candidate
<1> QED
  BY <1>1, <1>2 DEF ElectionInv

\* What every step does, in a state that satisfies the invariant.
LEMMA StepElection ==
  ASSUME TypeInv, TypeInv', ElectionInv, Next
  PROVE  ElectionInv' /\ NoComeback
<1>1. PICK i \in Server : CampaignStep(i) \/ BecomeLeader(i)
  BY EveryStep
<1>2. CampaignInv' /\ NoComeback
  <2>1. CASE CampaignStep(i)
    BY <2>1, CampaignStepInv, ZenonT(30) DEF ElectionInv, CampaignStep
  <2>2. CASE BecomeLeader(i)
    BY <2>2, BecomeLeaderInv DEF ElectionInv
  <2> QED
    BY <1>1, <2>1, <2>2
<1>3. Durable'
  BY DurableStep DEF ElectionInv
<1>4. BeatsTerm' /\ AppendersRetired'
  BY <1>2, BeatsTermStep, AppendersRetiredStep DEF ElectionInv
<1> QED
  BY <1>2, <1>3, <1>4 DEF ElectionInv

\* A stuttering step keeps the election invariant.
LEMMA UnchangedElection ==
  ASSUME ElectionInv, UNCHANGED vars
  PROVE  ElectionInv'
<1>1. /\ currentTerm' = currentTerm /\ votedFor' = votedFor /\ state' = state
      /\ persisted' = persisted /\ log' = log /\ votes' = votes
      /\ elections' = elections /\ beats' = beats /\ voteReq' = voteReq
      /\ voteRep' = voteRep /\ appReq' = appReq
  BY VarsUnchanged
<1>2. Durable' /\ BeatsTerm' /\ SendersTerm'
  BY <1>1, Zenon DEF ElectionInv, CampaignInv, Durable, BeatsTerm, SendersTerm
<1>3. AppendersRetired'
  BY <1>1, ZenonT(30) DEF ElectionInv, AppendersRetired, Retired
<1>4. VotesKept'
  BY <1>1, SMTT(30) DEF ElectionInv, CampaignInv, VotesKept, VoteTerms, GrantedBy, Retired
<1>5. VotesGranted'
  BY <1>1 DEF ElectionInv, CampaignInv, VotesGranted, GrantedBy
<1>6. CandidatesDisjoint'
  BY <1>1, SMTT(30) DEF ElectionInv, CampaignInv, CandidatesDisjoint, GrantedBy
<1>7. LeadersElected'
  BY <1>1, SMTT(30) DEF ElectionInv, CampaignInv, LeadersElected, GrantedBy, Retired
<1>8. LeadersDisjoint' /\ ElectionSafety'
  BY <1>1, SMTT(30) DEF ElectionInv, CampaignInv, LeadersDisjoint, ElectionSafety, GrantedBy
<1> QED
  BY <1>2, <1>3, <1>4, <1>5, <1>6, <1>7, <1>8, ZenonT(30) DEF ElectionInv, CampaignInv

\* The election invariant holds in every state that Raft reaches.
LEMMA ElectionInvariant == Spec => [](TypeInv /\ ElectionInv)
<1>1. Init => TypeInv /\ ElectionInv
  BY InitTypes, InitElection
<1>2. TypeInv /\ ElectionInv /\ [Next]_vars => (TypeInv /\ ElectionInv)'
  BY StepTypes, StepElection, UnchangedElection
<1> QED
  BY <1>1, <1>2, PTL DEF Spec

\* No two servers become leader in the same term, however many servers,
\* elections, restarts and repeated or delayed calls there are.
THEOREM ElectionSafe == Spec => []ElectionSafety
<1>1. ElectionInv => ElectionSafety
  BY DEF ElectionInv, CampaignInv
<1> QED
  BY <1>1, ElectionInvariant, PTL

\* The term of a server never goes back, over restarts too.
THEOREM TermNeverBack == Spec => TermMonotone
<1>1. TypeInv /\ TypeInv' /\ ElectionInv /\ [Next]_vars
      => [\A i \in Server : currentTerm'[i] >= currentTerm[i]]_vars
  BY StepElection DEF NoComeback
<1> QED
  BY <1>1, ElectionInvariant, PTL DEF Spec, TermMonotone

\* A vote is only replaced, within its term, by a server that has stopped
\* campaigning in it.
THEOREM VotesAreStable == Spec => VoteStable
<1>1. ASSUME TypeInv, TypeInv', ElectionInv, Next, NEW v \in Server,
             VoteReplaced(v)
      PROVE  votedFor'[v] # Nil /\ Retired(votedFor'[v], currentTerm[v])
  <2>1. PICK i \in Server : CampaignStep(i) \/ BecomeLeader(i)
    BY <1>1, EveryStep
  <2>2. CASE BecomeLeader(i)
    BY <1>1, <2>2 DEF BecomeLeader, VoteReplaced
  <2>3. CASE CampaignStep(i)
    <3>1. v = i
      BY <1>1, <2>3 DEF CampaignStep, VoteReplaced
    <3> QED
      BY <1>1, <2>3, <3>1, ServerAssumption, ZenonT(30) DEF CampaignStep
  <2> QED
    BY <2>1, <2>2, <2>3
<1>2. TypeInv /\ TypeInv' /\ ElectionInv /\ [Next]_vars
      => [\A v \in Server :
            /\ currentTerm'[v] = currentTerm[v]
            /\ votedFor[v] # Nil
            /\ votedFor'[v] # votedFor[v]
            => /\ votedFor'[v] # Nil
               /\ Retired(votedFor'[v], currentTerm[v])]_vars
  BY <1>1 DEF VoteReplaced
<1> QED
  BY <1>2, ElectionInvariant, PTL DEF Spec, VoteStable
=============================================================================
