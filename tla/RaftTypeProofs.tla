--------------------------- MODULE RaftTypeProofs ---------------------------
(***************************************************************************)
(* For any number of servers, elections, restarts and heartbeats: what the *)
(* functions on logs return, the types, and that a leader indexes only its *)
(* log.                                                                    *)
(***************************************************************************)
EXTENDS Raft, WellFoundedInduction, TLAPS

\* The provers of a leaf that names none, in the order they are tried.
USE ZenonT(2), SMTT(30), Zenon, SMTT(40)

----------------------------------------------------------------------------
(* The functions on logs of module RaftLog.                                *)

\* The order on the naturals as a set of pairs.
LEMMA NatLess == OpToRel(<, Nat) = {ss \in Nat \X Nat : ss[1] < ss[2]}
  BY DEF OpToRel

\* A nonempty set of naturals has a least element.
LEMMA MinInSet ==
  ASSUME NEW S, S \subseteq Nat, S # {}
  PROVE  Min(S) \in S /\ \A y \in S : Min(S) <= y
<1> DEFINE R == {ss \in Nat \X Nat : ss[1] < ss[2]}
<1>1. IsWellFoundedOn(R, Nat)
  BY Zenon, NatLess, NatLessThanWellFounded
<1>2. \A x, y \in Nat : y < x => <<y, x>> \in R
  OBVIOUS
<1> HIDE DEF R
<1>3. PICK x \in S : \A y \in S : ~(<<y, x>> \in R)
  BY Zenon, <1>1, WFMin
<1>4. ASSUME NEW y \in S PROVE x <= y
  <2>1. x \in Nat /\ y \in Nat
    OBVIOUS
  <2>2. ~(y < x)
    BY <1>2, <1>3, <2>1, Zenon
  <2> QED
    BY <2>1, <2>2, SMTT(30)
<1> QED
  BY Zenon, <1>4 DEF Min

\* A nonempty set of naturals with an upper bound has a greatest element.
LEMMA MaxInSet ==
  ASSUME NEW n \in Nat, NEW S, S \subseteq 0..n, S # {}
  PROVE  Max(S) \in S /\ \A y \in S : Max(S) >= y
<1> DEFINE T == {m \in Nat : n - m \in S}
<1>1. PICK s \in S : TRUE
  BY Zenon
<1>2. n - s \in T
  <2>1. s \in 0..n
    OBVIOUS
  <2>2. n - s \in Nat /\ n - (n - s) = s
    BY <2>1, SMTT(30)
  <2> QED
    BY <2>2
<1>3. Min(T) \in T /\ \A y \in T : Min(T) <= y
  BY Zenon, <1>2, MinInSet
<1> DEFINE k == n - Min(T)
<1>4. k \in S /\ k \in 0..n
  BY <1>3
<1>5. ASSUME NEW y \in S PROVE k >= y
  <2>1. y \in 0..n
    OBVIOUS
  <2>2. n - y \in T
    BY <2>1, SMTT(30)
  <2>3. Min(T) <= n - y
    BY <1>3, <2>2
  <2>4. Min(T) \in Nat
    BY <1>3
  <2> HIDE DEF T
  <2> QED
    BY <2>1, <2>3, <2>4, SMTT(30)
<1> HIDE DEF k
<1> QED
  BY Zenon, <1>4, <1>5 DEF Max

\* The smaller and the larger of two naturals.
LEMMA MinMaxOfTwo ==
  ASSUME NEW a \in Nat, NEW b \in Nat
  PROVE  /\ Min({a, b}) = IF a <= b THEN a ELSE b
         /\ Max({a, b}) = IF a <= b THEN b ELSE a
<1>1. {a, b} \subseteq Nat /\ {a, b} # {}
  OBVIOUS
<1>2. Min({a, b}) \in {a, b} /\ \A y \in {a, b} : Min({a, b}) <= y
  BY <1>1, MinInSet
<1>3. a + b \in Nat /\ {a, b} \subseteq 0..(a + b)
  BY SMTT(30)
<1>4. Max({a, b}) \in {a, b} /\ \A y \in {a, b} : Max({a, b}) >= y
  BY <1>1, <1>3, MaxInSet
<1> QED
  BY <1>2, <1>4, SMTT(30)

----------------------------------------------------------------------------
\* The term of a position of a log, and of its end, is a natural.
LEMMA TermAtType ==
  ASSUME NEW l \in Seq(Entry), NEW k \in 0..Len(l)
  PROVE  TermAt(l, k) \in Nat /\ (TermAt(l, k) = 0 <=> k = 0)
<1>1. CASE k = 0
  BY <1>1 DEF TermAt
<1>2. CASE k # 0
  <2>1. l[k] \in Entry
    BY <1>2, SMTT(30)
  <2> QED
    BY <1>2, <2>1 DEF TermAt, Entry
<1> QED
  BY <1>1, <1>2

\* getLastLogEntryTermIndex returns a term.
LEMMA LastTermType ==
  ASSUME NEW l \in Seq(Entry)
  PROVE  LastTerm(l) \in Nat
  BY TermAtType, SMTT(30) DEF LastTerm

\* The conflict hint of AppendEntries points into the log, at or before the
\* entry that conflicts.
LEMMA FirstOfRunType ==
  ASSUME NEW l \in Seq(Entry), NEW prev \in 1..Len(l)
  PROVE  FirstOfRun(l, prev) \in 1..prev
<1> DEFINE S == {k \in 0..(prev - 1) : TermAt(l, k) # l[prev].term}
<1>1. Len(l) \in Nat /\ prev - 1 \in Nat /\ 0 \in 0..Len(l)
  BY SMTT(30)
<1>2. l[prev].term # 0
  <2>1. l[prev] \in Entry
    BY SMTT(30)
  <2> QED
    BY <2>1 DEF Entry
<1>3. TermAt(l, 0) = 0
  BY DEF TermAt
<1>4. 0 \in S
  BY <1>1, <1>2, <1>3, SMTT(30)
<1>5. S \subseteq 0..(prev - 1)
  OBVIOUS
<1>6. Max(S) \in S
  BY Zenon, <1>1, <1>4, <1>5, MaxInSet
<1>7. Max(S) \in 0..(prev - 1)
  BY <1>5, <1>6
<1>8. FirstOfRun(l, prev) = 1 + Max(S)
  BY DEF FirstOfRun
<1> HIDE DEF S
<1> QED
  BY <1>1, <1>7, <1>8, SMTT(30)

\* How many entries the follower skips: no more than it holds after prev, and
\* no more than there are.
LEMMA SkippedType ==
  ASSUME NEW l \in Seq(Entry), NEW prev \in 0..Len(l), NEW e \in Seq(Entry)
  PROVE  /\ Skipped(l, prev, e) \in 0..Len(e)
         /\ prev + Skipped(l, prev, e) <= Len(l)
<1> DEFINE M == Mismatches(l, prev, e)
<1>1. Len(l) \in Nat /\ Len(e) \in Nat /\ Len(l) - prev \in Nat
  BY SMTT(30)
<1>2. CASE M # {}
  <2>1. M \subseteq Nat
    BY <1>1, SMTT(30) DEF Mismatches
  <2>2. Min(M) \in M
    BY <1>2, <2>1, MinInSet
  <2>3. Min(M) \in 1..Len(e) /\ prev + Min(M) <= Len(l)
    BY <2>2 DEF Mismatches
  <2>4. Skipped(l, prev, e) = Min(M) - 1
    BY <1>2 DEF Skipped
  <2> HIDE DEF M
  <2> QED
    BY <1>1, <2>3, <2>4, SMTT(30)
<1>3. CASE M = {}
  <2>1. Skipped(l, prev, e) = Min({Len(l) - prev, Len(e)})
    BY <1>3 DEF Skipped
  <2>2. Skipped(l, prev, e) =
          IF Len(l) - prev <= Len(e) THEN Len(l) - prev ELSE Len(e)
    BY <1>1, <2>1, MinMaxOfTwo
  <2> QED
    BY <1>1, <2>2, SMTT(30)
<1> QED
  BY <1>2, <1>3

\* What the merge of AppendEntries keeps and what it appends.
LEMMA MergeParts ==
  ASSUME NEW l \in Seq(Entry), NEW prev \in 0..Len(l), NEW e \in Seq(Entry)
  PROVE  /\ Kept(l, prev, e) \in Seq(Entry)
         /\ Len(Kept(l, prev, e)) <= Len(l)
         /\ NewEntries(l, prev, e) \in Seq(Entry)
         /\ Len(NewEntries(l, prev, e)) = Len(e) - Skipped(l, prev, e)
<1> DEFINE k == Skipped(l, prev, e)
<1>1. k \in 0..Len(e) /\ prev + k <= Len(l)
  BY SkippedType
<1>2. Len(l) \in Nat /\ Len(e) \in Nat
  BY SMTT(30)
<1> HIDE DEF k
<1>3. SubSeq(e, k + 1, Len(e)) \in Seq(Entry)
      /\ Len(SubSeq(e, k + 1, Len(e))) = Len(e) - k
  BY <1>1, <1>2, SMTT(30)
<1>4. SubSeq(l, 1, prev + k) \in Seq(Entry)
      /\ Len(SubSeq(l, 1, prev + k)) = prev + k
  BY <1>1, <1>2, SMTT(30)
<1> QED
  BY <1>1, <1>2, <1>3, <1>4, SMTT(30) DEF k, Kept, NewEntries

\* What AppendEntries makes of a log is a log.
LEMMA MergeLogType ==
  ASSUME NEW l \in Seq(Entry), NEW prev \in 0..Len(l), NEW e \in Seq(Entry)
  PROVE  MergeLog(l, prev, e) \in Seq(Entry)
  BY MergeParts, SMTT(30) DEF MergeLog

\* What is left in the array behind a log are entries.
LEMMA MergeStaleType ==
  ASSUME NEW l \in Seq(Entry), NEW prev \in 0..Len(l), NEW e \in Seq(Entry),
         NEW rest \in Seq(Entry)
  PROVE  MergeStale(l, rest, prev, e) \in Seq(Entry)
<1> DEFINE kept == Kept(l, prev, e)
           tail == SubSeq(l, Len(kept) + 1, Len(l)) \o rest
           n == Len(NewEntries(l, prev, e))
<1>1. Len(kept) \in Nat /\ Len(l) \in Nat /\ Len(kept) <= Len(l) /\ n \in Nat
  BY MergeParts, SMTT(30)
<1>2. SubSeq(l, Len(kept) + 1, Len(l)) \in Seq(Entry)
  BY <1>1, SMTT(30)
<1>3. tail \in Seq(Entry)
  BY <1>2, SMTT(30)
<1> HIDE DEF tail, n
<1>4. Len(tail) \in Nat
  BY <1>3, SMTT(30)
<1>5. SubSeq(tail, n + 1, Len(tail)) \in Seq(Entry)
  BY <1>1, <1>3, <1>4, SMTT(30)
<1> QED
  BY <1>5 DEF MergeStale, tail, n

\* The commit index that AppendEntries sets is a number.
LEMMA MergeCommitType ==
  ASSUME NEW l \in Seq(Entry), NEW prev \in 0..Len(l), NEW e \in Seq(Entry),
         NEW lc \in Nat, NEW ci \in Nat
  PROVE  MergeCommit(l, prev, e, lc, ci) \in Nat
<1>1. Len(l) \in Nat /\ Len(e) \in Nat /\ prev \in Nat /\ prev + Len(e) \in Nat
  BY SMTT(30)
<1>2. Min({lc, prev + Len(e)}) \in Nat /\ Min({lc, prev}) \in Nat
  BY <1>1, MinMaxOfTwo
<1> QED
  BY <1>2 DEF MergeCommit

\* Where the leader resumes after a refusal.
LEMMA NextStartType ==
  ASSUME NEW l \in Seq(Entry), NEW prev \in Nat,
         NEW xLen \in Nat, NEW xTerm \in Nat, NEW xIndex \in Nat
  PROVE  NextStart(l, prev, xLen, xTerm, xIndex) \in Nat
<1> DEFINE later == {k \in 1..(Len(l) - 1) : /\ k > SearchTerm(l, xTerm)
                                             /\ l[k].term # xTerm}
<1>1. LastOfTerm(l, xTerm) = IF later = {} THEN 0 ELSE Min(later) - 1
  BY DEF LastOfTerm
<1>2. Len(l) \in Nat
  BY SMTT(30)
<1>3. later \subseteq Nat \ {0}
  BY <1>2, SMTT(30)
<1> HIDE DEF later
<1>4. later # {} => Min(later) \in Nat \ {0}
  BY Zenon, <1>3, MinInSet
<1>5. LastOfTerm(l, xTerm) \in Nat
  BY <1>1, <1>4, SMTT(30)
<1> QED
  BY <1>5 DEF NextStart

\* The slice an appender takes of a log l, with what the backing array holds
\* past its end, and the term of the entry before it.
LEMMA SliceType ==
  ASSUME NEW l \in Seq(Entry), NEW rest \in Seq(Entry),
         NEW a \in Int, NEW b \in Nat,
         ~(a <= 0), a - 1 <= Len(l), b <= Len(l) + Len(rest)
  PROVE  /\ a - 1 \in Nat
         /\ TermAt(l, a - 1) \in Nat
         /\ SubSeq(l \o rest, a, b) \in Seq(Entry)
<1> DEFINE s == l \o rest
<1>1. Len(l) \in Nat /\ Len(rest) \in Nat
  BY SMTT(30)
<1>2. s \in Seq(Entry) /\ Len(s) = Len(l) + Len(rest)
  BY SMTT(30)
<1>3. a - 1 \in 0..Len(l)
  BY <1>1, SMTT(30)
<1>4. TermAt(l, a - 1) \in Nat
  BY <1>3, TermAtType
<1> HIDE DEF s
<1>5. ASSUME NEW k \in a..b PROVE s[k] \in Entry
  <2>1. k \in 1..Len(s)
    BY <1>1, <1>2, SMTT(30)
  <2> QED
    BY <1>2, <2>1, SMTT(30)
<1>6. SubSeq(s, a, b) \in Seq(Entry)
  BY <1>5, SMTT(30)
<1> QED
  BY <1>3, <1>4, <1>6, SMTT(30) DEF s

----------------------------------------------------------------------------
(* The actions of an election and of a leader that sends.                  *)

\* Expanded in every step: the groups of variables.
LEMMA VarsUnchanged ==
  UNCHANGED vars =>
    /\ UNCHANGED <<currentTerm, votedFor, state, persisted, log, stale>>
    /\ UNCHANGED <<commitIndex, lastApplied, delivered, votes, elections>>
    /\ UNCHANGED <<nextIndex, broadcasts, appenders, acks, beats>>
    /\ UNCHANGED <<voteReq, voteRep, appReq, appRep, started, restarts>>
  BY DEF vars, termVars, logVars, applyVars, electionVars, leaderVars,
         voteMsgs, appMsgs, clientVars

----------------------------------------------------------------------------
(* Types.                                                                  *)

\* What Make sets has its type.
LEMMA InitTypes == Init => TypeInv
<1> SUFFICES ASSUME Init PROVE TypeInv
  OBVIOUS
<1>1. << >> \in Seq(Entry)
  BY SMTT(30)
<1>2. TypeOK
  BY <1>1 DEF Init, TypeOK, Saved, NoNext, Follower
<1> QED
  BY <1>2 DEF Init, TypeInv, ActiveTerm, NextInLog, RoundsInLog, Follower,
              Leader

\* persist saves values of the right types.
LEMMA PersistType ==
  ASSUME TypeOK, NEW i \in Server, Persist(i),
         currentTerm' \in [Server -> Nat],
         votedFor' \in [Server -> Server \cup {Nil}],
         log' \in [Server -> Seq(Entry)]
  PROVE  persisted' \in [Server -> Saved]
  BY Zenon DEF TypeOK, Persist, Saved

\* Election increments the term, and leaves the log alone.
LEMMA ElectionTypes ==
  ASSUME TypeInv, NEW i \in Server, Election(i)
  PROVE  TypeInv'
<1> USE DEF Election, TypeInv, logVars, applyVars, leaderVars, appMsgs,
            clientVars
<1>1. log[i] \in Seq(Entry) /\ Len(log[i]) \in Nat /\ LastTerm(log[i]) \in Nat
  BY LastTermType, SMTT(30) DEF TypeOK
<1>2. currentTerm' \in [Server -> Nat] /\ currentTerm'[i] \in Nat
  BY SMTT(30) DEF TypeOK
<1>3. votedFor' \in [Server -> Server \cup {Nil}]
      /\ state' \in [Server -> {Follower, Candidate, Leader}]
  BY Zenon DEF TypeOK
<1>4. persisted' \in [Server -> Saved]
  BY <1>2, <1>3, PersistType, Zenon DEF TypeOK
<1>5. voteReq' \subseteq VoteRequest
  BY <1>1, <1>2, SMTT(30) DEF TypeOK, VoteRequest
<1>6. TypeOK'
  BY <1>2, <1>3, <1>4, <1>5, SMTT(30) DEF TypeOK
<1>7. ActiveTerm'
  BY SMTT(30) DEF ActiveTerm, TypeOK
<1>8. NextInLog'
  BY DEF NextInLog, TypeOK, Candidate, Leader
<1>9. RoundsInLog'
  <2> SUFFICES ASSUME NEW j \in Server, NEW g \in appenders'[j]
               PROVE  /\ g.term <= currentTerm'[j]
                      /\ g.term = currentTerm'[j] /\ state'[j] # Follower
                         => g.end <= Len(log'[j])
    BY DEF RoundsInLog
  <2>1. g \in appenders[j] /\ g.term \in Nat /\ currentTerm[j] \in Nat
    BY SMTT(30) DEF TypeOK, Appender
  <2>2. /\ g.term <= currentTerm[j]
        /\ g.term = currentTerm[j] /\ state[j] # Follower
           => g.end <= Len(log[j])
    BY <2>1 DEF RoundsInLog
  <2>3. CASE j = i
    BY <2>1, <2>2, <2>3, SMTT(30) DEF TypeOK
  <2>4. CASE j # i
    BY <2>1, <2>2, <2>4 DEF TypeOK
  <2> QED
    BY <2>3, <2>4
<1> QED
  BY <1>6, <1>7, <1>8, <1>9

\* A step that leaves the server a follower disturbs none of the facts about
\* leaders and their rounds.
LEMMA FollowerLogInv ==
  ASSUME TypeInv, NEW i \in Server, NEW term \in Nat,
         state' = [state EXCEPT ![i] = Follower],
         currentTerm' = [currentTerm EXCEPT ![i] = term],
         term >= currentTerm[i] \/ appenders'[i] = {},
         \A j \in Server : appenders'[j] \subseteq appenders[j],
         \A j \in Server \ {i} : log'[j] = log[j] /\ nextIndex'[j] = nextIndex[j]
  PROVE  ActiveTerm' /\ NextInLog' /\ RoundsInLog'
<1> USE DEF TypeInv
<1>1. ActiveTerm'
  BY DEF ActiveTerm, TypeOK
<1>2. NextInLog'
  BY Zenon DEF NextInLog, TypeOK, Follower, Leader
<1>3. RoundsInLog'
  <2> SUFFICES ASSUME NEW j \in Server, NEW g \in appenders'[j]
               PROVE  /\ g.term <= currentTerm'[j]
                      /\ g.term = currentTerm'[j] /\ state'[j] # Follower
                         => g.end <= Len(log'[j])
    BY DEF RoundsInLog
  <2>1. g \in appenders[j] /\ g.term \in Nat /\ currentTerm[j] \in Nat
    BY SMTT(30) DEF TypeOK, Appender
  <2>2. /\ g.term <= currentTerm[j]
        /\ g.term = currentTerm[j] /\ state[j] # Follower
           => g.end <= Len(log[j])
    BY <2>1 DEF RoundsInLog
  <2>3. CASE j = i
    BY <2>1, <2>2, <2>3, SMTT(30) DEF TypeOK
  <2>4. CASE j # i
    BY <2>1, <2>2, <2>4 DEF TypeOK
  <2> QED
    BY <2>3, <2>4
<1> QED
  BY <1>1, <1>2, <1>3

\* becomeFollower writes values of the right types, in memory and on disk.
LEMMA BecomeFollowerTypes ==
  ASSUME TypeOK, NEW i \in Server, NEW term \in Nat,
         NEW vote \in Server \cup {Nil}, BecomeFollower(i, term, vote),
         log' \in [Server -> Seq(Entry)]
  PROVE  /\ currentTerm' \in [Server -> Nat]
         /\ votedFor' \in [Server -> Server \cup {Nil}]
         /\ state' \in [Server -> {Follower, Candidate, Leader}]
         /\ persisted' \in [Server -> Saved]
<1> USE DEF BecomeFollower
<1>1. /\ currentTerm' \in [Server -> Nat]
      /\ votedFor' \in [Server -> Server \cup {Nil}]
      /\ state' \in [Server -> {Follower, Candidate, Leader}]
  BY DEF TypeOK
<1>2. persisted' \in [Server -> Saved]
  BY <1>1, PersistType, Zenon
<1> QED
  BY <1>1, <1>2

\* The term of an answer is a term, and not below that of the request.
LEMMA AnswerTermType ==
  ASSUME TypeOK, NEW v \in Server, NEW m, m.term \in Nat
  PROVE  AnswerTerm(v, m) \in Nat /\ AnswerTerm(v, m) >= m.term
<1>1. currentTerm[v] \in Nat
  BY DEF TypeOK
<1> QED
  BY <1>1, MinMaxOfTwo, SMTT(30) DEF AnswerTerm

\* RequestVote answers with a vote or without, and may step down.
LEMMA RequestVoteTypes ==
  ASSUME TypeInv, NEW v \in Server, NEW m \in voteReq, RequestVote(v, m)
  PROVE  TypeInv'
<1> USE DEF TypeInv, logVars, applyVars, electionVars, leaderVars, appMsgs,
            clientVars
<1> DEFINE newer == m.term > currentTerm[v]
           vote == IF newer THEN Nil ELSE votedFor[v]
           grant == /\ m.term >= currentTerm[v]
                    /\ vote \in {Nil, m.candidateId}
                    /\ IsUpToDate(log[v], m.lastLogTerm, m.lastLogIndex)
<1>1. m.candidateId \in Server /\ m.term \in Nat
  BY ZenonT(30) DEF TypeOK, VoteRequest
<1>2. UNCHANGED <<log, stale, commitIndex, lastApplied, delivered, votes,
                  elections, nextIndex, broadcasts, appenders, acks, beats,
                  voteReq, appReq, appRep, started, restarts>>
  BY DEF RequestVote
<1>3. voteRep' \subseteq VoteReply
  <2>1. grant \in BOOLEAN
    BY DEF IsUpToDate
  <2>2. voteRep' \subseteq voteRep \cup
          {[candidateId |-> m.candidateId, reqTerm |-> m.term, voter |-> v,
            term |-> AnswerTerm(v, m), granted |-> grant]}
    BY ZenonT(30) DEF RequestVote
  <2> HIDE DEF grant
  <2>3. [candidateId |-> m.candidateId, reqTerm |-> m.term, voter |-> v,
         term |-> AnswerTerm(v, m), granted |-> grant] \in VoteReply
    BY <1>1, <2>1, AnswerTermType DEF VoteReply
  <2> QED
    BY <2>2, <2>3 DEF TypeOK
<1>4. /\ currentTerm' \in [Server -> Nat]
      /\ votedFor' \in [Server -> Server \cup {Nil}]
      /\ state' \in [Server -> {Follower, Candidate, Leader}]
      /\ persisted' \in [Server -> Saved]
      /\ ActiveTerm' /\ NextInLog' /\ RoundsInLog'
  <2>1. CASE newer
    <3>1. BecomeFollower(v, m.term, IF grant THEN m.candidateId ELSE Nil)
      BY <2>1 DEF RequestVote
    <3>2. (IF grant THEN m.candidateId ELSE Nil) \in Server \cup {Nil}
      BY <1>1
    <3> HIDE DEF grant
    <3>3. m.term >= currentTerm[v] /\ log' \in [Server -> Seq(Entry)]
      BY <1>1, <1>2, <2>1, SMTT(30) DEF TypeOK
    <3>4. ActiveTerm' /\ NextInLog' /\ RoundsInLog'
      BY <1>1, <1>2, <3>1, <3>3, FollowerLogInv, Zenon DEF BecomeFollower
    <3> QED
      BY <1>1, <3>1, <3>2, <3>3, <3>4, BecomeFollowerTypes
  <2>2. CASE ~newer
    <3>1. UNCHANGED <<currentTerm, state>>
      BY <2>2 DEF RequestVote, termVars
    <3>2. \/ votedFor' = [votedFor EXCEPT ![v] = m.candidateId] /\ Persist(v)
          \/ UNCHANGED <<votedFor, persisted>>
      BY <2>2 DEF RequestVote, termVars
    <3>3. votedFor' \in [Server -> Server \cup {Nil}]
      BY <1>1, <3>2, Zenon DEF TypeOK
    <3>4. persisted' \in [Server -> Saved]
      BY <1>2, <3>1, <3>2, <3>3, PersistType, ZenonT(30) DEF TypeOK
    <3> QED
      BY <1>2, <3>1, <3>3, <3>4 DEF TypeOK, ActiveTerm, NextInLog, RoundsInLog
  <2> QED
    BY <2>1, <2>2
<1> QED
  BY <1>2, <1>3, <1>4 DEF TypeOK

\* An answer to RequestVote makes a follower or counts a vote.
LEMMA VoteReceivedTypes ==
  ASSUME TypeInv, NEW i \in Server, NEW r \in voteRep, VoteReceived(i, r)
  PROVE  TypeInv'
<1> USE DEF TypeInv
<1>1. r.term \in Nat /\ r.voter \in Server /\ currentTerm[i] \in Nat
  BY Zenon DEF TypeOK, VoteReply
<1>2. UNCHANGED <<log, stale, commitIndex, lastApplied, delivered, elections,
                  nextIndex, broadcasts, appenders, acks, beats, voteReq,
                  voteRep, appReq, appRep, started, restarts>>
  BY DEF VoteReceived, logVars, applyVars, leaderVars, voteMsgs, appMsgs,
         clientVars
<1>3. CASE /\ r.term > currentTerm[i]
           /\ BecomeFollower(i, r.term, Nil)
           /\ UNCHANGED votes
  <2>1. r.term >= currentTerm[i] /\ log' \in [Server -> Seq(Entry)]
    BY <1>1, <1>2, <1>3, SMTT(30) DEF TypeOK
  <2>2. ActiveTerm' /\ NextInLog' /\ RoundsInLog'
    BY <1>1, <1>2, <1>3, <2>1, FollowerLogInv, Zenon DEF BecomeFollower
  <2>3. TypeOK'
    BY <1>1, <1>2, <1>3, <2>1, BecomeFollowerTypes, Zenon DEF TypeOK
  <2> QED
    BY <2>2, <2>3
<1>4. CASE /\ votes' = [votes EXCEPT ![i] = @ \cup {r.voter}]
           /\ UNCHANGED termVars
  <2>1. votes' \in [Server -> SUBSET Server]
    BY <1>1, <1>4, ZenonT(30) DEF TypeOK
  <2> QED
    BY <1>2, <1>4, <2>1 DEF TypeOK, termVars, ActiveTerm, NextInLog, RoundsInLog
<1> QED
  BY <1>3, <1>4 DEF VoteReceived

\* becomeLeader points nextIndex one past the log.
LEMMA BecomeLeaderTypes ==
  ASSUME TypeInv, NEW i \in Server, BecomeLeader(i)
  PROVE  TypeInv'
<1> USE DEF TypeInv
<1>1. UNCHANGED <<currentTerm, votedFor, persisted, log, stale, commitIndex,
                  lastApplied, delivered, votes, broadcasts, appenders, acks,
                  beats, voteReq, voteRep, appReq, appRep, started, restarts>>
  BY DEF BecomeLeader, logVars, applyVars, voteMsgs, appMsgs, clientVars
<1>2. Len(log[i]) \in Nat
  BY SMTT(30) DEF TypeOK
<1>3. state' = [state EXCEPT ![i] = Leader] /\ state[i] = Candidate
  BY DEF BecomeLeader
<1>4. nextIndex' = [nextIndex EXCEPT ![i] = [p \in Server |-> Len(log[i]) + 1]]
  BY DEF BecomeLeader
<1>5. nextIndex' \in [Server -> [Server -> Nat]]
  BY <1>2, <1>4, SMTT(30) DEF TypeOK
<1>6. elections' \subseteq [term : Nat, leader : Server, votes : SUBSET Server]
  BY SMTT(30) DEF BecomeLeader, TypeOK
<1>7. TypeOK'
  BY <1>1, <1>3, <1>5, <1>6, Zenon DEF TypeOK
<1>8. ActiveTerm'
  BY <1>1, <1>3 DEF ActiveTerm, TypeOK, Candidate, Follower
<1>9. NextInLog'
  <2> SUFFICES ASSUME NEW j \in Server, state'[j] = Leader, NEW p \in Server
               PROVE  nextIndex'[j][p] \in 1..(Len(log'[j]) + 1)
    BY DEF NextInLog
  <2>1. CASE j = i
    <3>1. nextIndex'[i] = [q \in Server |-> Len(log[i]) + 1]
      BY <1>4 DEF TypeOK
    <3>2. nextIndex'[j][p] = Len(log'[j]) + 1 /\ Len(log'[j]) \in Nat
      BY <1>1, <1>2, <2>1, <3>1
    <3> QED
      BY <3>2, SMTT(30)
  <2>2. CASE j # i
    BY <1>1, <1>3, <1>4, <2>2 DEF TypeOK, NextInLog
  <2> QED
    BY <2>1, <2>2
<1>10. RoundsInLog'
  BY <1>1, <1>3 DEF RoundsInLog, TypeOK, Candidate, Follower
<1> QED
  BY <1>7, <1>8, <1>9, <1>10

\* Start appends an entry of the leader's term, which is not 0.
LEMMA StartTypes ==
  ASSUME TypeInv, NEW i \in Server, NEW c \in Command, Start(i, c)
  PROVE  TypeInv'
<1> USE DEF TypeInv
<1> DEFINE e == [term |-> currentTerm[i], command |-> c]
<1>1. UNCHANGED <<currentTerm, votedFor, state, commitIndex, lastApplied,
                  delivered, votes, elections, nextIndex, appenders, acks,
                  beats, voteReq, voteRep, appReq, appRep, restarts>>
  BY DEF Start, applyVars, electionVars, voteMsgs, appMsgs
<1>2. e \in Entry
  <2>1. state[i] # Follower
    BY DEF Start, Leader, Follower
  <2>2. currentTerm[i] \in Nat \ {0}
    BY <2>1, SMTT(30) DEF TypeOK, ActiveTerm
  <2> QED
    BY <2>2 DEF Entry
<1>3. log' = [log EXCEPT ![i] = Append(log[i], e)]
  BY DEF Start
<1> HIDE DEF e
<1>4. Append(log[i], e) \in Seq(Entry) /\ Len(Append(log[i], e)) = Len(log[i]) + 1
  BY <1>2, SMTT(30) DEF TypeOK
<1>5. log' \in [Server -> Seq(Entry)]
  BY <1>3, <1>4 DEF TypeOK
<1>6. stale' \in [Server -> Seq(Entry)]
  <2>1. stale[i] \in Seq(Entry) /\ Len(stale[i]) \in Nat
    BY SMTT(30) DEF TypeOK
  <2>2. SubSeq(stale[i], 2, Len(stale[i])) \in Seq(Entry)
    BY <2>1, SMTT(30)
  <2> QED
    BY <2>2 DEF Start, TypeOK
<1>7. persisted' \in [Server -> Saved]
  BY <1>1, <1>5, PersistType, ZenonT(30) DEF Start, TypeOK
<1>8. broadcasts' \in [Server -> Nat] /\ started' \subseteq Command
  BY SMTT(30) DEF Start, TypeOK
<1>9. TypeOK'
  BY <1>1, <1>5, <1>6, <1>7, <1>8 DEF TypeOK
<1>10. \A j \in Server : /\ Len(log[j]) \in Nat /\ Len(log'[j]) \in Nat
                         /\ Len(log[j]) <= Len(log'[j])
  BY <1>3, <1>4, SMTT(30) DEF TypeOK
<1>11. NextInLog'
  <2> SUFFICES ASSUME NEW j \in Server, state[j] = Leader, NEW p \in Server
               PROVE  nextIndex[j][p] \in 1..(Len(log'[j]) + 1)
    BY <1>1 DEF NextInLog
  <2>1. nextIndex[j][p] \in 1..(Len(log[j]) + 1)
    BY DEF NextInLog
  <2> QED
    BY <1>10, <2>1, SMTT(30)
<1>12. RoundsInLog'
  <2> SUFFICES ASSUME NEW j \in Server, NEW g \in appenders[j]
               PROVE  /\ g.term <= currentTerm[j]
                      /\ g.term = currentTerm[j] /\ state[j] # Follower
                         => g.end <= Len(log'[j])
    BY <1>1 DEF RoundsInLog
  <2>1. g.end \in Nat
    BY SMTT(30) DEF TypeOK, Appender
  <2> QED
    BY <1>10, <2>1, SMTT(30) DEF RoundsInLog
<1> QED
  BY <1>1, <1>9, <1>11, <1>12 DEF ActiveTerm

\* A step after which every appender has the term and end of one before it.
LEMMA AppendersFrame ==
  ASSUME TypeInv, UNCHANGED <<currentTerm, state, log, nextIndex>>,
         \A j \in Server : \A h \in appenders'[j] : \E g \in appenders[j] :
           h.term = g.term /\ h.end = g.end
  PROVE  ActiveTerm' /\ NextInLog' /\ RoundsInLog'
<1>1. ActiveTerm' /\ NextInLog'
  BY DEF TypeInv, ActiveTerm, NextInLog
<1>2. RoundsInLog'
  <2> SUFFICES ASSUME NEW j \in Server, NEW h \in appenders'[j]
               PROVE  /\ h.term <= currentTerm[j]
                      /\ h.term = currentTerm[j] /\ state[j] # Follower
                         => h.end <= Len(log[j])
    BY DEF RoundsInLog
  <2>1. PICK g \in appenders[j] : h.term = g.term /\ h.end = g.end
    OBVIOUS
  <2> QED
    BY <2>1 DEF TypeInv, RoundsInLog
<1> QED
  BY <1>1, <1>2

\* broadcastLogs keeps the types: its rounds end within the log.
LEMMA BroadcastLogsTypes ==
  ASSUME TypeInv, NEW i \in Server, BroadcastLogs(i)
  PROVE  TypeInv'
<1> USE DEF TypeInv
<1> DEFINE new == {[peer |-> p, term |-> currentTerm[i],
                    leaderCommit |-> commitIndex[i], end |-> Len(log[i]),
                    round |-> broadcasts[i], start |-> Unread] : p \in Peers(i)}
<1>1. UNCHANGED <<currentTerm, votedFor, state, persisted, log, stale,
                  commitIndex, lastApplied, delivered, votes, elections,
                  nextIndex, acks, beats, voteReq, voteRep, appReq, appRep,
                  started, restarts>>
  BY Zenon DEF BroadcastLogs, termVars, logVars, applyVars, electionVars,
         voteMsgs, appMsgs, clientVars
<1>2. broadcasts' \in [Server -> Nat]
  <2>1. /\ broadcasts[i] > 0
        /\ broadcasts' = [broadcasts EXCEPT ![i] = broadcasts[i] - 1]
    BY ZenonT(30) DEF BroadcastLogs
  <2> QED
    BY <2>1, SMTT(30) DEF TypeOK
<1>3. Len(log[i]) \in Nat
  BY SMTT(30) DEF TypeOK
<1>4. new \subseteq Appender
  <2> SUFFICES ASSUME NEW p \in Peers(i)
               PROVE  [peer |-> p, term |-> currentTerm[i],
                       leaderCommit |-> commitIndex[i], end |-> Len(log[i]),
                       round |-> broadcasts[i], start |-> Unread] \in Appender
    OBVIOUS
  <2>1. /\ p \in Server /\ currentTerm[i] \in Nat /\ commitIndex[i] \in Nat
        /\ broadcasts[i] \in Nat /\ Unread \in Int
    BY SMTT(30) DEF TypeOK, Unread, Peers
  <2> QED
    BY <1>3, <2>1 DEF Appender
<1>5. \A g \in new : g.term = currentTerm[i] /\ g.end = Len(log[i])
  BY SMTT(30)
<1>6. appenders' = [appenders EXCEPT ![i] = appenders[i] \cup new]
  BY DEF BroadcastLogs
<1> HIDE DEF new
<1>7. appenders' \in [Server -> SUBSET Appender]
  BY <1>4, <1>6 DEF TypeOK
<1>8. TypeOK'
  BY <1>1, <1>2, <1>7, Zenon DEF TypeOK
<1>9. RoundsInLog'
  <2> SUFFICES ASSUME NEW j \in Server, NEW g \in appenders'[j]
               PROVE  /\ g.term <= currentTerm[j]
                      /\ g.term = currentTerm[j] /\ state[j] # Follower
                         => g.end <= Len(log[j])
    BY <1>1, ZenonT(30) DEF RoundsInLog
  <2>1. g \in appenders[j] \/ (j = i /\ g \in new)
    BY <1>6 DEF TypeOK
  <2>2. CASE g \in appenders[j]
    BY <2>2 DEF RoundsInLog
  <2>3. CASE j = i /\ g \in new
    BY <1>3, <1>5, <2>3, SMTT(30) DEF TypeOK
  <2> QED
    BY <2>1, <2>2, <2>3, Zenon
<1> QED
  BY <1>1, <1>8, <1>9, Zenon DEF ActiveTerm, NextInLog

\* An appender that reads nextIndex keeps the types.
LEMMA AppenderReadTypes ==
  ASSUME TypeInv, NEW i \in Server, NEW g \in appenders[i], AppenderRead(i, g)
  PROVE  TypeInv'
<1> DEFINE h == [g EXCEPT !.start = nextIndex[i][g.peer]]
<1>1. UNCHANGED <<currentTerm, votedFor, state, persisted, log, stale,
                  commitIndex, lastApplied, delivered, votes, elections,
                  nextIndex, broadcasts, acks, beats, voteReq, voteRep, appReq,
                  appRep, started, restarts>>
  BY DEF AppenderRead, termVars, logVars, applyVars, electionVars, voteMsgs,
         appMsgs, clientVars
<1>2. g \in Appender /\ nextIndex[i][g.peer] \in Int
  BY SMTT(30) DEF TypeInv, TypeOK, Appender
<1>3. h \in Appender /\ h.term = g.term /\ h.end = g.end
  BY <1>2 DEF Appender
<1>4. appenders' = [appenders EXCEPT ![i] = (appenders[i] \ {g}) \cup {h}]
  BY DEF AppenderRead
<1> HIDE DEF h
<1>5. appenders' \in [Server -> SUBSET Appender]
  BY <1>3, <1>4 DEF TypeInv, TypeOK
<1>6. ActiveTerm' /\ NextInLog' /\ RoundsInLog'
  <2>1. \A j \in Server : \A x \in appenders'[j] : \E y \in appenders[j] :
          x.term = y.term /\ x.end = y.end
    BY <1>3, <1>4, Zenon DEF TypeInv, TypeOK
  <2> QED
    BY <1>1, <2>1, AppendersFrame
<1> QED
  BY <1>1, <1>5, <1>6 DEF TypeInv, TypeOK

\* The two ways an appender ends without touching anything else.
LEMMA AppenderEndsTypes ==
  ASSUME TypeInv, NEW i \in Server, NEW g \in appenders[i],
         AppenderStop(i, g) \/ AppenderOutdated(i, g)
  PROVE  TypeInv'
<1>1. UNCHANGED <<currentTerm, votedFor, state, persisted, log, stale,
                  commitIndex, lastApplied, delivered, votes, elections,
                  nextIndex, broadcasts, acks, beats, voteReq, voteRep, appReq,
                  appRep, started, restarts>>
  BY DEF AppenderStop, AppenderOutdated, termVars, logVars, applyVars,
         electionVars, voteMsgs, appMsgs, clientVars
<1>2. appenders' = [appenders EXCEPT ![i] = appenders[i] \ {g}]
  BY DEF AppenderStop, AppenderOutdated
<1>3. /\ appenders' \in [Server -> SUBSET Appender]
      /\ \A j \in Server : \A x \in appenders'[j] : \E y \in appenders[j] :
           x.term = y.term /\ x.end = y.end
  BY <1>2 DEF TypeInv, TypeOK
<1>4. ActiveTerm' /\ NextInLog' /\ RoundsInLog'
  BY <1>1, <1>3, AppendersFrame
<1> QED
  BY <1>1, <1>3, <1>4 DEF TypeInv, TypeOK

\* The slice an appender sends is within the backing array.
LEMMA AppenderSendTypes ==
  ASSUME TypeInv, NEW i \in Server, NEW g \in appenders[i], AppenderSend(i, g)
  PROVE  TypeInv' /\ AppendArgs(i, g) \in AppendRequest
<1>1. UNCHANGED <<currentTerm, votedFor, state, persisted, log, stale,
                  commitIndex, lastApplied, delivered, votes, elections,
                  nextIndex, broadcasts, appenders, acks, beats, voteReq,
                  voteRep, appRep, started, restarts>>
  BY Zenon DEF AppenderSend, termVars, logVars, applyVars, electionVars, leaderVars,
         voteMsgs, clientVars
<1>2. /\ g.peer \in Server /\ g.term \in Nat /\ g.leaderCommit \in Nat
      /\ g.end \in Nat /\ g.start \in Int
  <2>1. g \in Appender
    BY DEF TypeInv, TypeOK
  <2> QED
    BY <2>1 DEF Appender
<1>3. log[i] \in Seq(Entry) /\ stale[i] \in Seq(Entry)
  BY DEF TypeInv, TypeOK
<1>4. /\ ~(g.start <= 0)
      /\ g.start - 1 <= Len(log[i])
      /\ g.end <= Len(log[i]) + Len(stale[i])
  BY Zenon DEF AppenderSend, MustStop, InRange
<1>5. /\ g.start - 1 \in Nat
      /\ TermAt(log[i], g.start - 1) \in Nat
      /\ SubSeq(log[i] \o stale[i], g.start, g.end) \in Seq(Entry)
  BY <1>2, <1>3, <1>4, SliceType, ZenonT(30)
<1>6. AppendArgs(i, g) \in AppendRequest
  BY <1>2, <1>5, ZenonT(30) DEF AppendArgs, AppendRequest
<1>7. appReq' \subseteq AppendRequest
  BY <1>6 DEF AppenderSend, TypeInv, TypeOK
<1> QED
  BY <1>1, <1>6, <1>7 DEF TypeInv, TypeOK, ActiveTerm, NextInLog, RoundsInLog

----------------------------------------------------------------------------
(* The answers to a leader, and the actions of a follower.                 *)

\* The three ways an appender takes an answer.  The success case needs that
\* the round of a leader ends within its log.
LEMMA AppenderReceivedTypes ==
  ASSUME TypeInv, NEW i \in Server, NEW g \in appenders[i], NEW r \in appRep,
         AppenderReceived(i, g, r)
  PROVE  TypeInv'
<1> DEFINE h == [g EXCEPT !.start = NextStart(log[i], r.req.prevLogIndex,
                                              r.xLen, r.xTerm, r.xIndex)]
           a == [peer |-> g.peer, term |-> g.term,
                 leaderCommit |-> g.leaderCommit, end |-> g.end,
                 round |-> g.round]
<1>1. UNCHANGED <<log, stale, commitIndex, lastApplied, delivered, votes,
                  elections, broadcasts, beats, voteReq, voteRep, appReq,
                  appRep, started, restarts>>
  BY DEF AppenderReceived, logVars, applyVars, electionVars, voteMsgs, appMsgs,
         clientVars
<1>2. g \in Appender /\ r \in AppendReply
  BY DEF TypeInv, TypeOK
<1>3. /\ g.peer \in Server /\ g.term \in Nat /\ g.end \in Nat
      /\ r.term \in Nat /\ r.req.prevLogIndex \in Nat
      /\ currentTerm[i] \in Nat /\ log[i] \in Seq(Entry)
      /\ r.xLen \in Nat /\ r.xTerm \in Nat /\ r.xIndex \in Nat
  BY <1>2 DEF TypeInv, TypeOK, Appender, AppendReply, AppendRequest
<1>4. CASE /\ r.term > currentTerm[i]
           /\ BecomeFollower(i, r.term, Nil)
           /\ appenders' = [appenders EXCEPT ![i] = @ \ {g}]
           /\ UNCHANGED <<nextIndex, acks>>
  <2>1. /\ r.term >= currentTerm[i]
        /\ log' \in [Server -> Seq(Entry)]
        /\ appenders' \in [Server -> SUBSET Appender]
        /\ \A j \in Server : appenders'[j] \subseteq appenders[j]
    <3>1. r.term >= currentTerm[i]
      BY <1>3, <1>4, SMTT(30)
    <3>2. log' \in [Server -> Seq(Entry)]
      BY <1>1 DEF TypeInv, TypeOK
    <3>3. /\ appenders' \in [Server -> SUBSET Appender]
          /\ \A j \in Server : appenders'[j] \subseteq appenders[j]
      BY <1>4 DEF TypeInv, TypeOK
    <3> QED
      BY <3>1, <3>2, <3>3
  <2>2. ActiveTerm' /\ NextInLog' /\ RoundsInLog'
    BY <1>1, <1>3, <1>4, <2>1, FollowerLogInv, ZenonT(30) DEF BecomeFollower
  <2>3. TypeOK
    BY DEF TypeInv
  <2>4. TypeOK'
    BY <1>1, <1>3, <1>4, <2>1, <2>3, BecomeFollowerTypes, ZenonT(30) DEF TypeOK
  <2> QED
    BY <2>2, <2>4 DEF TypeInv
<1>5. CASE /\ nextIndex' = [nextIndex EXCEPT ![i][g.peer] =
                              IF g.end + 1 > @ THEN g.end + 1 ELSE @]
           /\ acks' = [acks EXCEPT ![i] = @ \cup {a}]
           /\ appenders' = [appenders EXCEPT ![i] = @ \ {g}]
           /\ UNCHANGED termVars
  <2>1. a \in Ack
    BY <1>2 DEF Ack, Appender
  <2> HIDE DEF a
  <2>2. /\ acks' \in [Server -> SUBSET Ack]
        /\ appenders' \in [Server -> SUBSET Appender]
        /\ \A j \in Server : appenders'[j] \subseteq appenders[j]
    BY <1>5, <2>1 DEF TypeInv, TypeOK
  <2>3. nextIndex' \in [Server -> [Server -> Nat]]
    <3> DEFINE old == nextIndex[i][g.peer]
               new == IF g.end + 1 > old THEN g.end + 1 ELSE old
    <3>1. new \in Nat
      <4>1. old \in Nat
        BY <1>3, SMTT(30) DEF TypeInv, TypeOK
      <4> HIDE DEF old
      <4> QED
        BY <1>3, <4>1, SMTT(30)
    <3>2. nextIndex' = [nextIndex EXCEPT ![i] =
                          [nextIndex[i] EXCEPT ![g.peer] = new]]
      BY <1>5
    <3> HIDE DEF new
    <3>3. [nextIndex[i] EXCEPT ![g.peer] = new] \in [Server -> Nat]
      BY <1>3, <3>1 DEF TypeInv, TypeOK
    <3> QED
      BY <3>2, <3>3 DEF TypeInv, TypeOK
  <2>4. UNCHANGED <<currentTerm, votedFor, state, persisted>>
    BY <1>5 DEF termVars
  <2>5. TypeOK'
    BY <1>1, <2>2, <2>3, <2>4 DEF TypeInv, TypeOK
  <2>6. ActiveTerm' /\ RoundsInLog'
    BY <1>1, <2>2, <2>4 DEF TypeInv, ActiveTerm, RoundsInLog
  <2>7. NextInLog'
    <3> SUFFICES ASSUME NEW j \in Server, state[j] = Leader, NEW p \in Server
                 PROVE  nextIndex'[j][p] \in 1..(Len(log[j]) + 1)
      BY <1>1, <2>4 DEF NextInLog
    <3>1. nextIndex[j][p] \in 1..(Len(log[j]) + 1) /\ Len(log[j]) \in Nat
      BY SMTT(30) DEF TypeInv, TypeOK, NextInLog
    <3>2. CASE j = i /\ p = g.peer
      <4>1. currentTerm[i] = g.term /\ state[i] # Follower
        BY <3>2 DEF AppenderReceived, Leader, Follower
      <4>2. g.end <= Len(log[j])
        BY <3>2, <4>1 DEF TypeInv, RoundsInLog
      <4>3. nextIndex'[j][p] = IF g.end + 1 > nextIndex[j][p]
                               THEN g.end + 1 ELSE nextIndex[j][p]
        BY <1>5, <3>2 DEF TypeInv, TypeOK
      <4> QED
        BY <1>3, <3>1, <4>2, <4>3, SMTT(30)
    <3>3. CASE ~(j = i /\ p = g.peer)
      <4>1. nextIndex'[j][p] = nextIndex[j][p]
        BY <1>5, <3>3 DEF TypeInv, TypeOK
      <4> QED
        BY <3>1, <4>1
    <3> QED
      BY <3>2, <3>3
  <2> QED
    BY <2>5, <2>6, <2>7 DEF TypeInv
<1>6. CASE /\ appenders' = [appenders EXCEPT ![i] = (@ \ {g}) \cup {h}]
           /\ UNCHANGED <<termVars, nextIndex, acks>>
  <2>1. NextStart(log[i], r.req.prevLogIndex, r.xLen, r.xTerm, r.xIndex) \in Nat
    BY <1>3, NextStartType, Zenon
  <2>2. h \in Appender /\ h.term = g.term /\ h.end = g.end
    BY <1>2, <2>1, SMTT(30) DEF Appender
  <2> HIDE DEF h
  <2>3. UNCHANGED <<currentTerm, votedFor, state, persisted, nextIndex, acks>>
    BY <1>6 DEF termVars
  <2>4. /\ appenders' \in [Server -> SUBSET Appender]
        /\ \A j \in Server : \A x \in appenders'[j] : \E y \in appenders[j] :
             x.term = y.term /\ x.end = y.end
    BY <1>6, <2>2, ZenonT(30) DEF TypeInv, TypeOK
  <2>5. ActiveTerm' /\ NextInLog' /\ RoundsInLog'
    BY <1>1, <2>3, <2>4, AppendersFrame
  <2> QED
    BY <1>1, <2>3, <2>4, <2>5 DEF TypeInv, TypeOK
<1> QED
  BY <1>4, <1>5, <1>6 DEF AppenderReceived

\* The end of a round, which may advance commitIndex, keeps the types.
LEMMA CommitRoundTypes ==
  ASSUME TypeInv, NEW i \in Server, NEW a \in acks[i], CommitRound(i, a)
  PROVE  TypeInv'
<1>1. UNCHANGED <<currentTerm, votedFor, state, persisted, log, stale,
                  lastApplied, delivered, votes, elections, nextIndex,
                  broadcasts, appenders, acks, beats, voteReq, voteRep, appReq,
                  appRep, started, restarts>>
  BY DEF CommitRound, termVars, logVars, electionVars, leaderVars, voteMsgs,
         appMsgs, clientVars
<1>2. a \in Ack
  BY DEF TypeInv, TypeOK
<1>3. commitIndex' \in [Server -> Nat]
  BY <1>2 DEF CommitRound, TypeInv, TypeOK, Ack
<1> QED
  BY <1>1, <1>3 DEF TypeInv, TypeOK, ActiveTerm, NextInLog, RoundsInLog

\* Beginning and ending a heartbeat keeps the types.
LEMMA HeartbeatTypes ==
  ASSUME TypeInv, NEW i \in Server,
         Heartbeat(i) \/ \E b \in beats[i] : HeartbeatEnd(i, b)
  PROVE  TypeInv'
<1>1. UNCHANGED <<currentTerm, votedFor, state, persisted, log, stale,
                  commitIndex, lastApplied, delivered, votes, elections,
                  nextIndex, broadcasts, appenders, acks, voteReq, voteRep,
                  appReq, appRep, started, restarts>>
  BY DEF Heartbeat, HeartbeatEnd, termVars, logVars, applyVars, electionVars,
         voteMsgs, appMsgs, clientVars
<1>2. [term |-> currentTerm[i], commitIndex |-> commitIndex[i]] \in Beat
  BY DEF TypeInv, TypeOK, Beat
<1>3. beats' \in [Server -> SUBSET Beat]
  <2>1. CASE Heartbeat(i)
    BY <1>2, <2>1 DEF Heartbeat, TypeInv, TypeOK
  <2>2. ASSUME NEW b \in beats[i], HeartbeatEnd(i, b) PROVE beats' \in [Server -> SUBSET Beat]
    BY <2>2 DEF HeartbeatEnd, TypeInv, TypeOK
  <2> QED
    BY <2>1, <2>2
<1> QED
  BY <1>1, <1>3, ZenonT(30) DEF TypeInv, TypeOK, ActiveTerm, NextInLog, RoundsInLog

\* nextIndex of a leader is within its log, so prevLogTerm is a term.
LEMMA HeartbeatSendTypes ==
  ASSUME TypeInv, NEW i \in Server, NEW b \in beats[i], NEW p \in Peers(i),
         HeartbeatSend(i, b, p)
  PROVE  TypeInv'
<1> DEFINE m == [term |-> b.term, leaderId |-> i, peer |-> p,
                 prevLogIndex |-> nextIndex[i][p] - 1,
                 prevLogTerm |-> TermAt(log[i], nextIndex[i][p] - 1),
                 entries |-> << >>, leaderCommit |-> b.commitIndex,
                 caller |-> "heartbeat"]
<1>1. UNCHANGED <<currentTerm, votedFor, state, persisted, log, stale,
                  commitIndex, lastApplied, delivered, votes, elections,
                  nextIndex, broadcasts, appenders, acks, beats, voteReq,
                  voteRep, appRep, started, restarts>>
  BY DEF HeartbeatSend, termVars, logVars, applyVars, electionVars, leaderVars,
         voteMsgs, clientVars
<1>2. b \in Beat /\ log[i] \in Seq(Entry) /\ Len(log[i]) \in Nat /\ p \in Server
  BY SMTT(30) DEF TypeInv, TypeOK, Peers
<1>3. nextIndex[i][p] \in 1..(Len(log[i]) + 1)
  BY <1>2 DEF HeartbeatSend, TypeInv, NextInLog
<1>4. nextIndex[i][p] - 1 \in 0..Len(log[i])
  BY <1>2, <1>3, SMTT(30)
<1>5. nextIndex[i][p] - 1 \in Nat /\ TermAt(log[i], nextIndex[i][p] - 1) \in Nat
  BY <1>2, <1>4, TermAtType, SMTT(30)
<1>6. m \in AppendRequest
  BY <1>2, <1>5, SMTT(30) DEF AppendRequest, Beat
<1>7. appReq' = appReq \cup {m}
  BY DEF HeartbeatSend
<1> HIDE DEF m
<1>8. appReq' \subseteq AppendRequest
  BY <1>6, <1>7 DEF TypeInv, TypeOK
<1> QED
  BY <1>1, <1>8 DEF TypeInv, TypeOK, ActiveTerm, NextInLog, RoundsInLog

\* The answer to a heartbeat keeps the types.
LEMMA HeartbeatReceivedTypes ==
  ASSUME TypeInv, NEW i \in Server, NEW r \in appRep, HeartbeatReceived(i, r)
  PROVE  TypeInv'
<1>1. UNCHANGED <<log, stale, commitIndex, lastApplied, delivered, votes,
                  elections, nextIndex, broadcasts, appenders, acks, beats,
                  voteReq, voteRep, appReq, appRep, started, restarts>>
  BY DEF HeartbeatReceived, logVars, applyVars, electionVars, leaderVars,
         voteMsgs, appMsgs, clientVars
<1>2. r.term \in Nat /\ currentTerm[i] \in Nat
  BY DEF TypeInv, TypeOK, AppendReply
<1>3. BecomeFollower(i, r.term, Nil) /\ r.term >= currentTerm[i]
  BY <1>2, SMTT(30) DEF HeartbeatReceived
<1>4. TypeOK /\ log' \in [Server -> Seq(Entry)]
  BY <1>1 DEF TypeInv, TypeOK
<1>5. ActiveTerm' /\ NextInLog' /\ RoundsInLog'
  BY <1>1, <1>2, <1>3, FollowerLogInv, Zenon DEF BecomeFollower
<1>6. TypeOK'
  BY <1>1, <1>2, <1>3, <1>4, BecomeFollowerTypes, ZenonT(30) DEF TypeOK
<1> QED
  BY <1>5, <1>6 DEF TypeInv

\* What AppendEntries answers.
LEMMA AppendAnswerType ==
  ASSUME TypeOK, NEW v \in Server, NEW m \in appReq, NEW success \in BOOLEAN,
         NEW xLen \in Nat, NEW xTerm \in Nat, NEW xIndex \in Nat,
         AppendAnswer(v, m, success, xLen, xTerm, xIndex)
  PROVE  appRep' \subseteq AppendReply
<1> DEFINE r == [req |-> m, term |-> AnswerTerm(v, m), success |-> success,
                 xLen |-> xLen, xTerm |-> xTerm, xIndex |-> xIndex]
<1>1. m \in AppendRequest
  BY DEF TypeOK
<1>2. AnswerTerm(v, m) \in Nat
  BY <1>1, AnswerTermType DEF AppendRequest
<1>3. r \in AppendReply
  BY <1>1, <1>2 DEF AppendReply
<1>4. appRep' \subseteq appRep \cup {r}
  BY DEF AppendAnswer
<1> HIDE DEF r
<1> QED
  BY <1>3, <1>4 DEF TypeOK

\* AppendEntries leaves log, backing array and commit index in their types.
LEMMA AppendEntriesTypes ==
  ASSUME TypeInv, NEW v \in Server, NEW m \in appReq, AppendEntries(v, m)
  PROVE  TypeInv'
<1> DEFINE l == log[v]  prev == m.prevLogIndex
<1>1. UNCHANGED <<lastApplied, delivered, votes, elections, nextIndex,
                  broadcasts, appenders, acks, beats, voteReq, voteRep, appReq,
                  started, restarts>>
  BY ZenonT(30) DEF AppendEntries, electionVars, leaderVars, voteMsgs, clientVars
<1>2. m \in AppendRequest /\ TypeOK
  BY DEF TypeInv, TypeOK
<1>3. /\ m.term \in Nat /\ m.leaderId \in Server /\ prev \in Nat
      /\ m.entries \in Seq(Entry) /\ m.leaderCommit \in Nat
      /\ currentTerm[v] \in Nat /\ commitIndex[v] \in Nat
      /\ l \in Seq(Entry) /\ stale[v] \in Seq(Entry) /\ Len(l) \in Nat
  <2>1. /\ m.term \in Nat /\ m.leaderId \in Server /\ prev \in Nat
        /\ m.entries \in Seq(Entry) /\ m.leaderCommit \in Nat
        /\ currentTerm[v] \in Nat /\ commitIndex[v] \in Nat
        /\ l \in Seq(Entry) /\ stale[v] \in Seq(Entry)
    BY <1>2, Zenon DEF TypeOK, AppendRequest
  <2>2. Len(l) \in Nat
    BY <2>1, SMT
  <2> QED
    BY <2>1, <2>2
<1>4. ASSUME m.term >= currentTerm[v], BecomeFollower(v, m.term, m.leaderId),
             log' \in [Server -> Seq(Entry)], stale' \in [Server -> Seq(Entry)],
             commitIndex' \in [Server -> Nat], appRep' \subseteq AppendReply,
             \A j \in Server \ {v} : log'[j] = log[j]
      PROVE  TypeInv'
  <2>1. ActiveTerm' /\ NextInLog' /\ RoundsInLog'
    BY <1>1, <1>3, <1>4, FollowerLogInv, ZenonT(30) DEF BecomeFollower
  <2>2. TypeOK'
    BY <1>1, <1>2, <1>3, <1>4, BecomeFollowerTypes, ZenonT(30) DEF TypeOK
  <2> QED
    BY <2>1, <2>2 DEF TypeInv
<1>5. CASE /\ AppendAnswer(v, m, FALSE, 0, 0, 0)
           /\ UNCHANGED <<termVars, logVars, commitIndex>>
  <2>1. appRep' \subseteq AppendReply
    BY <1>2, <1>5, AppendAnswerType, ZenonT(30)
  <2> QED
    BY <1>1, <1>5, <2>1, ZenonT(30) DEF termVars, logVars, TypeInv, TypeOK, ActiveTerm,
                            NextInLog, RoundsInLog
<1>6. CASE /\ m.term >= currentTerm[v]
           /\ AppendAnswer(v, m, FALSE, Len(l) + 1, 0, 0)
           /\ UNCHANGED <<logVars, commitIndex>>
           /\ BecomeFollower(v, m.term, m.leaderId)
  <2>1. appRep' \subseteq AppendReply
    <3>1. Len(l) + 1 \in Nat
      BY <1>3, SMTT(30)
    <3>2. AppendAnswer(v, m, FALSE, Len(l) + 1, 0, 0)
      BY <1>6, ZenonT(30)
    <3> QED
      BY <1>2, <3>1, <3>2, AppendAnswerType, ZenonT(30)
  <2> QED
    BY <1>2, <1>4, <1>6, <2>1 DEF logVars, TypeOK
<1>7. CASE /\ m.term >= currentTerm[v]
           /\ Conflicts(l, prev, m.prevLogTerm)
           /\ AppendAnswer(v, m, FALSE, Len(l) + 1, l[prev].term,
                           FirstOfRun(l, prev))
           /\ UNCHANGED <<logVars, commitIndex>>
           /\ BecomeFollower(v, m.term, m.leaderId)
  <2>1. prev \in 1..Len(l)
    BY <1>3, <1>7, SMTT(30) DEF Conflicts
  <2>2. l[prev].term \in Nat
    <3>1. l[prev] \in Entry
      BY <1>3, <2>1, SMTT(30)
    <3> QED
      BY <3>1 DEF Entry
  <2>3. FirstOfRun(l, prev) \in Nat
    BY <1>3, <2>1, FirstOfRunType, SMTT(30)
  <2>4. appRep' \subseteq AppendReply
    <3>1. Len(l) + 1 \in Nat
      BY <1>3, SMTT(30)
    <3>2. AppendAnswer(v, m, FALSE, Len(l) + 1, l[prev].term,
                       FirstOfRun(l, prev))
      BY <1>7, ZenonT(30)
    <3> QED
      BY <1>2, <2>2, <2>3, <3>1, <3>2, AppendAnswerType, ZenonT(30)
  <2> QED
    BY <1>2, <1>4, <1>7, <2>4 DEF logVars, TypeOK
<1>8. CASE /\ m.term >= currentTerm[v]
           /\ ~TooShort(l, prev)
           /\ AppendAnswer(v, m, TRUE, Len(l) + 1, 0, 0)
           /\ log' = [log EXCEPT ![v] = MergeLog(@, prev, m.entries)]
           /\ stale' = [stale EXCEPT ![v] = MergeStale(l, @, prev, m.entries)]
           /\ commitIndex' = [commitIndex EXCEPT ![v] =
                                MergeCommit(l, prev, m.entries,
                                            m.leaderCommit, @)]
           /\ BecomeFollower(v, m.term, m.leaderId)
  <2>1. prev \in 0..Len(l)
    BY <1>3, <1>8, SMTT(30) DEF TooShort
  <2>2. appRep' \subseteq AppendReply
    <3>1. Len(l) + 1 \in Nat
      BY <1>3, SMTT(30)
    <3>2. AppendAnswer(v, m, TRUE, Len(l) + 1, 0, 0)
      BY <1>8, ZenonT(30)
    <3> QED
      BY <1>2, <3>1, <3>2, AppendAnswerType, ZenonT(30)
  <2>3. MergeLog(l, prev, m.entries) \in Seq(Entry)
    BY <1>3, <2>1, MergeLogType
  <2>4. MergeStale(l, stale[v], prev, m.entries) \in Seq(Entry)
    BY <1>3, <2>1, MergeStaleType
  <2>5. MergeCommit(l, prev, m.entries, m.leaderCommit, commitIndex[v]) \in Nat
    BY <1>3, <2>1, MergeCommitType, ZenonT(30)
  <2>6. log' \in [Server -> Seq(Entry)] /\ \A j \in Server \ {v} : log'[j] = log[j]
    BY <1>2, <1>8, <2>3 DEF TypeOK
  <2>7. stale' \in [Server -> Seq(Entry)]
    BY <1>2, <1>8, <2>4 DEF TypeOK
  <2>8. commitIndex' \in [Server -> Nat]
    BY <1>2, <1>8, <2>5 DEF TypeOK
  <2> QED
    BY <1>4, <1>8, <2>2, <2>6, <2>7, <2>8
<1> QED
  BY <1>5, <1>6, <1>7, <1>8, ZenonT(30) DEF AppendEntries

\* applyLog keeps the types.
LEMMA ApplyLogTypes ==
  ASSUME TypeInv, NEW i \in Server, ApplyLog(i)
  PROVE  TypeInv'
<1>1. UNCHANGED <<currentTerm, votedFor, state, persisted, log, stale,
                  commitIndex, votes, elections, nextIndex, broadcasts,
                  appenders, acks, beats, voteReq, voteRep, appReq, appRep,
                  started, restarts>>
  BY DEF ApplyLog, termVars, logVars, electionVars, leaderVars, voteMsgs,
         appMsgs, clientVars
<1> DEFINE n == lastApplied[i] + 1
<1>2. lastApplied' \in [Server -> Nat] /\ lastApplied'[i] = n /\ n \in Nat \ {0}
  BY SMTT(30) DEF ApplyLog, TypeInv, TypeOK
<1>3. log[i] \in Seq(Entry) /\ Len(log[i]) \in Nat /\ n <= Len(log[i])
  BY SMTT(30) DEF ApplyLog, TypeInv, TypeOK
<1> HIDE DEF n
<1>4. log[i][n] \in Entry
  <2>1. n \in 1..Len(log[i])
    BY <1>2, <1>3, SMTT(30)
  <2> QED
    BY <1>3, <2>1, SMTT(30)
<1>5. [index |-> n, command |-> log[i][n].command]
        \in [index : Nat, command : Command]
  BY <1>2, <1>4 DEF Entry
<1>6. delivered' = delivered \cup
                     {[index |-> n, command |-> log[i][n].command]}
  BY <1>2 DEF ApplyLog
<1>7. delivered' \subseteq [index : Nat, command : Command]
  BY <1>5, <1>6 DEF TypeInv, TypeOK
<1> QED
  BY <1>1, <1>2, <1>7 DEF TypeInv, TypeOK, ActiveTerm, NextInLog, RoundsInLog

\* Make reads back what persist wrote.
LEMMA RestartTypes ==
  ASSUME TypeInv, NEW i \in Server, Restart(i)
  PROVE  TypeInv'
<1>1. UNCHANGED <<persisted, delivered, elections, voteReq, voteRep, appReq,
                  appRep, started>>
  BY DEF Restart, voteMsgs, appMsgs
<1>2. persisted[i] \in Saved
  BY DEF TypeInv, TypeOK
<1>3. /\ persisted[i].currentTerm \in Nat
      /\ persisted[i].votedFor \in Server \cup {Nil}
      /\ persisted[i].log \in Seq(Entry)
  BY <1>2 DEF Saved
<1>4. /\ currentTerm' \in [Server -> Nat]
      /\ votedFor' \in [Server -> Server \cup {Nil}]
      /\ log' \in [Server -> Seq(Entry)]
      /\ state' \in [Server -> {Follower, Candidate, Leader}]
  BY <1>3, ZenonT(30) DEF Restart, TypeInv, TypeOK
<1>5. /\ stale' \in [Server -> Seq(Entry)]
      /\ nextIndex' \in [Server -> [Server -> Nat]]
  BY SMTT(30) DEF Restart, TypeInv, TypeOK, NoNext
<1>6. /\ commitIndex' \in [Server -> Nat] /\ lastApplied' \in [Server -> Nat]
      /\ broadcasts' \in [Server -> Nat] /\ restarts' \in Nat
  BY SMTT(30) DEF Restart, TypeInv, TypeOK
<1>7. /\ votes' \in [Server -> SUBSET Server]
      /\ appenders' \in [Server -> SUBSET Appender]
      /\ acks' \in [Server -> SUBSET Ack]
      /\ beats' \in [Server -> SUBSET Beat]
  BY DEF Restart, TypeInv, TypeOK
<1>8. TypeOK'
  BY <1>1, <1>4, <1>5, <1>6, <1>7, ZenonT(30) DEF TypeInv, TypeOK
<1>9. ActiveTerm' /\ NextInLog' /\ RoundsInLog'
  <2>1. /\ appenders'[i] = {}
        /\ \A j \in Server : appenders'[j] \subseteq appenders[j]
        /\ \A j \in Server \ {i} : log'[j] = log[j] /\ nextIndex'[j] = nextIndex[j]
    BY DEF Restart, TypeInv, TypeOK
  <2> QED
    BY <1>3, <2>1, FollowerLogInv, ZenonT(30) DEF Restart
<1> QED
  BY <1>8, <1>9 DEF TypeInv

\* Every step of Raft keeps the types.
LEMMA StepTypes == TypeInv /\ [Next]_vars => TypeInv'
<1> SUFFICES ASSUME TypeInv, [Next]_vars PROVE TypeInv'
  OBVIOUS
<1>1. CASE UNCHANGED vars
  BY <1>1, VarsUnchanged DEF TypeInv, TypeOK, ActiveTerm, NextInLog, RoundsInLog
<1>2. ASSUME NEW i \in Server,
             Election(i) \/ BecomeLeader(i) \/ BroadcastLogs(i) \/ Heartbeat(i)
             \/ ApplyLog(i) \/ Restart(i)
      PROVE  TypeInv'
  BY ZenonT(30), <1>2, ElectionTypes, BecomeLeaderTypes, BroadcastLogsTypes,
     HeartbeatTypes, ApplyLogTypes, RestartTypes, Zenon
<1>3. ASSUME NEW v \in Server, NEW m \in voteReq, RequestVote(v, m)
      PROVE  TypeInv'
  BY <1>3, RequestVoteTypes
<1>4. ASSUME NEW i \in Server, NEW r \in voteRep, VoteReceived(i, r)
      PROVE  TypeInv'
  BY <1>4, VoteReceivedTypes
<1>5. ASSUME NEW i \in Server, NEW c \in Command, Start(i, c)
      PROVE  TypeInv'
  BY <1>5, StartTypes
<1>6. ASSUME NEW i \in Server, NEW g \in appenders[i],
             \/ AppenderRead(i, g) \/ AppenderStop(i, g) \/ AppenderSend(i, g)
             \/ AppenderOutdated(i, g)
      PROVE  TypeInv'
  BY <1>6, AppenderReadTypes, AppenderEndsTypes, AppenderSendTypes
<1>7. ASSUME NEW i \in Server, NEW g \in appenders[i], NEW r \in appRep,
             AppenderReceived(i, g, r)
      PROVE  TypeInv'
  BY <1>7, AppenderReceivedTypes
<1>8. ASSUME NEW i \in Server, NEW a \in acks[i], CommitRound(i, a)
      PROVE  TypeInv'
  BY <1>8, CommitRoundTypes
<1>9. ASSUME NEW i \in Server, NEW b \in beats[i], NEW p \in Peers(i),
             HeartbeatSend(i, b, p)
      PROVE  TypeInv'
  BY <1>9, HeartbeatSendTypes
<1>10. ASSUME NEW i \in Server, NEW r \in appRep, HeartbeatReceived(i, r)
       PROVE  TypeInv'
  BY <1>10, HeartbeatReceivedTypes
<1>11. ASSUME NEW i \in Server, NEW b \in beats[i], HeartbeatEnd(i, b)
       PROVE  TypeInv'
  BY <1>11, HeartbeatTypes
<1>12. ASSUME NEW v \in Server, NEW m \in appReq, AppendEntries(v, m)
       PROVE  TypeInv'
  BY <1>12, AppendEntriesTypes
<1> QED
  BY <1>1, <1>2, <1>3, <1>4, <1>5, <1>6, <1>7, <1>8, <1>9, <1>10, <1>11, <1>12,
     ZenonT(30) DEF Next

\* Every variable keeps its type, and what the types rest on: a leader's
\* nextIndex and the rounds of its own term stay within its log.
THEOREM TypeCorrect == Spec => [](TypeOK /\ NextInLog /\ RoundsInLog)
<1>1. Spec => []TypeInv
  BY InitTypes, StepTypes, PTL DEF Spec
<1>2. TypeInv => TypeOK /\ NextInLog /\ RoundsInLog
  BY DEF TypeInv
<1> QED
  BY <1>1, <1>2, PTL
=============================================================================
