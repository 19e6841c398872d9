------------------------------ MODULE RaftLog ------------------------------
(***************************************************************************)
(* The pure functions of src/raft/raft.go on logs: the up-to-date test of  *)
(* a vote, the follower's merge of the entries of an AppendEntries call,   *)
(* the conflict hint it answers and the leader's use of that hint.         *)
(*                                                                         *)
(* A log is a sequence of entries; element k is rf.log[k] of the program,  *)
(* whose rf.log[0] is the dummy entry {0, 0, 0}: len(rf.log) is Len(l)+1.  *)
(* Nothing is compacted (rf.X = 0), so an entry's Index is its position.   *)
(***************************************************************************)
EXTENDS Integers, Sequences, FiniteSetsExt

CONSTANT Command

\* LogEntry, without its Index; only the dummy entry has term 0.
Entry == [term : Nat \ {0}, command : Command]

\* rf.log[k].Term, the dummy entry included.
TermAt(l, k) == IF k = 0 THEN 0 ELSE l[k].term

\* getLastLogEntryTermIndex: the index is Len(l).
LastTerm(l) == TermAt(l, Len(l))

\* isUpToDate: may a voter with log l vote for a candidate whose last entry
\* has this term and index?
IsUpToDate(l, term, index) ==
  \/ term > LastTerm(l)
  \/ term = LastTerm(l) /\ index >= Len(l)

----------------------------------------------------------------------------
(* The follower's side of AppendEntries.                                   *)

TooShort(l, prev) == prev > Len(l)

\* Mutant: the term of the entry before the new ones is not compared.
Conflicts_Never(l, prev, prevTerm) == FALSE

Conflicts(l, prev, prevTerm) ==
  /\ 0 < prev
  /\ prev <= Len(l)
  /\ l[prev].term # prevTerm

\* Mutant: rf.log[i].Index for rf.log[i+1].Index.
FirstOfRun_OffByOne(l, prev) ==
  Max({k \in 0..(prev - 1) : TermAt(l, k) # l[prev].term})

\* The XIndex of the answer: the first index of the run of equal terms that
\* the conflicting entry prev belongs to (the loop down from prev - 1).
FirstOfRun(l, prev) ==
  1 + Max({k \in 0..(prev - 1) : TermAt(l, k) # l[prev].term})

\* The positions of entries that disagree with what l holds there.
Mismatches(l, prev, entries) ==
  {j \in 1..Len(entries) : /\ prev + j <= Len(l)
                           /\ l[prev + j].term # entries[j].term}

\* How many of entries the follower skips: those it holds already.
Skipped(l, prev, entries) ==
  IF Mismatches(l, prev, entries) # {}
  THEN Min(Mismatches(l, prev, entries)) - 1
  ELSE Min({Len(l) - prev, Len(entries)})

\* The part of its log the follower keeps: all of it, or, when an entry
\* disagrees, what comes before that entry (rf.log = rf.log[:i]).
Kept(l, prev, entries) ==
  IF Mismatches(l, prev, entries) # {}
  THEN SubSeq(l, 1, prev + Skipped(l, prev, entries))
  ELSE l

\* The entries the follower appends to what it keeps.
NewEntries(l, prev, entries) ==
  SubSeq(entries, Skipped(l, prev, entries) + 1, Len(entries))

MergeLog(l, prev, entries) ==
  Kept(l, prev, entries) \o NewEntries(l, prev, entries)

\* The elements of the backing array past the end of the log.  Cutting a Go
\* slice leaves them in place and appending overwrites them, so they are
\* what a later slice expression that ends past len(rf.log) reads.
MergeStale(l, stale, prev, entries) ==
  LET kept == Kept(l, prev, entries)
      tail == SubSeq(l, Len(kept) + 1, Len(l)) \o stale
  IN  SubSeq(tail, Len(NewEntries(l, prev, entries)) + 1, Len(tail))

\* Mutant: without the minimum.
MergeCommit_Unbounded(l, prev, entries, leaderCommit, ci) ==
  Max({leaderCommit, ci})

\* Mutant: only new entries bring a commit index, heartbeats do not.
MergeCommit_EntriesOnly(l, prev, entries, leaderCommit, ci) ==
  IF leaderCommit <= ci \/ NewEntries(l, prev, entries) = << >> THEN ci
  ELSE Min({leaderCommit, prev + Len(entries)})

\* The follower's new commitIndex when it was ci.
MergeCommit(l, prev, entries, leaderCommit, ci) ==
  IF leaderCommit <= ci THEN ci
  ELSE IF NewEntries(l, prev, entries) # << >>
       THEN Min({leaderCommit, prev + Len(entries)})
       ELSE Min({leaderCommit, prev})

----------------------------------------------------------------------------
(* The leader's side: isContainTerm, and where it resumes after a conflict.*)

\* The binary search of isContainTerm over slice positions 0..Len(l): the
\* value of `left' when the loop ends.
SearchTerm(l, term) ==
  LET Bounds == (0..(Len(l) + 1)) \X (-1..Len(l))
      left[b \in Bounds] ==
        LET mid == (b[1] + b[2]) \div 2
        IN  IF b[1] > b[2] THEN b[1]
            ELSE IF TermAt(l, mid) = term THEN mid
            ELSE IF TermAt(l, mid) < term THEN left[<<mid + 1, b[2]>>]
            ELSE left[<<b[1], mid - 1>>]
  IN  left[<<0, Len(l)>>]

\* logs[left] is out of range: the goroutine panics.
SearchPanics(l, term) == SearchTerm(l, term) > Len(l)

ContainsTerm(l, term) == TermAt(l, SearchTerm(l, term)) = term

\* The `index' isContainTerm returns with flag = true: the position before
\* the first other term after `left', where the last entry of the log is
\* not looked at, and 0 when there is none.
LastOfTerm(l, term) ==
  LET later == {k \in 1..(Len(l) - 1) : /\ k > SearchTerm(l, term)
                                        /\ l[k].term # term}
  IN  IF later = {} THEN 0 ELSE Min(later) - 1

\* Mutant: a conflict is retried at the same place.
NextStart_Again(l, prev, xLen, xTerm, xIndex) ==
  IF xLen - 1 < prev THEN xLen ELSE prev + 1

\* The start of the leader's next attempt after an unsuccessful answer to a
\* call with PrevLogIndex = prev.
NextStart(l, prev, xLen, xTerm, xIndex) ==
  IF xLen - 1 < prev THEN xLen
  ELSE IF ContainsTerm(l, xTerm) THEN LastOfTerm(l, xTerm)
  ELSE xIndex

============================================================================
