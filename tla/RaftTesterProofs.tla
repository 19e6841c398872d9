-------------------------- MODULE RaftTesterProofs --------------------------
(***************************************************************************)
(* The tester of src/raft/config.go judges right, for any number of        *)
(* servers, commands, terms, restarts and indexes.                         *)
(***************************************************************************)
EXTENDS RaftTester, FiniteSetTheorems, TLAPS

\* The provers of a leaf that names none, in the order they are tried.
USE ZenonT(2), SMTT(30), Zenon, SMTT(40)

USE DEF Testing

\* The invariant holds when the test begins.
LEMMA InvInit == TestInit => TesterInv
<1> SUFFICES ASSUME TestInit PROVE TesterInv
  OBVIOUS
<1>1. TypeOK
  BY TesterAssumption, SMTT(30) DEF TestInit, Init, TypeOK
<1>2. EntriesRight /\ NoGaps /\ NoFalseAlarm
  BY SMTT(30) DEF TestInit, Init, EntriesRight, NoGaps, NoFalseAlarm, Right, Recorded
<1>3. SeenElected /\ HeardAgree /\ OneAgreed
  BY DEF TestInit, Init, SeenElected, HeardAgree, OneAgreed
<1> QED
  BY <1>1, <1>2, <1>3 DEF TesterInv

\* Every variable keeps its type.
LEMMA TypeStep == TypeOK /\ [TestNext]_vars => TypeOK'
<1> SUFFICES ASSUME TypeOK, [TestNext]_vars PROVE TypeOK'
  OBVIOUS
<1> USE TesterAssumption DEF TypeOK, svcVars, testVars, applierVars, oneVars, askVars
<1>1. CASE UNCHANGED vars
  BY <1>1 DEF vars
<1>2. ASSUME NEW i \in Server, NEW c \in Command, Send(i, c) PROVE
        hand' \subseteq [server : Server, index : 1..MaxIndex, command : Command,
                         old : BOOLEAN]
        /\ \A m, n \in hand' : m.server = n.server /\ ~m.old /\ ~n.old => m = n
  <2> DEFINE new == [server |-> i, index |-> applied[i] + 1, command |-> c,
                     old |-> FALSE]
  <2>1. hand' = hand \cup {new} /\ \A m \in hand : m.server = i => m.old
    BY <1>2 DEF Send
  <2>2. new \in [server : Server, index : 1..MaxIndex, command : Command,
                 old : BOOLEAN]
    <3>1. applied[i] + 1 \in 1..MaxIndex
      BY <1>2, SMTT(30) DEF Send
    <3> QED
      BY <3>1
  <2>3. new.server = i /\ ~new.old
    OBVIOUS
  <2>4. \A m \in hand : ~m.old => m.server # i
    BY <2>1
  <2> HIDE DEF new
  <2>5. \A m, n \in hand' : m.server = n.server /\ ~m.old /\ ~n.old => m = n
    BY <2>1, <2>3, <2>4
  <2> QED
    BY <2>1, <2>2, <2>5
<1>3. ASSUME NEW i \in Server, TestApply(i) PROVE TypeOK'
  <2>1. agreed' \in Seq(Command) /\ applied[i] + 1 \in 1..Len(agreed')
    <3> applied[i] \in Nat /\ Len(agreed) \in Nat
      BY SMTT(30)
    <3>1. CASE applied[i] < Len(agreed) /\ UNCHANGED agreed
      BY <3>1, SMTT(30)
    <3>2. CASE /\ applied[i] = Len(agreed)
               /\ \E c \in started : agreed' = Append(agreed, c)
      BY <3>2, SMTT(30)
    <3> QED
      BY <1>3, <3>1, <3>2 DEF TestApply, Apply
  <2>2. agreed'[applied[i] + 1] \in Command
    BY <2>1, SMTT(30)
  <2>3. Send(i, agreed'[applied[i] + 1])
    BY <1>3 DEF TestApply
  <2> HIDE DEF TypeOK
  <2>4. hand' \subseteq [server : Server, index : 1..MaxIndex, command : Command,
                         old : BOOLEAN]
        /\ \A m, n \in hand' : m.server = n.server /\ ~m.old /\ ~n.old => m = n
    BY <1>2, <2>2, <2>3
  <2> USE DEF TypeOK
  <2> QED
    BY <1>3, <2>1, <2>4, SMTT(30) DEF TestApply, Apply, Send
<1>4. ASSUME NEW i \in Server, NEW c \in Command, FaultyApply(i, c) PROVE TypeOK'
  BY <1>4, <1>2, SMTT(30) DEF FaultyApply, Send
<1>5. ASSUME NEW m \in hand, Applier(m) PROVE TypeOK'
  <2>1. [index |-> m.index, command |-> m.command] \in Entry
    BY DEF Entry
  <2> QED
    BY Zenon, <1>5, <2>1 DEF Applier
<1>6. ASSUME NEW i \in Server, TestRestart(i) PROVE TypeOK'
  <2> DEFINE aged(m) == [m EXCEPT !.old = @ \/ m.server = i]
  <2>1. hand' = {aged(m) : m \in hand}
    BY <1>6 DEF TestRestart
  <2>2. ASSUME NEW m \in hand
        PROVE  /\ aged(m) \in [server : Server, index : 1..MaxIndex,
                               command : Command, old : BOOLEAN]
               /\ aged(m).server = m.server
               /\ ~aged(m).old => aged(m) = m
    BY Zenon
  <2>3. hand' \subseteq [server : Server, index : 1..MaxIndex, command : Command,
                         old : BOOLEAN]
        /\ \A m, n \in hand' : m.server = n.server /\ ~m.old /\ ~n.old => m = n
    <3> HIDE DEF aged
    <3> QED
      BY <2>1, <2>2, SMTT(30)
  <2>4. /\ restarts < MaxRestart /\ restarts' = restarts + 1
        /\ Restart(i)
        /\ UNCHANGED <<faulty, logs, heard, failed, oneVars, askVars>>
    BY <1>6, Zenon DEF TestRestart
  <2> QED
    BY <2>3, <2>4, SMTT(30) DEF Restart
<1>7. ASSUME NEW i \in Server, NEW c \in Command, NEW k \in 1..MaxIndex,
             OneStart(i, c, k)
      PROVE  TypeOK'
  BY <1>7, SMTT(30) DEF OneStart, Start
<1>8. ASSUME NEW i \in Server, NEW c \in Command, OtherStart(i, c) PROVE TypeOK'
  BY <1>8 DEF OtherStart, Start
<1>9. ASSUME NEW S \in SUBSET Server, OneReturn(S) PROVE TypeOK'
  <2>1. returned' = index /\ index' = 0
        /\ UNCHANGED <<svcVars, faulty, applierVars, askVars, restarts>>
    BY <1>9, Zenon DEF OneReturn
  <2> QED
    BY <2>1, SMTT(30)
<1>10. CASE OneTimeout
  BY <1>10, SMTT(30) DEF OneTimeout
<1>11. CASE AskAll
  BY <1>11 DEF AskAll
<1>12. ASSUME NEW i \in Server, GetState(i) PROVE TypeOK'
  <2>1. seen' \subseteq [term : Term, server : Server]
    BY <1>12, SMTT(30) DEF GetState
  <2> QED
    BY <1>12, <2>1 DEF GetState
<1>13. ASSUME NEW i \in Server, NEW t \in Term, TestElect(i, t) PROVE TypeOK'
  BY <1>13, SMTT(30) DEF TestElect, Elect
<1>14. ASSUME NEW i \in Server, TestDepose(i) PROVE TypeOK'
  BY <1>14 DEF TestDepose, Depose
<1> QED
  <2> HIDE DEF TypeOK
  <2> QED
    BY <1>1, <1>3, <1>4, <1>5, <1>6, <1>7, <1>8, <1>9, <1>10, <1>11, <1>12,
       <1>13, <1>14 DEF TestNext

\* A server seen as a leader is the one that was elected in its term.
LEMMA SeenStep == TypeOK /\ SeenElected /\ [TestNext]_vars => SeenElected'
<1> SUFFICES ASSUME TypeOK, SeenElected, [TestNext]_vars PROVE SeenElected'
  OBVIOUS
<1> USE TesterAssumption DEF svcVars, testVars, askVars
<1>1. ASSUME UNCHANGED <<office, leads, seen>> PROVE SeenElected'
  BY <1>1 DEF SeenElected
<1>2. ASSUME NEW i \in Server, UNCHANGED <<office, seen>>,
             leads' = [leads EXCEPT ![i] = 0]
      PROVE  SeenElected'
  BY <1>2 DEF SeenElected, TypeOK
<1>3. CASE UNCHANGED vars
  BY <1>1, <1>3 DEF vars
<1>4. ASSUME NEW i \in Server, TestApply(i) PROVE SeenElected'
  BY <1>1, <1>4 DEF TestApply, Apply, Send
<1>5. ASSUME NEW i \in Server, NEW c \in Command, FaultyApply(i, c)
      PROVE  SeenElected'
  BY <1>1, <1>5 DEF FaultyApply, Send
<1>6. ASSUME NEW m \in hand, Applier(m) PROVE SeenElected'
  BY Zenon, <1>1, <1>6 DEF Applier
<1>7. ASSUME NEW i \in Server, TestRestart(i) PROVE SeenElected'
  <2>1. UNCHANGED <<office, seen>> /\ leads' = [leads EXCEPT ![i] = 0]
    BY <1>7, Zenon DEF TestRestart, Restart
  <2> QED
    BY Zenon, <1>2, <2>1
<1>8. ASSUME NEW i \in Server, NEW c \in Command, NEW k \in 1..MaxIndex,
             OneStart(i, c, k)
      PROVE  SeenElected'
  BY <1>1, <1>8 DEF OneStart, Start
<1>9. ASSUME NEW i \in Server, NEW c \in Command, OtherStart(i, c)
      PROVE  SeenElected'
  BY <1>1, <1>9 DEF OtherStart, Start
<1>10. ASSUME NEW S \in SUBSET Server, OneReturn(S) PROVE SeenElected'
  <2>1. UNCHANGED <<office, leads, seen>>
    BY <1>10, Zenon DEF OneReturn
  <2> QED
    BY <1>1, <2>1
<1>11. CASE OneTimeout
  BY <1>1, <1>11 DEF OneTimeout
<1>12. CASE AskAll
  BY <1>12 DEF AskAll, SeenElected
<1>13. ASSUME NEW i \in Server, GetState(i) PROVE SeenElected'
  BY <1>13 DEF GetState, SeenElected
<1>14. ASSUME NEW i \in Server, NEW t \in Term, TestElect(i, t) PROVE SeenElected'
  <2> DEFINE new == [term |-> t, server |-> i]
  <2>1. /\ office' = office \cup {new} /\ \A o \in office : o.term # t
        /\ leads' = [leads EXCEPT ![i] = t] /\ UNCHANGED seen
    BY <1>14 DEF TestElect, Elect
  <2>2. \A o, p \in office' : o.term = p.term => o.server = p.server
    BY <2>1, SMTT(30) DEF SeenElected
  <2>3. ASSUME NEW j \in Server, leads'[j] # 0
        PROVE  [term |-> leads'[j], server |-> j] \in office'
    BY <2>1, <2>3 DEF SeenElected, TypeOK
  <2> QED
    BY <2>1, <2>2, <2>3 DEF SeenElected
<1>15. ASSUME NEW i \in Server, TestDepose(i) PROVE SeenElected'
  BY Zenon, <1>2, <1>15 DEF TestDepose, Depose
<1> QED
  BY <1>3, <1>4, <1>5, <1>6, <1>7, <1>8, <1>9, <1>10, <1>11, <1>12, <1>13,
     <1>14, <1>15 DEF TestNext

\* What a turn of applier does to a log: the entry is in it, and the others
\* that agree with it at its index stay.
LEMMA ApplierLogs ==
  ASSUME TypeOK, NEW m \in hand, Applier(m)
  PROVE  LET e == [index |-> m.index, command |-> m.command]
         IN  /\ heard' = heard \cup {e}
             /\ e \in logs'[m.server]
             /\ \A i \in Server : logs'[i] \subseteq logs[i] \cup {e}
             /\ \A i \in Server : \A f \in logs[i] :
                  f \in logs'[i] \/ f.index = m.index
             /\ \A i \in Server : i # m.server => logs'[i] = logs[i]
  BY Zenon DEF Applier, TypeOK

\* Two entries with the same index and command are one.
LEMMA EntryEqual ==
  ASSUME NEW d \in Entry, NEW e \in Entry,
         d.index = e.index, d.command = e.command
  PROVE  d = e
  BY SMTT(30) DEF Entry

\* The records agree as long as checkLogs finds nothing.
LEMMA HeardStep == TypeOK /\ HeardAgree /\ [TestNext]_vars => HeardAgree'
<1> SUFFICES ASSUME TypeOK, HeardAgree, [TestNext]_vars PROVE HeardAgree'
  OBVIOUS
<1> USE DEF svcVars, testVars, applierVars
<1>1. ASSUME UNCHANGED <<logs, heard>>, failed = {} PROVE HeardAgree'
  BY <1>1 DEF HeardAgree
<1>2. CASE UNCHANGED vars
  BY <1>2 DEF vars, HeardAgree
<1>3. ASSUME NEW m \in hand, Applier(m) PROVE HeardAgree'
  <2> DEFINE e == [index |-> m.index, command |-> m.command]
  <2>1. SUFFICES ASSUME CheckLogs(m) PROVE HeardAgree'
    BY Zenon, <1>3 DEF Applier, HeardAgree
  <2>2. /\ \A d \in heard : \E j \in Server : d \in logs[j]
        /\ \A d, f \in heard : d.index = f.index => d.command = f.command
        /\ \A i \in Server : logs[i] \subseteq heard
    BY Zenon, <1>3 DEF HeardAgree, Applier
  <2>3. /\ m \in [server : Server, index : 1..MaxIndex, command : Command,
                  old : BOOLEAN]
        /\ e \in Entry /\ e.index = m.index /\ e.command = m.command
        /\ heard \subseteq Entry
    BY DEF TypeOK, Entry
  <2>4. /\ heard' = heard \cup {e}
        /\ e \in logs'[m.server]
        /\ \A i \in Server : logs'[i] \subseteq logs[i] \cup {e}
        /\ \A i \in Server : \A f \in logs[i] : f \in logs'[i] \/ f.index = m.index
    BY <1>3, ApplierLogs
  <2> HIDE DEF e
  <2>5. \A d \in heard : d.index = e.index => d.command = e.command
    BY <2>1, <2>2, <2>3, SMTT(30) DEF CheckLogs
  <2>6. \A d \in heard' : \E j \in Server : d \in logs'[j]
    <3> SUFFICES ASSUME NEW d \in heard', d # e
                 PROVE  \E j \in Server : d \in logs'[j]
      BY <2>3, <2>4
    <3>1. PICK j \in Server : d \in logs[j]
      BY <2>2, <2>4
    <3>2. d.index # m.index
      BY <2>3, <2>4, <2>5, EntryEqual
    <3> QED
      BY <2>4, <3>1, <3>2
  <2>7. \A d, f \in heard' : d.index = f.index => d.command = f.command
    BY <2>2, <2>4, <2>5
  <2>8. \A i \in Server : logs'[i] \subseteq heard'
    BY <2>2, <2>4
  <2> QED
    BY <2>6, <2>7, <2>8 DEF HeardAgree
<1>4. ASSUME NEW i \in Server, TestApply(i) PROVE HeardAgree'
  BY <1>1, <1>4 DEF TestApply, Send
<1>5. ASSUME NEW i \in Server, NEW c \in Command, FaultyApply(i, c)
      PROVE  HeardAgree'
  BY <1>1, <1>5 DEF FaultyApply, Send
<1>6. ASSUME NEW i \in Server, TestRestart(i) PROVE HeardAgree'
  <2>1. UNCHANGED <<logs, heard>> /\ failed = {}
    BY <1>6, Zenon DEF TestRestart
  <2> QED
    BY <1>1, <2>1
<1>7. ASSUME NEW i \in Server, NEW c \in Command, NEW k \in 1..MaxIndex,
             OneStart(i, c, k)
      PROVE  HeardAgree'
  BY <1>1, <1>7 DEF OneStart
<1>8. ASSUME NEW i \in Server, NEW c \in Command, OtherStart(i, c)
      PROVE  HeardAgree'
  BY <1>1, <1>8 DEF OtherStart
<1>9. ASSUME NEW S \in SUBSET Server, OneReturn(S) PROVE HeardAgree'
  <2>1. UNCHANGED <<logs, heard>> /\ failed = {}
    BY <1>9, Zenon DEF OneReturn
  <2> QED
    BY <1>1, <2>1
<1>10. CASE OneTimeout \/ AskAll
  BY <1>1, <1>10 DEF OneTimeout, AskAll
<1>11. ASSUME NEW i \in Server, GetState(i) PROVE HeardAgree'
  <2>1. UNCHANGED <<logs, heard>> /\ failed = {}
    BY <1>11, Zenon DEF GetState
  <2> QED
    BY <1>1, <2>1
<1>12. ASSUME NEW i \in Server, NEW t \in Term, TestElect(i, t) PROVE HeardAgree'
  BY <1>1, <1>12 DEF TestElect
<1>13. ASSUME NEW i \in Server, TestDepose(i) PROVE HeardAgree'
  BY <1>1, <1>13 DEF TestDepose
<1> QED
  BY <1>2, <1>3, <1>4, <1>5, <1>6, <1>7, <1>8, <1>9, <1>10, <1>11, <1>12,
     <1>13 DEF TestNext

\* What is right stays right: the agreed sequence only grows.
LEMMA RightStays ==
  ASSUME TypeOK, NEW i \in Server, Apply(i),
         \A j \in Server : applied[j] <= Len(agreed)
  PROVE  /\ agreed' \in Seq(Command)
         /\ applied[i] + 1 \in 1..Len(agreed')
         /\ Len(agreed) <= Len(agreed')
         /\ \A k \in 1..Len(agreed) : agreed'[k] = agreed[k]
<1>1. agreed \in Seq(Command) /\ applied[i] \in Nat /\ Len(agreed) \in Nat
  BY SMTT(30) DEF TypeOK
<1>2. CASE applied[i] < Len(agreed) /\ UNCHANGED agreed
  BY <1>1, <1>2, SMTT(30)
<1>3. CASE applied[i] = Len(agreed) /\ \E c \in started : agreed' = Append(agreed, c)
  BY <1>1, <1>3, SMTT(30) DEF TypeOK
<1> QED
  BY <1>2, <1>3 DEF Apply

\* A Raft that keeps its promises: the entries stay right, there are no gaps,
\* and nothing fails.
Sound == EntriesRight /\ NoGaps /\ failed = {}

\* Steps that touch neither logs nor appliers keep them right.
LEMMA SoundUnchanged ==
  ASSUME Sound, UNCHANGED <<agreed, applied, hand, logs, failed>>
  PROVE  Sound'
  BY SMTT(30) DEF Sound, EntriesRight, NoGaps, Right, Recorded

\* A command that is sent on applyCh is the one agreed on, and none is left out.
LEMMA SoundApply ==
  ASSUME TypeOK, Sound, NEW i \in Server, TestApply(i)
  PROVE  Sound'
<1> DEFINE k0 == applied[i] + 1
           new == [server |-> i, index |-> k0, command |-> agreed'[k0],
                   old |-> FALSE]
<1>1. /\ agreed \in Seq(Command) /\ applied \in [Server -> Nat]
      /\ \A m \in hand : m.index \in Nat \ {0}
      /\ \A j \in Server : \A e \in logs[j] : e.index \in Nat \ {0}
  BY TesterAssumption, SMTT(30) DEF TypeOK, Entry
<1>2. /\ agreed' \in Seq(Command)
      /\ k0 \in 1..Len(agreed')
      /\ Len(agreed) <= Len(agreed')
      /\ \A k \in 1..Len(agreed) : agreed'[k] = agreed[k]
  BY RightStays DEF TestApply, Sound, EntriesRight
<1>3. /\ hand' = hand \cup {new}
      /\ \A m \in hand : m.server = i => m.old
      /\ UNCHANGED <<logs, failed>>
      /\ applied' = [applied EXCEPT ![i] = k0]
  BY DEF TestApply, Send, Apply
<1>4. new.server = i /\ new.index = k0 /\ new.command = agreed'[k0] /\ ~new.old
  OBVIOUS
<1> HIDE DEF new
<1>5. EntriesRight'
  <2>1. \A j \in Server : applied'[j] <= Len(agreed')
    BY <1>1, <1>2, <1>3, SMTT(30) DEF Sound, EntriesRight
  <2>2. \A m \in hand' : m.index <= Len(agreed') /\ m.command = agreed'[m.index]
    <3>1. ASSUME NEW m \in hand
          PROVE  m.index <= Len(agreed') /\ m.command = agreed'[m.index]
      BY <1>1, <1>2, SMTT(30) DEF Sound, EntriesRight, Right
    <3> QED
      BY <1>2, <1>3, <1>4, <3>1, SMTT(30)
  <2>3. ASSUME NEW j \in Server, NEW e \in logs[j]
        PROVE  e.index <= Len(agreed') /\ e.command = agreed'[e.index]
    BY <1>1, <1>2, SMTT(30) DEF Sound, EntriesRight, Right
  <2> QED
    BY <1>3, <2>1, <2>2, <2>3 DEF EntriesRight, Right
<1>6. \A k \in 1..applied[i] : Recorded(i, k)
  BY <1>3 DEF Sound, NoGaps
<1>7. NoGaps'
  <2>1. ASSUME NEW j \in Server, NEW k \in 1..applied'[j]
        PROVE  \/ Recorded(j, k)
               \/ \E m \in hand' : m.server = j /\ ~m.old /\ m.index = k
    <3>1. CASE j # i
      BY <1>1, <1>3, <2>1, <3>1, SMTT(30) DEF Sound, NoGaps
    <3>2. CASE j = i /\ k # k0
      BY <1>1, <1>3, <1>6, <2>1, <3>2, SMTT(30)
    <3>3. CASE j = i /\ k = k0
      BY <1>3, <1>4, <3>3
    <3> QED
      BY <3>1, <3>2, <3>3
  <2>2. \A m \in hand' : m.index > 1 => Recorded(m.server, m.index - 1)
    <3>1. new.index > 1 => Recorded(new.server, new.index - 1)
      BY <1>1, <1>4, <1>6, SMTT(30)
    <3> QED
      BY <1>3, <3>1 DEF Sound, NoGaps
  <2> QED
    BY <1>3, <2>1, <2>2, SMTT(30) DEF NoGaps, Recorded
<1> QED
  BY <1>3, <1>5, <1>7 DEF Sound

\* applier records what was agreed on and finds nothing wrong with it.
LEMMA SoundApplier ==
  ASSUME TypeOK, Sound, NEW m \in hand, Applier(m)
  PROVE  Sound'
<1> DEFINE e == [index |-> m.index, command |-> m.command]
<1>1. /\ m.server \in Server /\ m.index \in Nat \ {0}
      /\ e.index = m.index /\ e.command = m.command
      /\ \A j \in Server : \A f \in logs[j] : f.index \in Nat \ {0}
  BY TesterAssumption, SMTT(30) DEF TypeOK, Entry
<1>2. /\ e \in logs'[m.server]
      /\ \A i \in Server : logs'[i] \subseteq logs[i] \cup {e}
      /\ \A i \in Server : \A f \in logs[i] : f \in logs'[i] \/ f.index = m.index
      /\ \A i \in Server : i # m.server => logs'[i] = logs[i]
  BY ApplierLogs
<1>3. /\ hand' = hand \ {m}
      /\ UNCHANGED <<agreed, applied>>
      /\ failed' = IF CheckLogs(m) THEN {} ELSE {"apply error"}
  BY Zenon DEF Applier, svcVars
<1> HIDE DEF e
<1>4. CheckLogs(m)
  <2>1. ASSUME NEW j \in Server, NEW f \in logs[j], f.index = m.index
        PROVE  f.command = m.command
    BY <2>1 DEF Sound, EntriesRight, Right
  <2> QED
    BY <2>1 DEF CheckLogs, Sound, NoGaps
<1>5. EntriesRight'
  BY ZenonT(30), <1>1, <1>2, <1>3 DEF Sound, EntriesRight, Right
<1>6. ASSUME NEW j \in Server, NEW k, Recorded(j, k)
      PROVE  \E f \in logs'[j] : f.index = k
  <2>1. PICK f \in logs[j] : f.index = k
    BY <1>6 DEF Recorded
  <2> QED
    BY <1>1, <1>2, <2>1
<1>7. \E f \in logs'[m.server] : f.index = m.index
  BY <1>1, <1>2
<1>8. NoGaps'
  <2>1. ASSUME NEW j \in Server, NEW k \in 1..applied[j]
        PROVE  \/ \E f \in logs'[j] : f.index = k
               \/ \E n \in hand' : n.server = j /\ ~n.old /\ n.index = k
    <3>1. \/ Recorded(j, k)
          \/ \E n \in hand : n.server = j /\ ~n.old /\ n.index = k
      BY Zenon DEF Sound, NoGaps
    <3>2. CASE Recorded(j, k)
      BY <1>6, <3>2
    <3>3. CASE \E n \in hand : n.server = j /\ ~n.old /\ n.index = k
      <4>1. PICK n \in hand : n.server = j /\ ~n.old /\ n.index = k
        BY <3>3
      <4>2. CASE n = m
        BY <1>7, <4>1, <4>2
      <4>3. CASE n # m
        <5>1. n \in hand'
          BY Zenon, <1>3, <4>3
        <5> QED
          BY <4>1, <5>1, Zenon
      <4> QED
        BY <4>2, <4>3
    <3> QED
      BY <3>1, <3>2, <3>3
  <2>2. ASSUME NEW n \in hand', n.index > 1
        PROVE  \E f \in logs'[n.server] : f.index = n.index - 1
    <3>1. n \in hand
      BY Zenon, <1>3, <2>2
    <3>2. n.server \in Server
      BY <3>1 DEF TypeOK
    <3>3. Recorded(n.server, n.index - 1)
      BY <2>2, <3>1, Zenon DEF Sound, NoGaps
    <3> QED
      BY <1>6, <3>2, <3>3
  <2> QED
    BY Zenon, <1>3, <2>1, <2>2 DEF NoGaps, Recorded
<1> QED
  BY <1>3, <1>4, <1>5, <1>8 DEF Sound

\* After a restart the old applier still has what was agreed on.
LEMMA SoundRestart ==
  ASSUME TypeOK, Sound, NEW i \in Server, TestRestart(i)
  PROVE  Sound'
<1> DEFINE aged(m) == [m EXCEPT !.old = @ \/ m.server = i]
<1>1. /\ hand' = {aged(m) : m \in hand}
      /\ applied' = [applied EXCEPT ![i] = 0]
      /\ UNCHANGED <<agreed, logs, failed>>
  BY Zenon DEF TestRestart, Restart
<1>2. ASSUME NEW m \in hand
      PROVE  /\ aged(m).server = m.server /\ aged(m).index = m.index
             /\ aged(m).command = m.command
             /\ m.server # i => aged(m) = m
  BY DEF TypeOK
<1>3. /\ agreed \in Seq(Command) /\ applied \in [Server -> Nat]
  BY DEF TypeOK
<1> HIDE DEF aged
<1>4. EntriesRight'
  BY <1>1, <1>2, <1>3, SMTT(30) DEF Sound, EntriesRight, Right
<1>5. NoGaps'
  <2>1. ASSUME NEW j \in Server, NEW k \in 1..applied'[j]
        PROVE  \/ Recorded(j, k)
               \/ \E m \in hand' : m.server = j /\ ~m.old /\ m.index = k
    <3>1. j # i /\ k \in 1..applied[j]
      BY <1>1, <1>3, <2>1, SMTT(30)
    <3> QED
      BY <1>1, <1>2, <3>1, SMTT(30) DEF Sound, NoGaps
  <2>2. \A m \in hand' : m.index > 1 => Recorded(m.server, m.index - 1)
    BY <1>1, <1>2, SMTT(30) DEF Sound, NoGaps
  <2> QED
    BY <1>1, <2>1, <2>2, SMTT(30) DEF NoGaps, Recorded
<1> QED
  BY <1>1, <1>4, <1>5 DEF Sound

\* What nCommitted finds at an index is the one command agreed on there.
LEMMA OneCommand ==
  ASSUME EntriesRight, NEW S \in SUBSET Server
  PROVE  /\ NCommitted(S) \subseteq {agreed[index]}
         /\ ~(Cardinality(NCommitted(S)) > 1)
<1>1. NCommitted(S) \subseteq {agreed[index]}
  BY SMTT(30) DEF NCommitted, EntriesRight, Right
<1>2. IsFiniteSet({agreed[index]}) /\ Cardinality({agreed[index]}) = 1
  BY FS_Singleton, Zenon
<1>3. /\ IsFiniteSet(NCommitted(S))
      /\ Cardinality(NCommitted(S)) <= Cardinality({agreed[index]})
  BY <1>1, <1>2, FS_Subset
<1>4. Cardinality(NCommitted(S)) \in Nat
  BY <1>3, FS_CardinalityType
<1> QED
  BY <1>1, <1>2, <1>3, <1>4, SMTT(30)

\* Every step of a right Raft and its tester keeps the records right.
LEMMA SoundStep ==
  ASSUME TypeOK, SeenElected, Sound, ~faulty, [TestNext]_vars
  PROVE  Sound'
<1> USE DEF svcVars, testVars, applierVars
<1>1. CASE UNCHANGED vars
  BY <1>1, SoundUnchanged DEF vars
<1>2. ASSUME NEW i \in Server, TestApply(i) PROVE Sound'
  BY <1>2, SoundApply
<1>3. ASSUME NEW i \in Server, NEW c \in Command, FaultyApply(i, c) PROVE Sound'
  BY <1>3 DEF FaultyApply
<1>4. ASSUME NEW m \in hand, Applier(m) PROVE Sound'
  BY <1>4, SoundApplier
<1>5. ASSUME NEW i \in Server, TestRestart(i) PROVE Sound'
  BY <1>5, SoundRestart
<1>6. ASSUME NEW i \in Server, NEW c \in Command, NEW k \in 1..MaxIndex,
             OneStart(i, c, k)
      PROVE  Sound'
  BY <1>6, SoundUnchanged DEF OneStart, Start
<1>7. ASSUME NEW i \in Server, NEW c \in Command, OtherStart(i, c) PROVE Sound'
  BY <1>7, SoundUnchanged DEF OtherStart, Start
<1>8. ASSUME NEW S \in SUBSET Server, OneReturn(S) PROVE Sound'
  <2>1. ~(Cardinality(NCommitted(S)) > 1)
    BY OneCommand DEF Sound
  <2>2. failed' = failed
    BY <1>8, <2>1, Zenon DEF OneReturn
  <2> QED
    BY Zenon, <1>8, <2>2, SoundUnchanged DEF OneReturn
<1>9. CASE OneTimeout \/ AskAll
  BY <1>9, SoundUnchanged DEF OneTimeout, AskAll
<1>10. ASSUME NEW i \in Server, GetState(i) PROVE Sound'
  <2>1. seen' \subseteq office
    BY <1>10 DEF GetState, SeenElected
  <2>2. ~ \E l, m \in seen' : l.term = m.term /\ l.server # m.server
    BY <2>1 DEF SeenElected
  <2>3. failed' = failed
    BY <1>10, <2>2 DEF GetState
  <2> QED
    BY <1>10, <2>3, SoundUnchanged DEF GetState
<1>11. ASSUME NEW i \in Server, NEW t \in Term, TestElect(i, t) PROVE Sound'
  BY <1>11, SoundUnchanged DEF TestElect, Elect
<1>12. ASSUME NEW i \in Server, TestDepose(i) PROVE Sound'
  BY <1>12, SoundUnchanged DEF TestDepose, Depose
<1> QED
  BY <1>1, <1>2, <1>3, <1>4, <1>5, <1>6, <1>7, <1>8, <1>9, <1>10, <1>11, <1>12
     DEF TestNext

\* What a server has recorded for an index it may overwrite, not lose.
LEMMA RecordedStays ==
  ASSUME TypeOK, [TestNext]_vars, NEW j \in Server, NEW k, Recorded(j, k)
  PROVE  \E f \in logs'[j] : f.index = k
<1>1. PICK f \in logs[j] : f.index = k
  BY DEF Recorded
<1>2. ASSUME NEW m \in hand, Applier(m) PROVE \E g \in logs'[j] : g.index = k
  <2> DEFINE e == [index |-> m.index, command |-> m.command]
  <2>1. /\ e \in logs'[m.server]
        /\ f \in logs'[j] \/ f.index = m.index
        /\ j # m.server => logs'[j] = logs[j]
    BY <1>2, ApplierLogs
  <2>2. e.index = m.index
    OBVIOUS
  <2> HIDE DEF e
  <2> QED
    BY <1>1, <2>1, <2>2
<1>3. CASE ~ \E m \in hand : Applier(m)
  <2>1. UNCHANGED logs
    BY Zenon, <1>3 DEF TestNext, vars, testVars, applierVars, TestApply, Send,
       FaultyApply, TestRestart, OneStart, OtherStart, OneReturn, OneTimeout,
       AskAll, GetState, TestElect, TestDepose
  <2> QED
    BY <1>1, <2>1
<1> QED
  BY <1>2, <1>3

\* The commands agreed on stay, in a Raft that is not faulty.
LEMMA AgreedStays ==
  ASSUME TypeOK, Sound, ~faulty, [TestNext]_vars
  PROVE  /\ Len(agreed) <= Len(agreed')
         /\ \A k \in 1..Len(agreed) : agreed'[k] = agreed[k]
<1>1. ASSUME NEW i \in Server, TestApply(i)
      PROVE  \/ UNCHANGED agreed
             \/ \E c \in Command : agreed' = Append(agreed, c)
  BY <1>1 DEF TestApply, Apply, TypeOK
<1>2. ASSUME ~ \E i \in Server : TestApply(i) PROVE UNCHANGED agreed
  BY ZenonT(30), <1>2 DEF TestNext, vars, svcVars, Applier, FaultyApply, TestRestart, Restart,
     OneStart, OtherStart, Start, OneReturn, OneTimeout, AskAll, GetState,
     TestElect, Elect, TestDepose, Depose
<1>3. CASE \E c \in Command : agreed' = Append(agreed, c)
  BY <1>3, SMTT(30) DEF TypeOK
<1>4. CASE UNCHANGED agreed
  BY <1>4, SMTT(30) DEF TypeOK
<1> QED
  BY <1>1, <1>2, <1>3, <1>4

\* one returns only an index at which its own command has been agreed on.
LEMMA OneStep ==
  ASSUME TypeOK, ~faulty => Sound, OneAgreed, [TestNext]_vars
  PROVE  OneAgreed'
<1> SUFFICES ASSUME ~faulty', returned' # 0
             PROVE  /\ returned' <= Len(agreed')
                    /\ agreed'[returned'] \in Mine
                    /\ Cardinality({i \in Server : \E f \in logs'[i] :
                                      f.index = returned'}) >= Expected
  BY DEF OneAgreed, Recorded
<1> DEFINE have(k) == {i \in Server : Recorded(i, k)}
           have1(k) == {i \in Server : \E f \in logs'[i] : f.index = k}
<1>1. UNCHANGED faulty
  BY ZenonT(30) DEF TestNext, vars, testVars, TestApply, Send, FaultyApply, Applier,
     TestRestart, OneStart, OtherStart, OneReturn, OneTimeout, AskAll, GetState,
     TestElect, TestDepose
<1>2. ~faulty /\ Sound
  BY <1>1
<1>3. /\ Len(agreed) \in Nat /\ Len(agreed) <= Len(agreed')
      /\ \A k \in 1..Len(agreed) : agreed'[k] = agreed[k]
  BY <1>2, AgreedStays, SMTT(30) DEF TypeOK
<1>4. ASSUME NEW k, NEW S \in SUBSET have(k), Cardinality(S) >= Expected
      PROVE  Cardinality(have1(k)) >= Expected
  <2>1. S \in SUBSET have1(k) /\ have1(k) \in SUBSET Server
    BY <1>4, RecordedStays
  <2>2. IsFiniteSet(have1(k))
    BY <2>1, TesterAssumption, FS_Subset
  <2>3. IsFiniteSet(S) /\ Cardinality(S) <= Cardinality(have1(k))
    BY <2>1, <2>2, FS_Subset
  <2>4. Cardinality(S) \in Nat /\ Cardinality(have1(k)) \in Nat
    BY <2>2, <2>3, FS_CardinalityType
  <2> QED
    BY <1>4, <2>3, <2>4, TesterAssumption, SMTT(30)
<1>5. ASSUME NEW S \in SUBSET Server, OneReturn(S)
      PROVE  /\ returned' <= Len(agreed')
             /\ agreed'[returned'] \in Mine
             /\ Cardinality(have1(returned')) >= Expected
  <2>1. /\ returned' = index /\ index # 0
        /\ \A i \in S : Recorded(i, index)
        /\ Cardinality(S) >= Expected
        /\ NCommitted(S) \cap Mine # {}
    BY Zenon, <1>5 DEF OneReturn
  <2>2. NCommitted(S) \subseteq {agreed[index]}
    BY <1>2, OneCommand DEF Sound
  <2>3. agreed[index] \in Mine
    BY <2>1, <2>2
  <2>4. index <= Len(agreed)
    BY <1>2, <2>1, SMTT(30) DEF NCommitted, Sound, EntriesRight, Right
  <2>5. index \in 1..Len(agreed)
    BY <1>3, <2>1, <2>4, SMTT(30) DEF TypeOK
  <2>6. S \in SUBSET have(index)
    BY <2>1
  <2>7. Cardinality(have1(index)) >= Expected
    BY Zenon, <1>4, <2>1, <2>6
  <2> QED
    BY <1>3, <2>1, <2>3, <2>5, <2>7, SMTT(30)
<1>6. CASE ~ \E S \in SUBSET Server : OneReturn(S)
  <2>1. UNCHANGED returned
    BY Zenon, <1>6 DEF TestNext, vars, testVars, oneVars, TestApply, Send, FaultyApply,
       Applier, TestRestart, OneStart, OtherStart, OneTimeout, AskAll, GetState,
       TestElect, TestDepose
  <2>2. /\ returned <= Len(agreed) /\ agreed[returned] \in Mine
        /\ Cardinality(have(returned)) >= Expected
    BY <1>2, <2>1 DEF OneAgreed
  <2>3. returned \in 1..Len(agreed)
    BY <1>3, <2>1, <2>2, SMTT(30) DEF TypeOK
  <2>4. Cardinality(have1(returned)) >= Expected
    BY Zenon, <1>4, <2>2
  <2> QED
    BY <1>3, <2>1, <2>2, <2>3, <2>4, SMTT(30)
<1> QED
  BY <1>5, <1>6

\* Every step keeps the invariant.
LEMMA InvStep == TesterInv /\ [TestNext]_vars => TesterInv'
<1> SUFFICES ASSUME TesterInv, [TestNext]_vars PROVE TesterInv'
  OBVIOUS
<1>1. TypeOK /\ SeenElected /\ HeardAgree /\ OneAgreed /\ (~faulty => Sound)
  BY DEF TesterInv, NoFalseAlarm, Sound
<1>2. TypeOK' /\ SeenElected' /\ HeardAgree' /\ OneAgreed'
  BY <1>1, TypeStep, SeenStep, HeardStep, OneStep
<1>3. ~faulty => Sound'
  BY <1>1, SoundStep
<1>4. UNCHANGED faulty
  BY Zenon DEF TestNext, vars, testVars, TestApply, Send, FaultyApply, Applier,
     TestRestart, OneStart, OtherStart, OneReturn, OneTimeout, AskAll, GetState,
     TestElect, TestDepose
<1> QED
  BY <1>2, <1>3, <1>4 DEF TesterInv, NoFalseAlarm, Sound

\* The invariant holds in every state that the tester reaches.
LEMMA Invariance == TestSpec => []TesterInv
  BY InvInit, InvStep, PTL DEF TestSpec

\* Whatever the appliers, one and checkOneLeader see of a Raft that keeps its
\* promises, they do not fail the test.
THEOREM RightRaftPasses == TestSpec => []NoFalseAlarm
<1>1. TesterInv => NoFalseAlarm
  BY DEF TesterInv, NoFalseAlarm
<1> QED
  BY <1>1, Invariance, PTL

\* checkLogs and applier fail the test of a Raft, whatever it does, by the time
\* two different commands have been recorded for one index.
THEOREM DivergenceFails == TestSpec => []NoMissedDivergence
<1>1. TesterInv => NoMissedDivergence
  BY DEF TesterInv, HeardAgree, NoMissedDivergence
<1> QED
  BY <1>1, Invariance, PTL

\* When one has returned an index, its command is the one agreed on there and
\* expectedServers servers have recorded it.
THEOREM OneIsRight == TestSpec => []OneAgreed
<1>1. TesterInv => OneAgreed
  BY DEF TesterInv
<1> QED
  BY <1>1, Invariance, PTL
============================================================================
