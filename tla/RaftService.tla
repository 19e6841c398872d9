---------------------------- MODULE RaftService ----------------------------
(***************************************************************************)
(* What the peers of src/raft/raft.go promise to the service above them:   *)
(* one sequence of commands, which every server applies from its start,    *)
(* without gaps, and again from the start after a crash; and at most one   *)
(* server that takes itself for the leader of a term.  Module Raft         *)
(* implements this (RaftImplements); module RaftTester uses it.            *)
(***************************************************************************)
EXTENDS Naturals, Sequences, FiniteSets

CONSTANTS Server, Command, Term

VARIABLES
  agreed,       \* the commands that have been applied somewhere, in order
  applied,      \* how many of them each server has applied since it started
  started,      \* what has been passed to Start
  office,       \* history: who has been leader of which term
  leads         \* the term a server takes itself for the leader of; 0: none

svcVars == <<agreed, applied, started, office, leads>>

Init ==
  /\ agreed = << >>
  /\ applied = [i \in Server |-> 0]
  /\ started = {}
  /\ office = {}
  /\ leads = [i \in Server |-> 0]

\* Start on a server that takes itself for the leader.
Start(i, c) ==
  /\ c \notin started
  /\ started' = started \cup {c}
  /\ leads[i] # 0
  /\ UNCHANGED <<agreed, applied, office, leads>>

\* A server becomes leader of a term that nobody has led.
Elect(i, t) ==
  /\ leads[i] = 0
  /\ leads' = [leads EXCEPT ![i] = t]
  /\ \A o \in office : o.term # t
  /\ office' = office \cup {[term |-> t, server |-> i]}
  /\ UNCHANGED <<agreed, applied, started>>

Depose(i) ==
  /\ leads[i] # 0
  /\ leads' = [leads EXCEPT ![i] = 0]
  /\ UNCHANGED <<agreed, applied, started, office>>

\* A server applies its next command, the first server to do so any that has
\* been started and not been applied.
Apply(i) ==
  /\ applied' = [applied EXCEPT ![i] = @ + 1]
  /\ \/ applied[i] < Len(agreed) /\ UNCHANGED agreed
     \/ /\ applied[i] = Len(agreed)
        /\ \E c \in started : /\ \A k \in 1..Len(agreed) : agreed[k] # c
                              /\ agreed' = Append(agreed, c)
  /\ UNCHANGED <<started, office, leads>>

Restart(i) ==
  /\ applied' = [applied EXCEPT ![i] = 0]
  /\ leads' = [leads EXCEPT ![i] = 0]
  /\ UNCHANGED <<agreed, started, office>>

Next ==
  \E i \in Server :
    \/ Restart(i)
    \/ Apply(i)
    \/ Depose(i)
    \/ \E t \in Term : Elect(i, t)
    \/ \E c \in Command : Start(i, c)

Spec == Init /\ [][Next]_svcVars
============================================================================
