--------------------------- MODULE RaftImplements ---------------------------
(***************************************************************************)
(* The peers of module Raft implement module RaftService.                  *)
(***************************************************************************)
EXTENDS Raft

\* The commands that servers have sent on their applyCh, by index.  Were two
\* of them sent with one index, this would grow by Nil, which is no command.
Agreed ==
  [k \in 1..Cardinality(delivered) |->
     LET at == {d \in delivered : d.index = k}
     IN  IF at = {} THEN Nil ELSE (CHOOSE d \in at : TRUE).command]

Service == INSTANCE RaftService WITH
  Term <- 1..MaxElection,
  agreed <- Agreed,
  applied <- lastApplied,
  office <- {[term |-> e.term, server |-> e.leader] : e \in elections},
  leads <- [i \in Server |-> IF state[i] = Leader THEN currentTerm[i] ELSE 0]

\* Every step of Raft is a step of the service or none: all servers apply one
\* sequence of commands without gaps, through elections, conflicting logs and
\* restarts (checkLogs of src/raft/config.go), and a term has one leader
\* (checkOneLeader).
ImplementsService == Service!Spec
============================================================================
