------------------------------- MODULE MCRaft -------------------------------
(***************************************************************************)
(* Raft on small instances for TLC.  Three profiles, each rich in something*)
(* else, are searched in one run: a search with everything in it does not  *)
(* end.                                                                    *)
(***************************************************************************)
EXTENDS RaftImplements, TLC

\* Bounds: elections, commands and restarts over all servers, and whether
\* there are heartbeats.
Profile ==
  {[elections |-> 2, commands |-> 0, restarts |-> 1, beats |-> TRUE],
   [elections |-> 1, commands |-> 1, restarts |-> 1, beats |-> TRUE],
   [elections |-> 2, commands |-> 1, restarts |-> 0, beats |-> FALSE]}

NoHeartbeat ==
  /\ \A i \in Server : beats[i] = {}
  /\ \A m \in appReq : m.caller # "heartbeat"

\* A state that some profile reaches: all it bounds only grows, but for the
\* rounds of heartbeats, and those that have called nobody leave no trace.
InProfile ==
  \E p \in Profile :
    /\ Cardinality(voteReq) <= p.elections
    /\ Cardinality(started) <= p.commands
    /\ restarts <= p.restarts
    /\ p.beats \/ NoHeartbeat

Symmetry == Permutations(Server) \cup Permutations(Command)
============================================================================
