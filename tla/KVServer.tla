------------------------------ MODULE KVServer ------------------------------
(***************************************************************************)
(* The key/value server of src/kvsrv: its clerks, its handlers and, between*)
(* them, the network of src/labrpc.                                        *)
(*                                                                         *)
(* A clerk repeats a call until it is answered.  The network runs the      *)
(* handler of a call at most once, and answers the clerk after the handler *)
(* has returned, or not at all; nobody disables an end or deletes the      *)
(* server while a clerk is at work (src/kvsrv/config.go), so a clerk has   *)
(* one handler at most.  An operation is therefore executed again only     *)
(* when an answer was lost, and the cache is there to recognise it.        *)
(***************************************************************************)
EXTENDS Naturals, Sequences, FiniteSets

CONSTANTS
  Client,
  Key,
  Piece,       \* what a clerk puts or appends
  None,
  MaxOp        \* bound: operations, over all clerks

ASSUME KVAssumption == MaxOp \in Nat

VARIABLES
  kvPair, cache,   \* the server's fields; cache is a function on known IDs
  pc,              \* is the clerk idle, in its operation, or telling Done?
  op, id, reply,   \* the operation, its ID and, in Done, its answer
  call,            \* where the clerk's Call is: nowhere, with the network on
                   \* the way to the server, past a cache miss, on its way back
  value,           \* what a Call on its way back brings
  nextID           \* IDs used so far

vars == <<kvPair, cache, pc, op, id, reply, call, value, nextID>>

server == <<kvPair, cache>>
clerk == <<pc, op, id, reply, nextID>>

Op == [kind : {"Get"}, key : Key] \cup
      [kind : {"Put", "Append"}, key : Key, piece : Piece]

\* None stands for no operation and for no answer.
ASSUME NoneAssumption == None \notin Op /\ None \notin Seq(Piece)

Init ==
  /\ kvPair = [k \in Key |-> << >>]
  /\ cache = << >>
  /\ pc = [c \in Client |-> "idle"]
  /\ op = [c \in Client |-> None]
  /\ id = [c \in Client |-> 0]
  /\ reply = [c \in Client |-> None]
  /\ call = [c \in Client |-> "none"]
  /\ value = [c \in Client |-> None]
  /\ nextID = 0

----------------------------------------------------------------------------
(* The clerk.                                                              *)

\* Get, Put or Append of a clerk.  nrand's IDs are taken to be distinct.
Begin(c, o) ==
  /\ pc[c] = "idle"
  /\ nextID < MaxOp
  /\ nextID' = nextID + 1
  /\ pc' = [pc EXCEPT ![c] = "op"]
  /\ op' = [op EXCEPT ![c] = o]
  /\ id' = [id EXCEPT ![c] = nextID']
  /\ UNCHANGED <<server, reply, call, value>>

\* Mutant: Done is called once, whatever comes of it.
Send_DoneOnce(c) ==
  /\ pc[c] = "op"
  /\ call[c] = "none"
  /\ call' = [call EXCEPT ![c] = "sent"]
  /\ UNCHANGED <<server, clerk, value>>

\* The next turn of `for !ck.server.Call(...)'.
Send(c) ==
  /\ pc[c] # "idle"
  /\ call[c] = "none"
  /\ call' = [call EXCEPT ![c] = "sent"]
  /\ UNCHANGED <<server, clerk, value>>

\* Call returns true: after the operation, on to Done; after Done, back to
\* the caller.
Receive(c) ==
  /\ call[c] = "back"
  /\ call' = [call EXCEPT ![c] = "none"]
  /\ value' = [value EXCEPT ![c] = None]
  /\ \/ /\ pc[c] = "op"
        /\ pc' = [pc EXCEPT ![c] = "done"]
        /\ reply' = [reply EXCEPT ![c] = value[c]]
        /\ UNCHANGED <<op, id>>
     \/ /\ pc[c] = "done"
        /\ pc' = [pc EXCEPT ![c] = "idle"]
        /\ op' = [op EXCEPT ![c] = None]
        /\ id' = [id EXCEPT ![c] = 0]
        /\ reply' = [reply EXCEPT ![c] = None]
  /\ UNCHANGED <<server, nextID>>

----------------------------------------------------------------------------
(* The network.                                                            *)

\* processReq drops the request before the handler runs, or the reply after
\* it: Call returns false.
Lose(c) ==
  /\ call[c] \in {"sent", "back"}
  /\ call' = [call EXCEPT ![c] = "none"]
  /\ value' = [value EXCEPT ![c] = None]
  /\ UNCHANGED <<server, clerk>>

----------------------------------------------------------------------------
(* The handlers.                                                           *)

\* The value of the key after the operation, and what the handler answers.
NewValue(o, v) ==
  CASE o.kind = "Get" -> v
    [] o.kind = "Put" -> << o.piece >>
    [] o.kind = "Append" -> Append(v, o.piece)

\* Mutant: Put answers the bare piece.
Result_Bare(o, v) == IF o.kind = "Put" THEN o.piece ELSE v

Result(o, v) == IF o.kind = "Put" THEN << o.piece >> ELSE v

\* Mutant: the cache is not consulted.
ModifyCache_Always(c) ==
  /\ call[c] = "sent" /\ pc[c] = "op"
  /\ call' = [call EXCEPT ![c] = "miss"]
  /\ UNCHANGED <<server, clerk, value>>

\* modifyCache: the Load, which takes no lock.
ModifyCache(c) ==
  /\ call[c] = "sent" /\ pc[c] = "op"
  /\ IF id[c] \in DOMAIN cache
     THEN /\ call' = [call EXCEPT ![c] = "back"]
          /\ value' = [value EXCEPT ![c] = cache[id[c]]]
     ELSE /\ call' = [call EXCEPT ![c] = "miss"]
          /\ UNCHANGED value
  /\ UNCHANGED <<server, clerk>>

\* The function a handler gives to modifyCache, under kv.mu.
ModifyFunc(c) ==
  LET k == op[c].key
      answer == Result(op[c], kvPair[k])
  IN  /\ call[c] = "miss"
      /\ kvPair' = [kvPair EXCEPT ![k] = NewValue(op[c], @)]
      /\ cache' = [i \in DOMAIN cache \cup {id[c]} |->
                     IF i = id[c] THEN answer ELSE cache[i]]
      /\ call' = [call EXCEPT ![c] = "back"]
      /\ value' = [value EXCEPT ![c] = answer]
      /\ UNCHANGED clerk

\* Mutant: the entry stays.
Done_Keeps(c) ==
  /\ call[c] = "sent" /\ pc[c] = "done"
  /\ call' = [call EXCEPT ![c] = "back"]
  /\ UNCHANGED <<server, clerk, value>>

Done(c) ==
  /\ call[c] = "sent" /\ pc[c] = "done"
  /\ cache' = [i \in DOMAIN cache \ {id[c]} |-> cache[i]]
  /\ call' = [call EXCEPT ![c] = "back"]
  /\ UNCHANGED <<kvPair, clerk, value>>

Next ==
  \/ \E c \in Client, o \in Op : Begin(c, o)
  \/ \E c \in Client : Send(c)
  \/ \E c \in Client : Receive(c)
  \/ \E c \in Client : Lose(c)
  \/ \E c \in Client : ModifyCache(c)
  \/ \E c \in Client : ModifyFunc(c)
  \/ \E c \in Client : Done(c)

Spec == Init /\ [][Next]_vars

\* A request and a reply are lost at random, so not every time.
Fairness ==
  \A c \in Client :
    /\ WF_vars(Send(c) \/ ModifyFunc(c))
    /\ SF_vars(ModifyCache(c) \/ Done(c))
    /\ SF_vars(Receive(c))

LiveSpec == Spec /\ Fairness

----------------------------------------------------------------------------
\* Every variable stays in its type.
TypeOK ==
  /\ kvPair \in [Key -> Seq(Piece)]
  /\ DOMAIN cache \subseteq 1..nextID
  /\ \A i \in DOMAIN cache : cache[i] \in Seq(Piece)
  /\ pc \in [Client -> {"idle", "op", "done"}]
  /\ op \in [Client -> Op \cup {None}]
  /\ id \in [Client -> 0..nextID]
  /\ reply \in [Client -> Seq(Piece) \cup {None}]
  /\ call \in [Client -> {"none", "sent", "miss", "back"}]
  /\ value \in [Client -> Seq(Piece) \cup {None}]
  /\ nextID \in 0..MaxOp

\* The cache never holds an answer that no clerk can ask for again, so it has
\* at most one entry for each clerk: what Done is for.
CacheBounded ==
  \A i \in DOMAIN cache : \E c \in Client : pc[c] # "idle" /\ id[c] = i

\* Every operation of a clerk returns.
OpsReturn == \A c \in Client : pc[c] # "idle" ~> pc[c] = "idle"

\* An operation has taken effect when its answer is in the cache, until the
\* clerk has it.
EffectOf(c) ==
  IF pc[c] = "done" THEN reply[c]
  ELSE IF pc[c] = "op" /\ id[c] \in DOMAIN cache THEN cache[id[c]]
  ELSE None

Store == INSTANCE KVStore WITH store <- kvPair, pending <- op,
                               result <- [c \in Client |-> EffectOf(c)]

\* Each operation takes effect exactly once between its call and its return,
\* however many calls and answers are lost, and returns the answer it had
\* then.
Linearizable == Store!Spec

----------------------------------------------------------------------------
(* Why the types, CacheBounded and Linearizable hold: the parts of an      *)
(* inductive invariant, proved in KVServerProofs.                          *)

\* Two operations under way have different IDs.
DistinctIDs ==
  \A c, d \in Client :
    c # d /\ pc[c] # "idle" /\ pc[d] # "idle" => id[c] # id[d]

\* What a clerk and its call hold at each point.
Clerks ==
  \A c \in Client :
    /\ pc[c] = "idle" => op[c] = None /\ call[c] = "none"
    /\ pc[c] # "idle" => op[c] \in Op /\ id[c] \in 1..nextID
    /\ pc[c] = "done" => reply[c] \in Seq(Piece)

\* A handler past its cache miss is the only one that can add the answer; an
\* answer on its way to the clerk is the one in the cache; and Done has
\* removed it once Done is answered, for nothing can add it again.
Handlers ==
  \A c \in Client :
    /\ call[c] = "miss" => pc[c] = "op" /\ id[c] \notin DOMAIN cache
    /\ call[c] = "back" /\ pc[c] = "op"
       => id[c] \in DOMAIN cache /\ value[c] = cache[id[c]]
    /\ call[c] = "back" /\ pc[c] = "done" => id[c] \notin DOMAIN cache

KVInv == TypeOK /\ DistinctIDs /\ Clerks /\ Handlers /\ CacheBounded
============================================================================
