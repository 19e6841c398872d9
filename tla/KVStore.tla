------------------------------ MODULE KVStore ------------------------------
(***************************************************************************)
(* What a key/value service promises its clerks (src/models/kv.go, the     *)
(* model its tests check histories against): between the call and the      *)
(* return of each operation there is one moment at which it takes effect,  *)
(* once, on a map from keys to values.                                     *)
(*                                                                         *)
(* A value is a sequence of what has been put and appended: Put starts it  *)
(* anew, and the value of a missing key is empty.                          *)
(***************************************************************************)
EXTENDS Sequences

CONSTANTS
  Client,
  Key,
  Piece,       \* what a client puts or appends
  None         \* no operation

Op == [kind : {"Get"}, key : Key] \cup
      [kind : {"Put", "Append"}, key : Key, piece : Piece]

VARIABLES
  store,       \* the map
  pending,     \* the operation each client has called
  result       \* what it returns, once it has taken effect; None before

vars == <<store, pending, result>>

\* The new value of the key and the answer, for each kind of operation
\* (KvModel.Step; a Put answers what it puts).
NewValue(op, v) ==
  CASE op.kind = "Get" -> v
    [] op.kind = "Put" -> << op.piece >>
    [] op.kind = "Append" -> Append(v, op.piece)

Answer(op, v) == IF op.kind = "Put" THEN << op.piece >> ELSE v

Init ==
  /\ store = [k \in Key |-> << >>]
  /\ pending = [c \in Client |-> None]
  /\ result = [c \in Client |-> None]

Invoke(c, op) ==
  /\ pending[c] = None
  /\ pending' = [pending EXCEPT ![c] = op]
  /\ UNCHANGED <<store, result>>

Effect(c) ==
  /\ pending[c] # None
  /\ result[c] = None
  /\ store' = [store EXCEPT ![pending[c].key] = NewValue(pending[c], @)]
  /\ result' = [result EXCEPT ![c] = Answer(pending[c], store[pending[c].key])]
  /\ UNCHANGED pending

Return(c) ==
  /\ result[c] # None
  /\ pending' = [pending EXCEPT ![c] = None]
  /\ result' = [result EXCEPT ![c] = None]
  /\ UNCHANGED store

Next ==
  \/ \E c \in Client, op \in Op : Invoke(c, op)
  \/ \E c \in Client : Effect(c)
  \/ \E c \in Client : Return(c)

Spec == Init /\ [][Next]_vars
============================================================================
