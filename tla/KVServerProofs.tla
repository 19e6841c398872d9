--------------------------- MODULE KVServerProofs ---------------------------
(***************************************************************************)
(* The key/value server of module KVServer implements the atomic store of  *)
(* module KVStore, for every set of clerks, keys and values.               *)
(***************************************************************************)
EXTENDS KVServer, TLAPS

\* The provers of a leaf that names none, in the order they are tried.
USE ZenonT(2), SMTT(30), Zenon, SMTT(40)

\* NewValue and Result make values of values.
LEMMA ValuesOfOps ==
  ASSUME NEW o \in Op, NEW v \in Seq(Piece)
  PROVE  NewValue(o, v) \in Seq(Piece) /\ Result(o, v) \in Seq(Piece)
<1>1. CASE o.kind = "Get" BY <1>1 DEF NewValue, Result
<1>2. CASE o.kind = "Put"
  <2>1. o.piece \in Piece BY <1>2 DEF Op
  <2> QED BY <1>2, <2>1, SMTT(30) DEF NewValue, Result
<1>3. CASE o.kind = "Append"
  <2>1. o.piece \in Piece BY <1>3 DEF Op
  <2> QED BY <1>3, <2>1, SMTT(30) DEF NewValue, Result
<1> QED BY <1>1, <1>2, <1>3 DEF Op

\* The inductive invariant holds at the start.
LEMMA KVInvInit == Init => KVInv
BY KVAssumption, SMTT(30) DEF Init, KVInv, TypeOK, DistinctIDs, Clerks, Handlers, CacheBounded

\* Every step of a clerk, of the network and of a handler keeps the inductive
\* invariant.
LEMMA KVInvStep == KVInv /\ [Next]_vars => KVInv'
<1> SUFFICES ASSUME KVInv, [Next]_vars PROVE KVInv'
  OBVIOUS
<1> USE DEF KVInv
<1>1. ASSUME NEW c \in Client, NEW o \in Op, Begin(c, o) PROVE KVInv'
  <2> USE <1>1 DEF Begin, server
  <2>1. TypeOK' BY KVAssumption, SMTT(30) DEF TypeOK
  <2>2. DistinctIDs' BY SMTT(30) DEF TypeOK, DistinctIDs, Clerks
  <2>3. Clerks' BY NoneAssumption, SMTT(30) DEF TypeOK, Clerks
  <2>4. Handlers' BY DEF TypeOK, Clerks, Handlers
  <2>5. CacheBounded' BY DEF TypeOK, CacheBounded
  <2> QED BY <2>1, <2>2, <2>3, <2>4, <2>5
<1>2. ASSUME NEW c \in Client, Send(c) PROVE KVInv'
  <2> USE <1>2 DEF Send, server, clerk
  <2>1. TypeOK' BY DEF TypeOK
  <2>2. DistinctIDs' BY DEF DistinctIDs
  <2>3. Clerks' BY DEF TypeOK, Clerks
  <2>4. Handlers' BY DEF TypeOK, Handlers
  <2>5. CacheBounded' BY DEF CacheBounded
  <2> QED BY <2>1, <2>2, <2>3, <2>4, <2>5
<1>3. ASSUME NEW c \in Client, Receive(c) PROVE KVInv'
  <2>1. CASE pc[c] = "op"
    <3>1. /\ call[c] = "back" /\ call' = [call EXCEPT ![c] = "none"]
          /\ value' = [value EXCEPT ![c] = None]
          /\ pc' = [pc EXCEPT ![c] = "done"]
          /\ reply' = [reply EXCEPT ![c] = value[c]]
          /\ UNCHANGED <<op, id, kvPair, cache, nextID>>
      BY <1>3, <2>1 DEF Receive, server
    <3>2. TypeOK' BY <3>1 DEF TypeOK
    <3>3. DistinctIDs' BY <2>1, <3>1 DEF TypeOK, DistinctIDs
    <3>4. Clerks' BY <2>1, <3>1 DEF TypeOK, Clerks, Handlers
    <3>5. Handlers' BY <3>1 DEF TypeOK, Handlers
    <3>6. CacheBounded' BY <3>1 DEF TypeOK, CacheBounded
    <3> QED BY <3>2, <3>3, <3>4, <3>5, <3>6
  <2>2. CASE pc[c] = "done"
    <3>1. /\ call[c] = "back" /\ call' = [call EXCEPT ![c] = "none"]
          /\ value' = [value EXCEPT ![c] = None]
          /\ pc' = [pc EXCEPT ![c] = "idle"]
          /\ op' = [op EXCEPT ![c] = None] /\ id' = [id EXCEPT ![c] = 0]
          /\ reply' = [reply EXCEPT ![c] = None]
          /\ UNCHANGED <<kvPair, cache, nextID>>
      BY <1>3, <2>2 DEF Receive, server
    <3>2. TypeOK' BY <3>1, SMTT(30) DEF TypeOK
    <3>3. DistinctIDs' BY <3>1 DEF TypeOK, DistinctIDs
    <3>4. Clerks' BY <3>1 DEF TypeOK, Clerks
    <3>5. Handlers' BY <3>1 DEF TypeOK, Handlers
    <3>6. CacheBounded' BY <2>2, <3>1, SMTT(30) DEF TypeOK, CacheBounded, Handlers
    <3> QED BY <3>2, <3>3, <3>4, <3>5, <3>6
  <2> QED BY <1>3, <2>1, <2>2 DEF Receive
<1>4. ASSUME NEW c \in Client, Lose(c) PROVE KVInv'
  <2> USE <1>4 DEF Lose, server, clerk
  <2>1. TypeOK' BY DEF TypeOK
  <2>2. DistinctIDs' BY DEF DistinctIDs
  <2>3. Clerks' BY DEF TypeOK, Clerks
  <2>4. Handlers' BY DEF TypeOK, Handlers
  <2>5. CacheBounded' BY DEF CacheBounded
  <2> QED BY <2>1, <2>2, <2>3, <2>4, <2>5
<1>5. ASSUME NEW c \in Client, ModifyCache(c) PROVE KVInv'
  <2> USE <1>5 DEF ModifyCache, server, clerk
  <2>1. TypeOK' BY DEF TypeOK
  <2>2. DistinctIDs' BY DEF DistinctIDs
  <2>3. Clerks' BY DEF TypeOK, Clerks
  <2>4. Handlers' BY SMTT(30) DEF TypeOK, Handlers
  <2>5. CacheBounded' BY DEF CacheBounded
  <2> QED BY <2>1, <2>2, <2>3, <2>4, <2>5
<1>6. ASSUME NEW c \in Client, ModifyFunc(c) PROVE KVInv'
  <2> DEFINE k == op[c].key
             answer == Result(op[c], kvPair[k])
             new == NewValue(op[c], kvPair[k])
  <2>1. /\ pc[c] = "op" /\ op[c] \in Op /\ id[c] \in 1..nextID
        /\ id[c] \notin DOMAIN cache
    BY <1>6 DEF ModifyFunc, Clerks, Handlers
  <2>2. k \in Key /\ kvPair[k] \in Seq(Piece) BY <2>1 DEF Op, TypeOK
  <2>3. answer \in Seq(Piece) /\ new \in Seq(Piece)
    BY <2>1, <2>2, ValuesOfOps
  <2>4. /\ kvPair' = [kvPair EXCEPT ![k] = new]
        /\ cache' = [i \in DOMAIN cache \cup {id[c]} |->
                       IF i = id[c] THEN answer ELSE cache[i]]
        /\ call' = [call EXCEPT ![c] = "back"]
        /\ value' = [value EXCEPT ![c] = answer]
        /\ pc' = pc /\ op' = op /\ id' = id /\ reply' = reply /\ nextID' = nextID
    BY <1>6 DEF ModifyFunc, clerk
  <2> HIDE DEF k, answer, new
  <2>5. TypeOK' BY <2>1, <2>2, <2>3, <2>4 DEF TypeOK
  <2>6. DistinctIDs' BY <2>4 DEF DistinctIDs
  <2>7. Clerks' BY <2>1, <2>4 DEF TypeOK, Clerks
  <2>8. Handlers' BY <2>1, <2>4 DEF TypeOK, DistinctIDs, Clerks, Handlers
  <2>9. CacheBounded' BY <2>1, <2>4 DEF CacheBounded
  <2> QED BY <2>5, <2>6, <2>7, <2>8, <2>9
<1>7. ASSUME NEW c \in Client, Done(c) PROVE KVInv'
  <2> USE <1>7 DEF Done, clerk
  <2>1. TypeOK' BY DEF TypeOK
  <2>2. DistinctIDs' BY DEF DistinctIDs
  <2>3. Clerks' BY DEF TypeOK, Clerks
  <2>4. Handlers' BY DEF TypeOK, DistinctIDs, Clerks, Handlers
  <2>5. CacheBounded' BY DEF CacheBounded
  <2> QED BY <2>1, <2>2, <2>3, <2>4, <2>5
<1>8. CASE UNCHANGED vars
  BY <1>8 DEF vars, TypeOK, DistinctIDs, Clerks, Handlers, CacheBounded
<1> QED BY <1>1, <1>2, <1>3, <1>4, <1>5, <1>6, <1>7, <1>8 DEF Next

\* The inductive invariant holds throughout, for any number of clerks,
\* operations, lost requests and lost answers.
THEOREM KVInvariant == Spec => []KVInv
BY KVInvInit, KVInvStep, PTL DEF Spec

\* The server and its clerks stay in their types, and the cache of the server
\* holds nothing but answers that a clerk may still ask for (Done).
THEOREM CacheIsBounded == Spec => [](TypeOK /\ CacheBounded)
<1>1. KVInv => TypeOK /\ CacheBounded BY DEF KVInv
<1> QED BY <1>1, KVInvariant, PTL

----------------------------------------------------------------------------
(* The refinement.                                                         *)

\* The server starts as an empty store with no operation pending.
LEMMA StoreInit == Init => Store!Init
BY DEF Init, Store!Init, EffectOf

\* A step that leaves the map, the operations and what has become of them
\* alone is none of the store's.
LEMMA StoreStutter ==
  ASSUME kvPair' = kvPair, op' = op, \A c \in Client : EffectOf(c)' = EffectOf(c)
  PROVE  UNCHANGED Store!vars
BY DEF Store!vars

\* Every step of the server, of a clerk or of the network is a step of the
\* store or none: only the function under kv.mu is the effect of an operation,
\* and it runs once for each.
LEMMA StoreStep == KVInv /\ [Next]_vars => [Store!Next]_(Store!vars)
<1> SUFFICES ASSUME KVInv, [Next]_vars PROVE Store!Next \/ UNCHANGED Store!vars
  OBVIOUS
<1> USE DEF KVInv
<1> DEFINE result == [c \in Client |-> EffectOf(c)]
<1>1. ASSUME NEW c \in Client, NEW o \in Op, Begin(c, o) PROVE Store!Next
  <2>1. op[c] = None BY <1>1 DEF Begin, Clerks
  <2>2. \A d \in Client : EffectOf(d)' = EffectOf(d)
    BY <1>1, SMTT(30) DEF Begin, server, EffectOf, TypeOK
  <2>3. result' = result BY <2>2
  <2>4. Store!Invoke(c, o) BY <1>1, <2>1, <2>3 DEF Begin, server, Store!Invoke
  <2>5. o \in Store!Op BY DEF Op, Store!Op
  <2> QED BY <2>4, <2>5 DEF Store!Next
<1>2. ASSUME NEW c \in Client, Send(c) PROVE UNCHANGED Store!vars
  <2>1. \A d \in Client : EffectOf(d)' = EffectOf(d)
    BY <1>2 DEF Send, server, clerk, EffectOf
  <2> QED BY <1>2, <2>1, StoreStutter DEF Send, server, clerk
<1>3. ASSUME NEW c \in Client, Receive(c)
      PROVE  Store!Next \/ UNCHANGED Store!vars
  <2>1. CASE pc[c] = "op"
    <3>1. /\ call[c] = "back" /\ op' = op /\ id' = id /\ kvPair' = kvPair
          /\ cache' = cache /\ pc' = [pc EXCEPT ![c] = "done"]
          /\ reply' = [reply EXCEPT ![c] = value[c]]
      BY <1>3, <2>1 DEF Receive, server
    <3>2. \A d \in Client : EffectOf(d)' = EffectOf(d)
      BY <2>1, <3>1 DEF EffectOf, TypeOK, Handlers
    <3> QED BY <3>1, <3>2, StoreStutter
  <2>2. CASE pc[c] = "done"
    <3>1. /\ op' = [op EXCEPT ![c] = None] /\ kvPair' = kvPair
          /\ cache' = cache /\ pc' = [pc EXCEPT ![c] = "idle"]
          /\ reply' = [reply EXCEPT ![c] = None]
          /\ id' = [id EXCEPT ![c] = 0]
      BY <1>3, <2>2 DEF Receive, server
    <3>2. result' = [result EXCEPT ![c] = None]
      BY <3>1 DEF EffectOf, TypeOK
    <3>3. result[c] # None
      BY <2>2, NoneAssumption DEF EffectOf, Clerks
    <3>4. Store!Return(c) BY <3>1, <3>2, <3>3 DEF Store!Return
    <3> QED BY <3>4 DEF Store!Next
  <2> QED BY <1>3, <2>1, <2>2 DEF Receive
<1>4. ASSUME NEW c \in Client, Lose(c) PROVE UNCHANGED Store!vars
  <2>1. \A d \in Client : EffectOf(d)' = EffectOf(d)
    BY <1>4 DEF Lose, server, clerk, EffectOf
  <2> QED BY <1>4, <2>1, StoreStutter DEF Lose, server, clerk
<1>5. ASSUME NEW c \in Client, ModifyCache(c) PROVE UNCHANGED Store!vars
  <2>1. \A d \in Client : EffectOf(d)' = EffectOf(d)
    BY <1>5 DEF ModifyCache, server, clerk, EffectOf
  <2> QED BY <1>5, <2>1, StoreStutter DEF ModifyCache, server, clerk
<1>6. ASSUME NEW c \in Client, ModifyFunc(c) PROVE Store!Next
  <2> DEFINE answer == Result(op[c], kvPair[op[c].key])
  <2>1. /\ pc[c] = "op" /\ op[c] \in Op /\ id[c] \notin DOMAIN cache
    BY <1>6 DEF ModifyFunc, Clerks, Handlers
  <2>2. /\ kvPair' = [kvPair EXCEPT ![op[c].key] = NewValue(op[c], @)]
        /\ cache' = [i \in DOMAIN cache \cup {id[c]} |->
                       IF i = id[c] THEN answer ELSE cache[i]]
        /\ pc' = pc /\ op' = op /\ id' = id /\ reply' = reply
    BY <1>6 DEF ModifyFunc, clerk
  <2>3. op[c] # None BY <2>1, NoneAssumption
  <2>4. result[c] = None BY <2>1 DEF EffectOf
  <2>5. result' = [result EXCEPT ![c] = answer]
    <3> HIDE DEF answer
    <3>1. \A d \in Client : d # c => EffectOf(d)' = EffectOf(d)
      BY <2>1, <2>2 DEF EffectOf, DistinctIDs
    <3>2. EffectOf(c)' = answer BY <2>1, <2>2 DEF EffectOf
    <3> QED BY <3>1, <3>2
  <2>6. answer = Store!Answer(op[c], kvPair[op[c].key])
    BY DEF Result, Store!Answer
  <2>7. NewValue(op[c], kvPair[op[c].key])
          = Store!NewValue(op[c], kvPair[op[c].key])
    BY DEF NewValue, Store!NewValue
  <2>8. kvPair' = [kvPair EXCEPT ![op[c].key]
                     = Store!NewValue(op[c], kvPair[op[c].key])]
    BY <2>2, <2>7
  <2> HIDE DEF answer
  <2>9. Store!Effect(c)
    BY <2>2, <2>3, <2>4, <2>5, <2>6, <2>8 DEF Store!Effect
  <2> QED BY <2>9 DEF Store!Next
<1>7. ASSUME NEW c \in Client, Done(c) PROVE UNCHANGED Store!vars
  <2>1. \A d \in Client : EffectOf(d)' = EffectOf(d)
    BY <1>7 DEF Done, clerk, EffectOf, DistinctIDs
  <2> QED BY <1>7, <2>1, StoreStutter DEF Done, clerk
<1>8. CASE UNCHANGED vars
  <2>1. \A d \in Client : EffectOf(d)' = EffectOf(d) BY <1>8 DEF vars, EffectOf
  <2> QED BY <1>8, <2>1, StoreStutter DEF vars
<1> QED BY <1>1, <1>2, <1>3, <1>4, <1>5, <1>6, <1>7, <1>8 DEF Next

\* The server implements the atomic store: however often the calls of a clerk
\* and their answers are lost, each Get, Put and Append takes effect once
\* between its call and its return, and returns what it read then.
THEOREM ServerIsLinearizable == Spec => Linearizable
BY KVInvariant, StoreInit, StoreStep, PTL DEF Spec, Linearizable, Store!Spec
=============================================================================
