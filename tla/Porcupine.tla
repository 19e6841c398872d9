----------------------------- MODULE Porcupine -----------------------------
(***************************************************************************)
(* The linearizability checker of src/porcupine that the tests of kvsrv,   *)
(* kvraft and shardkv judge a history with, and the key/value model of     *)
(* src/models.  checkParallel starts one goroutine for every key; each     *)
(* searches for a linearization, depth first, in a linked list of calls    *)
(* and returns that it changes and restores.  A timeout or a verdict kills *)
(* the searches that still run.                                            *)
(***************************************************************************)
EXTENDS Integers, FiniteSets, SequencesExt, Bitwise

CONSTANTS
  Histories,      \* the histories that are checked
  Word            \* bits in a word of a bitset: 64 in the code

VARIABLES
  history,        \* the operations
  verbose,        \* computeInfo
  entries,        \* the entries of each partition
  search,         \* the goroutines of checkParallel
  results, kill,
  main,           \* checkParallel
  data            \* what Visualize shows of each partition

input == <<history, verbose, entries>>
vars == <<input, search, results, kill, main, data>>

----------------------------------------------------------------------------
(* bitset.go.  The set of operations that are linearized.                  *)

\* Mutant: the bits that fill no word have no room.
NewBitset_Floor(bits) == [c \in 1..(bits \div Word) |-> 0]

NewBitset(bits) ==
  [c \in 1..(bits \div Word + (IF bits % Word # 0 THEN 1 ELSE 0)) |-> 0]

Major(pos) == pos \div Word + 1
Bit(pos) == 2 ^ (pos % Word)

SetBit(b, pos) == [b EXCEPT ![Major(pos)] = @ | Bit(pos)]

GetBit(b, pos) == (b[Major(pos)] \div Bit(pos)) % 2 = 1

\* Mutant: nothing is cleared.
ClearBit_Not(b, pos) == b

ClearBit(b, pos) ==
  IF GetBit(b, pos) THEN [b EXCEPT ![Major(pos)] = @ - Bit(pos)] ELSE b

Popcnt(b) == Cardinality({pos \in 0..(Len(b) * Word - 1) : GetBit(b, pos)})

Hash(b) == FoldLeft(LAMBDA h, v : h ^^ v, Popcnt(b), b)

----------------------------------------------------------------------------
(* models/kv.go.  A value is the sequence of the strings it was made of.   *)

KvInit == <<>>

\* The third branch of an append is the one that returns the old value.
KvStep(st, op) ==
  CASE op.kind = "get" -> [ok |-> op.out = st, state |-> st]
    [] op.kind = "put" -> [ok |-> TRUE, state |-> op.val]
    [] op.kind = "append" -> [ok |-> TRUE, state |-> st \o op.val]
    [] OTHER -> [ok |-> op.out = st, state |-> st \o op.val]

\* The histories of the keys, in the order of the keys.
KvPartition(h) ==
  LET keys == SetToSortSeq({h[i].key : i \in DOMAIN h}, <)
  IN  [p \in DOMAIN keys |-> SelectSeq(h, LAMBDA op : op.key = keys[p])]

----------------------------------------------------------------------------
(* Entries.                                                                *)

Less(a, b) ==
  IF a.time # b.time THEN a.time < b.time ELSE a.kind = "call" /\ b.kind = "return"

\* What sort.Sort can make of the entries, since it is not stable: any order
\* in which no entry is less than one before it.
Sorts(s) ==
  LET Fits(t, i, e) == /\ \A a \in 1..(i - 1) : ~Less(e, t[a])
                       /\ \A b \in i..Len(t) : ~Less(t[b], e)
      sorted[n \in 0..Len(s)] ==
        IF n = 0 THEN {<<>>}
        ELSE UNION {{InsertAt(t, i, s[n]) : i \in {j \in 1..n : Fits(t, j, s[n])}}
                      : t \in sorted[n - 1]}
  IN  sorted[Len(s)]

MakeEntries(h) ==
  Sorts([i \in 1..(2 * Len(h)) |->
    LET id == (i - 1) \div 2
        op == h[id + 1]
    IN  IF i % 2 = 1 THEN [kind |-> "call", op |-> op, id |-> id, time |-> op.call]
                     ELSE [kind |-> "return", op |-> op, id |-> id, time |-> op.ret]])

\* Events carry any ids: they are numbered in the order they first appear in.
Renumber(ev) ==
  LET First(i) == CHOOSE j \in DOMAIN ev :
                    ev[j].id = ev[i].id /\ \A l \in 1..(j - 1) : ev[l].id # ev[i].id
  IN  [i \in DOMAIN ev |->
        [ev[i] EXCEPT !.id = Cardinality({ev[l].id : l \in 1..(First(i) - 1)})]]

ConvertEntries(ev) ==
  [i \in DOMAIN ev |-> [kind |-> ev[i].kind, op |-> ev[i].op, id |-> ev[i].id, time |-> i]]

----------------------------------------------------------------------------
(* The linked list.  Entry i of the history is node i, headEntry node 0.   *)

Head0 == 0
Nil == -1

MakeLinkedEntries(es) ==
  [next |-> [i \in 0..Len(es) |-> IF i < Len(es) THEN i + 1 ELSE Nil],
   prev |-> [i \in 0..Len(es) |-> i - 1]]

\* The return of a call; a return has none.
Match(es, i) ==
  IF es[i].kind = "return" THEN Nil
  ELSE CHOOSE j \in DOMAIN es : es[j].kind = "return" /\ es[j].id = es[i].id

Lift(list, i, m) ==
  LET n1 == [list.next EXCEPT ![list.prev[i]] = list.next[i]]
      p1 == [list.prev EXCEPT ![list.next[i]] = list.prev[i]]
  IN  [next |-> [n1 EXCEPT ![p1[m]] = n1[m]],
       prev |-> IF n1[m] # Nil THEN [p1 EXCEPT ![n1[m]] = p1[m]] ELSE p1]

Unlift(list, i, m) ==
  LET n1 == [list.next EXCEPT ![list.prev[m]] = m]
      p1 == IF n1[m] # Nil THEN [list.prev EXCEPT ![n1[m]] = m] ELSE list.prev
  IN  [next |-> [n1 EXCEPT ![p1[i]] = i],
       prev |-> [p1 EXCEPT ![n1[i]] = i]]

----------------------------------------------------------------------------
(* checkSingle.                                                            *)

NOps(es) == Len(es) \div 2
Ids(es) == 0..(NOps(es) - 1)

\* Before the loop.  A sequence of longest that is nil is empty.
NewSearch(es) ==
  [pc |-> "loop", list |-> MakeLinkedEntries(es),
   entry |-> IF es = <<>> THEN Nil ELSE 1,
   linearized |-> NewBitset(NOps(es)), cache |-> {}, calls |-> <<>>, state |-> KvInit,
   longest |-> [id \in Ids(es) |-> <<>>], ok |-> FALSE]

\* Mutant: entries are told apart by their hash only.
CacheContains_HashOnly(cache, bits, st) ==
  \E c \in cache : Hash(c.linearized) = Hash(bits) /\ c.state = st

CacheContains(cache, bits, st) ==
  \E c \in cache : /\ Hash(c.linearized) = Hash(bits)
                   /\ c.linearized = bits /\ c.state = st

CallIds(p) == [c \in DOMAIN search[p].calls |-> entries[p][search[p].calls[c].entry].id]

Looping(p) ==
  /\ p \in DOMAIN search /\ search[p].pc = "loop"
  /\ search[p].list.next[Head0] # Nil
  /\ ~kill

\* The next operation is a call.
TryCall(p) ==
  LET s == search[p]
      e == entries[p][s.entry]
      step == KvStep(s.state, e.op)
      new == SetBit(s.linearized, e.id)
      list == Lift(s.list, s.entry, Match(entries[p], s.entry))
  IN  /\ Looping(p) /\ e.kind = "call"
      /\ search' = [search EXCEPT ![p] =
           IF step.ok /\ ~CacheContains(s.cache, new, step.state)
           THEN [s EXCEPT !.cache = @ \cup {[linearized |-> new, state |-> step.state]},
                          !.calls = Append(@, [entry |-> s.entry, state |-> s.state]),
                          !.state = step.state, !.linearized = new,
                          !.list = list, !.entry = list.next[Head0]]
           ELSE [s EXCEPT !.entry = s.list.next[s.entry]]]
      /\ UNCHANGED <<input, results, kill, main, data>>

\* Mutant: a sequence replaces any other one.
Longest_Latest(p) ==
  [id \in DOMAIN search[p].longest |->
     IF verbose /\ id \in ToSet(CallIds(p)) THEN CallIds(p) ELSE search[p].longest[id]]

Longest(p) ==
  [id \in DOMAIN search[p].longest |->
     IF /\ verbose /\ id \in ToSet(CallIds(p))
        /\ Len(CallIds(p)) > Len(search[p].longest[id])
     THEN CallIds(p) ELSE search[p].longest[id]]

\* A return was reached: the last call is taken back, or there is none.
Backtrack(p) ==
  LET s == search[p]
      top == Last(s.calls)
      list == Unlift(s.list, top.entry, Match(entries[p], top.entry))
  IN  /\ Looping(p) /\ entries[p][s.entry].kind = "return"
      /\ search' = [search EXCEPT ![p] =
           IF s.calls = <<>> THEN [s EXCEPT !.pc = "return"]
           ELSE [s EXCEPT !.longest = Longest(p), !.state = top.state,
                          !.linearized = ClearBit(@, entries[p][top.entry].id),
                          !.calls = Front(@), !.list = list,
                          !.entry = list.next[top.entry]]]
      /\ UNCHANGED <<input, results, kill, main, data>>

\* The search is complete, or it was killed.
EndSearch(p) ==
  /\ p \in DOMAIN search /\ search[p].pc = "loop"
  /\ \/ /\ search[p].list.next[Head0] = Nil
        /\ search' = [search EXCEPT ![p].pc = "return", ![p].ok = TRUE,
                        ![p].longest = [id \in DOMAIN @ |-> CallIds(p)]]
     \/ /\ search[p].list.next[Head0] # Nil /\ kill
        /\ search' = [search EXCEPT ![p].pc = "return"]
  /\ UNCHANGED <<input, results, kill, main, data>>

\* Mutant: results is not buffered.
Report_Unbuffered(p) ==
  /\ p \in DOMAIN search /\ search[p].pc = "return"
  /\ main.pc \in {"select", "drain"} /\ results = <<>>
  /\ results' = Append(results, search[p].ok)
  /\ search' = [search EXCEPT ![p].pc = "sent"]
  /\ UNCHANGED <<input, kill, main, data>>

\* longest[i] = l; results <- ok
Report(p) ==
  /\ p \in DOMAIN search /\ search[p].pc = "return"
  /\ Len(results) < Len(entries)
  /\ results' = Append(results, search[p].ok)
  /\ search' = [search EXCEPT ![p].pc = "sent"]
  /\ UNCHANGED <<input, kill, main, data>>

----------------------------------------------------------------------------
(* checkOperations, checkEvents and checkParallel.                         *)

\* One entry list for every partition.
EntriesOf(sets) ==
  LET chosen[n \in 0..Len(sets)] ==
        IF n = 0 THEN {<<>>}
        ELSE {Append(t, e) : t \in chosen[n - 1], e \in sets[n]}
  IN  chosen[Len(sets)]

CheckOperations(h) ==
  LET parts == KvPartition(h)
  IN  EntriesOf([p \in DOMAIN parts |-> MakeEntries(parts[p])])

\* KvModel does not partition events.
CheckEvents(ev) == <<ConvertEntries(Renumber(ev))>>

Verdict(ok, timedOut) ==
  IF ~ok THEN "Illegal" ELSE IF timedOut THEN "Unknown" ELSE "Ok"

\* The loop is left.
Leave(m) ==
  IF verbose THEN [m EXCEPT !.pc = "drain"]
  ELSE [m EXCEPT !.pc = "done", !.result = Verdict(m.ok, m.timedOut)]

Receive ==
  LET ok == main.ok /\ Head(results)
      m == [main EXCEPT !.ok = ok, !.count = @ + 1]
      stop == ~ok /\ ~verbose
  IN  /\ main.pc = "select" /\ results # <<>>
      /\ results' = Tail(results)
      /\ main' = IF stop \/ m.count >= Len(entries) THEN Leave(m) ELSE m
      /\ kill' = (kill \/ stop)
      /\ UNCHANGED <<input, search, data>>

\* timeoutChan, which a call without a timeout does not have.
TimedOut ==
  /\ main.pc = "select"
  /\ kill' = TRUE
  /\ main' = Leave([main EXCEPT !.timedOut = TRUE])
  /\ UNCHANGED <<input, search, results, data>>

\* "make sure we've waited for all goroutines to finish"
Drain ==
  /\ main.pc = "drain" /\ main.count < Len(entries) /\ results # <<>>
  /\ results' = Tail(results)
  /\ main' = [main EXCEPT !.count = @ + 1]
  /\ UNCHANGED <<input, search, kill, data>>

\* The partial linearizations, a set of sequences for each partition.
Partials(p) ==
  {search[p].longest[id] : id \in DOMAIN search[p].longest} \ {<<>>}

\* Mutant: nobody waits.
Inform_AtOnce ==
  /\ main.pc = "drain"
  /\ main' = [main EXCEPT !.pc = "done", !.result = Verdict(main.ok, main.timedOut),
                          !.info = [p \in DOMAIN entries |-> Partials(p)]]
  /\ UNCHANGED <<input, search, results, kill, data>>

Inform ==
  /\ main.pc = "drain" /\ main.count >= Len(entries)
  /\ main' = [main EXCEPT !.pc = "done", !.result = Verdict(main.ok, main.timedOut),
                          !.info = [p \in DOMAIN entries |-> Partials(p)]]
  /\ UNCHANGED <<input, search, results, kill, data>>

----------------------------------------------------------------------------
(* visualization.go.                                                       *)

OpOf(p, id) == entries[p][CHOOSE i \in DOMAIN entries[p] : entries[p][i].id = id].op

\* Whether model.Step accepts the operations in this order.
Replay(p, seq) ==
  FoldLeft(LAMBDA r, id : LET step == KvStep(r.state, OpOf(p, id))
                          IN  [ok |-> r.ok /\ step.ok, state |-> step.state],
           [ok |-> TRUE, state |-> KvInit], seq)

\* The sequence that is shown for an operation: the first of the longest that
\* have it.  sort.Slice may order sequences of one length in any way.
Largest(partials) ==
  LET Shown(s, id) == CHOOSE i \in DOMAIN s :
        /\ id \in ToSet(s[i])
        /\ \A j \in DOMAIN s : id \in ToSet(s[j]) =>
             Len(s[j]) < Len(s[i]) \/ (Len(s[j]) = Len(s[i]) /\ j >= i)
      Sorted == {s \in SetToSeqs(partials) :
                   \A i, j \in DOMAIN s : i < j => Len(s[i]) >= Len(s[j])}
  IN  {[id \in UNION {ToSet(q) : q \in partials} |-> s[Shown(s, id)]] : s \in Sorted}

\* computeVisualizationData, a partition at a time; it panics at a sequence
\* that is no linearization.
Visualize ==
  LET p == Len(data) + 1
  IN  /\ main.pc = "done" /\ verbose /\ p <= Len(entries)
      /\ IF \A q \in main.info[p] : Replay(p, q).ok
         THEN /\ \E l \in Largest(main.info[p]) : data' = Append(data, l)
              /\ UNCHANGED main
         ELSE main' = [main EXCEPT !.pc = "panic"] /\ UNCHANGED data
      /\ UNCHANGED <<input, search, results, kill>>

----------------------------------------------------------------------------
\* The events of a history, under ids of the caller's, and the history with
\* their places for times.
Placed(es) ==
  LET Place(kind, id) == CHOOSE i \in DOMAIN es : es[i].kind = kind /\ es[i].id = id
  IN  [i \in DOMAIN es |->
        [es[i] EXCEPT !.op.call = Place("call", es[i].id), !.op.ret = Place("return", es[i].id)]]

EventLog(es) == [i \in DOMAIN es |-> [kind |-> es[i].kind, op |-> es[i].op, id |-> 9 - es[i].id]]

\* checkOperations or checkEvents was asked, and the goroutines have started.
Init ==
  /\ \/ history \in Histories /\ entries \in CheckOperations(history)
     \/ \E h \in Histories :
          /\ Cardinality({h[i].key : i \in DOMAIN h}) <= 1
          /\ \E es \in MakeEntries(h) :
               /\ history = [i \in DOMAIN h |->
                    Placed(es)[CHOOSE j \in DOMAIN es : es[j].id = i - 1].op]
               /\ entries = CheckEvents(EventLog(Placed(es)))
  /\ verbose \in BOOLEAN
  /\ search = [p \in DOMAIN entries |-> NewSearch(entries[p])]
  /\ results = <<>> /\ data = <<>> /\ kill = FALSE
  /\ main = [pc |-> "select", count |-> 0, ok |-> TRUE, timedOut |-> FALSE,
             result |-> "none", info |-> <<>>]

SearchStep(p) == TryCall(p) \/ Backtrack(p) \/ EndSearch(p) \/ Report(p)

MainStep == Receive \/ Drain \/ Inform \/ Visualize

Next ==
  \/ Receive
  \/ TimedOut
  \/ Drain
  \/ Inform
  \/ Visualize
  \/ \E p \in DOMAIN search :
       \/ TryCall(p)
       \/ Backtrack(p)
       \/ EndSearch(p)
       \/ Report(p)

\* The goroutines run on.  No call need have a timeout.
Spec ==
  /\ Init /\ [][Next]_vars
  /\ WF_vars(MainStep)
  /\ \A p \in 1..2 : WF_vars(SearchStep(p))

----------------------------------------------------------------------------
(* Properties.                                                             *)

\* What a search holds stays in its type: entry is a node or nil, every bit
\* has its word, and results never has more than its capacity.
TypeOK ==
  /\ Len(results) <= Len(entries)
  /\ main.count + Len(results) <= Len(entries)
  /\ \A p \in DOMAIN search :
       /\ search[p].pc = "loop" => search[p].entry \in 1..Len(entries[p])
                                     \/ search[p].list.next[Head0] = Nil
       /\ Len(search[p].linearized) * Word >= NOps(entries[p])
       /\ \A c \in DOMAIN search[p].linearized : search[p].linearized[c] \in 0..(2^Word - 1)

\* What linearizable means: the operations of a key, one after another, in an
\* order that keeps one before another that was called after it returned.
LinearPrefix(ops, seq) ==
  /\ \A i, j \in DOMAIN seq : seq[i] = seq[j] => i = j
  /\ \A i \in DOMAIN seq, a \in DOMAIN ops :
       ops[a].ret < ops[seq[i]].call => \E j \in 1..(i - 1) : seq[j] = a
  /\ LET run == FoldLeft(LAMBDA r, a : LET step == KvStep(r.store[ops[a].key], ops[a])
                                      IN  [ok |-> r.ok /\ step.ok,
                                           store |-> [r.store EXCEPT ![ops[a].key] = step.state]],
                         [ok |-> TRUE, store |-> [k \in {ops[a].key : a \in DOMAIN ops} |-> KvInit]],
                         seq)
     IN  run.ok

Linearizable == \E seq \in SetToSeqs(DOMAIN history) : LinearPrefix(history, seq)

\* The verdict is right for the whole history, though keys are checked apart,
\* searches are killed and their results arrive in any order: Ok for a
\* linearizable history, Illegal for any other, Unknown after a timeout only.
VerdictRight ==
  /\ main.result = "Ok" => Linearizable
  /\ main.result = "Illegal" => ~Linearizable
  /\ main.result = "Unknown" => main.timedOut

OpsOf(p) == [id \in Ids(entries[p]) |-> OpOf(p, id)]

\* Backtracking restores everything: whatever was tried, the list, the bitset
\* and the state are those of the calls that are linearized now, and these are
\* the beginning of a linearization.
SearchConsistent ==
  \A p \in DOMAIN search :
    LET s == search[p]
        ids == CallIds(p)
        nodes == {0} \cup {i \in DOMAIN entries[p] : entries[p][i].id \notin ToSet(ids)}
        After(i) == {j \in nodes : j > i}
    IN  /\ LinearPrefix(OpsOf(p), ids)
        /\ s.state = Replay(p, ids).state
        /\ \A id \in Ids(entries[p]) : GetBit(s.linearized, id) <=> id \in ToSet(ids)
        /\ \A i \in nodes :
             LET n == s.list.next[i]
             IN  /\ n # Nil => n \in After(i) /\ s.list.prev[n] = i
                 /\ \A j \in After(i) : n # Nil /\ n <= j

\* Every partial linearization is one, so Visualize never panics ("valid
\* partial linearization returned non-ok result from model step"), and the
\* goroutines have all reported when they are read.
PartialsValid ==
  /\ main.pc # "panic"
  /\ main.info # <<>> => \A p \in DOMAIN entries : search[p].pc = "sent"
  /\ \A p \in DOMAIN main.info : \A q \in main.info[p] : LinearPrefix(OpsOf(p), q)

\* "longest linearizable prefix that includes the given entry" (checkSingle),
\* though the cache cuts the search short: when no search was killed, what is
\* shown for an operation is as long as any prefix that has it, and an
\* operation is left out only if no prefix has it.
LongestShown ==
  \A p \in DOMAIN data :
    LET ops == OpsOf(p)
        With(id) == {q \in UNION {SetToSeqs(S) : S \in SUBSET DOMAIN ops} :
                       id \in ToSet(q) /\ LinearPrefix(ops, q)}
    IN  kill \/ \A id \in DOMAIN ops :
          IF id \in DOMAIN data[p]
          THEN data[p][id] \in With(id) /\ \A q \in With(id) : Len(q) <= Len(data[p][id])
          ELSE With(id) = {}

\* The check ends without a timeout if there is a partition, and leaves no
\* goroutine behind.
CheckEnds ==
  entries # <<>> =>
    <>(main.result # "none" /\ \A p \in DOMAIN entries : search[p].pc = "sent")
============================================================================
