---------------------------- MODULE MCPorcupine ----------------------------
(* Histories of up to three operations, on two keys.                       *)
EXTENDS Porcupine

Op(key, kind, val, out, t) ==
  [key |-> key, kind |-> kind, val |-> val, out |-> out, call |-> t[1], ret |-> t[2]]

OpsAt(t) ==
  {Op(1, "get", <<>>, <<1>>, t), Op(1, "put", <<1>>, <<>>, t),
   Op(1, "append", <<1>>, <<>>, t), Op(1, "swap", <<1>>, <<>>, t)}

OtherKeyAt(t) == {Op(2, "get", <<>>, <<>>, t), Op(2, "get", <<>>, <<1>>, t)}

\* Two operations one after the other, overlapping, or meeting at one time.
Times == {<<1, 2>>, <<1, 3>>, <<2, 2>>, <<2, 3>>}

Two ==
  {h \in UNION {[1..n -> UNION {OpsAt(t) \cup OtherKeyAt(t) : t \in Times}] : n \in 0..2} :
     \A i, j \in DOMAIN h : i < j => h[i].ret <= h[j].ret}

\* Three operations of one key: all overlap, the first or the last is apart,
\* one overlaps two that do not.
Shapes == {<< <<1, 4>>, <<2, 5>>, <<3, 6>> >>, << <<1, 2>>, <<3, 5>>, <<4, 6>> >>,
           << <<1, 3>>, <<2, 4>>, <<5, 6>> >>, << <<2, 3>>, <<4, 5>>, <<1, 6>> >>}

Three ==
  UNION {{<<a, b, c>> : a \in OpsAt(s[1]), b \in OpsAt(s[2]), c \in OpsAt(s[3])} : s \in Shapes}

MCHistories == Two \cup Three
============================================================================
