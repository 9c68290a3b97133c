---------------------------- MODULE MCStdBundle ----------------------------
(* StdBundle on every graph of three modules in which a module uses at     *)
(* most one other and exports at most one, and on a few of up to seven.    *)
EXTENDS StdBundle

One(ms, m) == {<<>>} \cup {<<n>> : n \in ms \ {m}}
EdgeSets(ms) == {f \in [ms -> UNION {One(ms, m) : m \in ms}] : \A m \in ms : f[m] \in One(ms, m)}

G(before, uses, exports, readable, umbrella, seeds, entry, prebuilt) ==
  [before |-> before, uses |-> uses, exports |-> exports, readable |-> readable,
   umbrella |-> umbrella, seeds |-> seeds, entry |-> entry, prebuilt |-> prebuilt]

Nothing(ms) == [m \in ms |-> <<>>]

(* With a prebuilt library, module 2 is the program's own file; without,   *)
(* the uses may stand before the module line.                              *)
SmallGraphs ==
  {G(Nothing(1..3), u, e, r, {1, 2}, s, {2}, TRUE) :
     u \in EdgeSets(1..3), e \in EdgeSets(1..3), r \in {1..3, {1, 3}}, s \in {<<1>>, <<2, 1>>}}
  \cup
  {G(IF b THEN u ELSE Nothing(1..3), IF b THEN Nothing(1..3) ELSE u, e, r, {1, 2}, <<1>>, {}, FALSE) :
     b \in BOOLEAN, u \in EdgeSets(1..3), e \in EdgeSets(1..3), r \in {1..3, {1, 3}}}

(* Umbrella modules over several levels, whose modules are scanned when    *)
(* their exports are not to be followed and are used later; a cycle; an    *)
(* unreadable file; the program's own file under two spellings; a module   *)
(* that uses itself before its module line.  In the last one the depth of  *)
(* module 6 grows in the last pass, when its turn is over: what it exports *)
(* is not in the text.                                                     *)
LargeGraphs == {
  G(Nothing(1..5), << <<>>, <<>>, <<5>>, <<2>>, <<3>> >>, << <<2>>, <<3>>, <<4>>, <<>>, <<>> >>,
    1..5, {1, 2, 3}, <<1>>, {}, FALSE),
  G(Nothing(1..5), << <<4>>, <<>>, <<2>>, <<3>>, <<1>> >>, << <<2, 3>>, <<5>>, <<>>, <<>>, <<>> >>,
    1..5, {1, 2}, <<1>>, {4, 5}, FALSE),
  G(Nothing(1..5), << <<2, 3>>, <<4>>, <<4>>, <<5>>, <<2>> >>, Nothing(1..5),
    {1, 2, 4, 5}, {}, <<3, 1>>, {1}, FALSE),
  G(<< <<>>, <<>>, <<3, 2>>, <<>> >>, << <<>>, <<1>>, <<>>, <<>> >>, << <<2>>, <<3>>, <<4>>, <<>> >>,
    1..4, {1, 2}, <<1>>, {}, TRUE),
  G(Nothing(1..7), << <<>>, <<>>, <<5>>, <<6>>, <<3>>, <<>>, <<>> >>,
    << <<2>>, <<3, 6>>, <<4>>, <<>>, <<>>, <<7>>, <<>> >>, 1..7, {1, 2}, <<1>>, {}, FALSE)}

MCGraphs == SmallGraphs \cup LargeGraphs
=============================================================================
