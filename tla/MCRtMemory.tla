----------------------------- MODULE MCRtMemory -----------------------------
(* RtMemory with three addresses: 1 and 2 share an entry of the positive   *)
(* cache, 1 and 3 one of the negative cache.                               *)
EXTENDS RtMemory, TLC

SharePos == [a \in Addr |-> IF a <= 2 THEN 1 ELSE 2]
ShareNeg == [a \in Addr |-> IF a = 2 THEN 2 ELSE 1]

Threads == Permutations(Thread)

Program(acting, counted, raw, careless, classes) ==
  [acting |-> acting, counted |-> counted, raw |-> raw, careless |-> careless,
   classes |-> classes]

(* Counted references shared by all threads; references passed on without  *)
(* counts; and any one thread that also uses raw memory and lets go of     *)
(* pooled blocks it no longer owns.                                        *)
AllPrograms ==
  {Program(Thread, TRUE, FALSE, FALSE, {1, Pools + 1}),
   Program(Thread, FALSE, FALSE, FALSE, 1..(Pools + 1))}
  \cup {Program({t}, TRUE, TRUE, TRUE, 1..Pools) : t \in Thread}
=============================================================================
