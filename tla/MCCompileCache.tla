--------------------------- MODULE MCCompileCache ---------------------------
(* CompileCache on scenes that switch on a few of the caches each, as the  *)
(* NYTRIX_*_CACHE variables do.                                            *)
EXTENDS CompileCache

P(id, entry, goal) == [id |-> id, entry |-> entry, goal |-> goal]
S(progs, caches, seq, killed, lost, full, preverify) ==
  [progs |-> progs, caches |-> caches, seq |-> seq, kills |-> killed, losses |-> lost,
   full |-> full, preverify |-> preverify, src |-> TRUE, libs |-> TRUE]

run1 == P(1, "top", "jit")
exe1 == P(1, "top", "aot")

MCScenes == {
  \* the source of the library and the JIT's bitcode, everything at once
  S(<<run1, run1>>, {"std", "jit"}, FALSE, 1, 1, TRUE, FALSE),
  S(<<run1, run1, run1>>, {"std"}, FALSE, 1, 1, TRUE, FALSE),
  \* executables, one compiler at a time and at once
  S(<<exe1, exe1, exe1>>, {"aot"}, TRUE, 2, 1, FALSE, FALSE),
  S(<<exe1, exe1, exe1>>, {"aot"}, FALSE, 0, 0, FALSE, FALSE),
  S(<<exe1, exe1>>, {"aot"}, FALSE, 1, 0, TRUE, FALSE),
  \* shared objects
  S(<<run1, run1>>, {"so", "jit"}, FALSE, 0, 0, FALSE, FALSE),
  S(<<run1, run1>>, {"so", "jit"}, TRUE, 1, 0, TRUE, FALSE),
  \* the library's bitcode, saved by a program with an entry of its own
  S(<<P(1, "own", "aot"), P(2, "top", "aot")>>, {"bc", "std"}, FALSE, 1, 0, TRUE, FALSE),
  S(<<P(1, "own", "jit"), P(2, "top", "jit"), P(2, "top", "aot")>>, {"bc"}, FALSE, 0, 1, FALSE, FALSE),
  S(<<P(1, "own", "jit"), P(1, "own", "jit")>>, {"bc", "jit"}, TRUE, 0, 1, FALSE, TRUE),
  S(<<P(1, "own", "jit"), P(2, "own", "jit")>>, {"bc"}, FALSE, 1, 0, FALSE, FALSE),
  \* a program without libraries; a library whose source is not found
  [S(<<run1, run1>>, {"so"}, FALSE, 0, 0, FALSE, FALSE) EXCEPT !.libs = FALSE],
  [S(<<run1, run1>>, {"std", "jit"}, FALSE, 1, 0, FALSE, FALSE) EXCEPT !.src = FALSE]}
=============================================================================
