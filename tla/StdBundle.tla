------------------------------ MODULE StdBundle ------------------------------
(***************************************************************************)
(* ny_build_std_source_ex (src/base/loader.c): which modules a program     *)
(* needs, found by following what modules use and export, and the one      *)
(* source text made of them by several threads.  An entry carries how far  *)
(* exports are to be followed from it: -1 is without end, 0 not at all.    *)
(* One that is met again with a larger depth is to be scanned again.  A    *)
(* module is a path as it is written: a file under two spellings is two.   *)
(***************************************************************************)
EXTENDS Integers, Sequences, FiniteSets, SequencesExt

CONSTANTS
  Graphs,      \* what the modules' files say (see MCStdBundle)
  MaxThreads   \* bound: what ny_std_load_threads returns (NYTRIX_STD_THREADS may be any number)

ASSUME ThreadsPositive == MaxThreads \in Nat \ {0}
ASSUME GraphsAssumption == \A g \in Graphs :
  LET mods == DOMAIN g.uses IN
  /\ g.before \in [mods -> Seq(mods)] /\ g.uses \in [mods -> Seq(mods)]
  /\ g.exports \in [mods -> Seq(mods)] /\ g.prebuilt \in BOOLEAN
  /\ g.seeds \in Seq(mods)

VARIABLES
  graph,      \* what a file uses before and after its module line, exports, readable, umbrella,
              \* seeds, the spellings of the program's own file (entry), NYTRIX_STD_PREBUILT is used
  list,       \* mod_list: module, depth, processed
  phase,      \* "closure", "final", "spawn", "join" or "done"
  at, len,    \* the loops' index, and the length the loop began with
  changed,
  threads,    \* what ny_std_load_threads returned
  worker,     \* thread -> "none", "take", "build" or "end"
  idx,        \* thread -> the index it took
  next,       \* bundle_ctx.next
  chunk,      \* the indices whose bundle_txt is set
  bundle      \* the modules of the text, in its order

bundleVars == <<graph, list, phase, at, len, changed, threads, worker, idx, next, chunk, bundle>>
scan == <<list, at, len, changed>>
build == <<worker, idx, next, chunk, bundle>>

Threads == 1..MaxThreads
Modules == DOMAIN graph.uses
Entry(m, d) == [mod |-> m, depth |-> d, processed |-> FALSE]

(* ny_export_depth_more_permissive *)
MorePermissive(d, cur) == IF d < 0 THEN cur >= 0 ELSE cur >= 0 /\ d > cur

(* Fault: the larger depth is kept, but the entry is not scanned again *)
AddOnce(l, m, d) ==
  IF \E k \in DOMAIN l : l[k].mod = m
  THEN [k \in DOMAIN l |->
          IF l[k].mod = m /\ MorePermissive(d, l[k].depth) THEN [l[k] EXCEPT !.depth = d] ELSE l[k]]
  ELSE Append(l, Entry(m, d))

(* mod_list_add_ex *)
Add(l, m, d) ==
  IF \E k \in DOMAIN l : l[k].mod = m
  THEN [k \in DOMAIN l |->
          IF l[k].mod = m /\ MorePermissive(d, l[k].depth) THEN Entry(m, d) ELSE l[k]]
  ELSE Append(l, Entry(m, d))

(* All of ms, from the first to the last *)
AddAll(l, ms, d) ==
  LET added[n \in 0..Len(ms)] == IF n = 0 THEN l ELSE Add(added[n - 1], ms[n], d)
  IN added[Len(ms)]

(* module_export_child_depth: 1 below a std module that has descendants *)
ChildDepth(e) ==
  IF e.depth > 0 THEN e.depth - 1 ELSE IF e.mod \in graph.umbrella THEN 1 ELSE -1

(* The exports of the module line of entry k, as far as its depth now says *)
Exported(l, k) ==
  IF l[k].depth = 0 THEN l ELSE AddAll(l, graph.exports[l[k].mod], ChildDepth(l[k]))

(* scan_dependencies: uses and exports in the order of the file *)
Scan(l, k) ==
  LET m == l[k].mod
      marked == [l EXCEPT ![k].processed = TRUE]
      first == AddAll(marked, graph.before[m], -1)
  IN
  IF l[k].processed THEN l
  ELSE IF m \notin graph.readable THEN marked
  ELSE AddAll(Exported(first, k), graph.uses[m], -1)

BundleInit ==
  /\ graph \in Graphs
  /\ threads \in Threads
  /\ list = AddAll(<<>>, graph.seeds, -1)
  /\ len = Len(list)
  /\ phase = "closure" /\ at = 1 /\ changed = FALSE
  /\ worker = [w \in Threads |-> "none"] /\ idx = [w \in Threads |-> 0]
  /\ next = 1 /\ chunk = {} /\ bundle = <<>>

(* The loop that runs until a pass adds no entry *)
Closure ==
  /\ phase = "closure"
  /\ \/ /\ at <= len
        /\ list' = Scan(list, at)
        /\ changed' = (changed \/ Len(list') > len)
        /\ at' = at + 1
        /\ UNCHANGED <<phase, len>>
     \/ /\ at > len /\ changed
        /\ at' = 1 /\ len' = Len(list) /\ changed' = FALSE
        /\ UNCHANGED <<phase, list>>
     \/ /\ at > len /\ ~changed
        /\ phase' = "final" /\ at' = 1
        /\ UNCHANGED <<list, len, changed>>
  /\ UNCHANGED <<graph, threads, build>>

(* One more pass, over the entries it adds itself too *)
Final ==
  /\ phase = "final"
  /\ \/ /\ at <= Len(list)
        /\ list' = Scan(list, at)
        /\ at' = at + 1
        /\ UNCHANGED phase
     \/ at > Len(list) /\ phase' = "spawn" /\ UNCHANGED <<list, at>>
  /\ UNCHANGED <<graph, len, changed, threads, build>>

-----------------------------------------------------------------------------
(* The chunks: one thread, or several that take indices from a counter *)

Skipped(k) == list[k].mod \in graph.entry
HasChunk(k) == ~Skipped(k) /\ list[k].mod \in graph.readable
AllChunks == {k \in DOMAIN list : HasChunk(k)}

(* The prebuilt library (0), and the chunks in the order of the list *)
Prefix == IF graph.prebuilt THEN <<0>> ELSE <<>>
Present(texts) == SelectSeq(texts, LAMBDA m : m # 0)
Join(c) == Prefix \o Present([k \in DOMAIN list |-> IF k \in c THEN list[k].mod ELSE 0])

BundleFinish(c) ==
  /\ phase' = "done"
  /\ chunk' = c
  /\ bundle' = Join(c)

Wanted == IF threads > Len(list) THEN Len(list) ELSE threads
Created == {w \in Threads : worker[w] # "none"}

Alone ==
  /\ phase = "spawn" /\ threads = 1
  /\ BundleFinish(AllChunks)
  /\ UNCHANGED <<graph, scan, threads, worker, idx, next>>

(* pthread_create; the first that fails ends the loop *)
Spawn ==
  /\ phase = "spawn" /\ threads > 1
  /\ LET n == Cardinality(Created) + 1 IN
     \/ /\ n <= Wanted
        /\ worker' = [worker EXCEPT ![n] = "take"]
        /\ UNCHANGED phase
     \/ phase' = "join" /\ UNCHANGED worker
  /\ UNCHANGED <<graph, scan, threads, idx, next, chunk, bundle>>

(* ny_std_source_worker: an index is taken under the lock *)
Take(w) ==
  /\ worker[w] = "take"
  /\ next' = next + 1
  /\ idx' = [idx EXCEPT ![w] = next]
  /\ worker' = [worker EXCEPT ![w] = IF next > Len(list) THEN "end" ELSE "build"]
  /\ UNCHANGED <<graph, scan, phase, threads, chunk, bundle>>

Build(w) ==
  /\ worker[w] = "build"
  /\ chunk' = IF HasChunk(idx[w]) THEN chunk \cup {idx[w]} ELSE chunk
  /\ worker' = [worker EXCEPT ![w] = "take"]
  /\ UNCHANGED <<graph, scan, phase, threads, idx, next, bundle>>

(* Fault: nothing is built when no thread could be started *)
JoinedNoFallback ==
  /\ phase = "join"
  /\ \A w \in Created : worker[w] = "end"
  /\ BundleFinish(chunk)
  /\ UNCHANGED <<graph, scan, threads, worker, idx, next>>

(* pthread_join of those that were started; without any, the main thread   *)
(* builds the chunks itself.                                               *)
Joined ==
  /\ phase = "join"
  /\ \A w \in Created : worker[w] = "end"
  /\ BundleFinish(IF Created = {} THEN AllChunks ELSE chunk)
  /\ UNCHANGED <<graph, scan, threads, worker, idx, next>>

BundleNext == Closure \/ Final \/ Alone \/ Spawn \/ Joined \/ \E w \in Threads : Take(w) \/ Build(w)

BundleSpec ==
  /\ BundleInit /\ [][BundleNext]_bundleVars
  /\ WF_bundleVars(Closure \/ Final \/ Alone \/ Spawn \/ Joined)
  /\ \A w \in Threads : WF_bundleVars(Take(w) \/ Build(w))

-----------------------------------------------------------------------------
(* Properties *)

Listed == {list[k].mod : k \in DOMAIN list}

(* When the search for modules is over, everything a listed module uses is *)
(* listed, and so is everything it exports where its exports are followed, *)
(* in whatever order and at whatever depth modules were met.  Exports are  *)
(* left out of an entry whose depth grew after the last pass had gone by.  *)
BundleClosed ==
  phase \notin {"closure", "final"} =>
    \A k \in DOMAIN list : list[k].mod \in graph.readable =>
      /\ Range(graph.before[list[k].mod]) \cup Range(graph.uses[list[k].mod]) \subseteq Listed
      /\ list[k].processed /\ list[k].depth # 0 => Range(graph.exports[list[k].mod]) \subseteq Listed

(* The search ends although entries are scanned again, and so do the       *)
(* threads; the text then holds each listed module that can be read, once  *)
(* and in the order they were found, behind the prebuilt library and       *)
(* without the program's own file, however many threads could be started   *)
(* and however they took turns.                                            *)
BundleBuilt ==
  <>[]( /\ phase = "done"
        /\ bundle = Prefix \o SelectSeq([k \in DOMAIN list |-> list[k].mod],
                                        LAMBDA m : m \in graph.readable \ graph.entry))
==============================================================================
