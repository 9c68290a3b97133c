------------------------------ MODULE Parallel ------------------------------
(***************************************************************************)
(* parallel_map, parallel_map_indexed and parallel_each of                 *)
(* lib/os/parallel.ny: the items are cut into ranges, a thread works on    *)
(* each, and the caller joins them in order.  Item k is the number k, and  *)
(* so is f of it.                                                          *)
(***************************************************************************)
EXTENDS Integers, Sequences

CONSTANTS
  MaxItems,    \* bound: the longest list
  MaxThreads,  \* bound: the thread counts of the configuration, the machine and the call
  MayFail      \* pthread_create may fail

ASSUME ParallelAssumption == MaxItems \in Nat /\ MaxThreads \in Nat /\ MayFail \in BOOLEAN

VARIABLES
  pc,
  n, max,                       \* the call: xs.len and max_threads
  off, effective, least,        \* parallel_mode off, effective_threads, effective_min_work
  workers,                      \* how many ranges chunk_ranges is asked for
  ranges, start,                \* chunk_ranges
  part, ok,                     \* thread -> what it appended, whether it was created
  joined, out, count            \* threads joined; their results; parallel_each's answer

vars == <<pc, n, max, off, effective, least, workers, ranges, start, part, ok, joined, out, count>>
args == <<n, max, off, effective, least>>

(* _effective_parallel_threads: what is configured, else the processors    *)
(* found, and two when there is only one                                   *)
effective_threads(configured, cpus) ==
  IF configured > 0 THEN configured ELSE IF cpus > 1 THEN cpus ELSE 2

(* The least work is configured or follows the threads; a list is shorter  *)
(* or not.                                                                 *)
Init ==
  /\ pc = "start"
  /\ n \in 0..MaxItems /\ max \in 0..MaxThreads
  /\ off \in BOOLEAN /\ least \in 1..(MaxItems + 1)
  /\ effective \in {effective_threads(t, c) : t, c \in 0..MaxThreads}
  /\ workers = 1 /\ ranges = <<>> /\ start = 0
  /\ part = <<>> /\ ok = <<>>
  /\ joined = 0 /\ out = <<>> /\ count = 0

(* thread_budget *)
Limited == IF max > 0 /\ max < effective THEN max ELSE effective
Capped == IF n > 0 /\ n < Limited THEN n ELSE Limited
thread_budget == IF Capped < 1 THEN 1 ELSE Capped

parallel_should_threads == ~off /\ effective > 1 /\ ~(n > 0 /\ n < least)

Serially == n = 0 \/ thread_budget <= 1 \/ ~parallel_should_threads

Serial ==
  /\ pc = "start" /\ Serially
  /\ out' = [i \in 1..n |-> i] /\ count' = n
  /\ pc' = "done"
  /\ UNCHANGED <<args, workers, ranges, start, part, ok, joined>>

Threaded ==
  /\ pc = "start" /\ ~Serially
  /\ workers' = thread_budget
  /\ pc' = "chunk"
  /\ UNCHANGED <<args, ranges, start, part, ok, joined, out, count>>

-----------------------------------------------------------------------------
(* chunk_ranges *)

(* Fault: rounded down *)
chunkDown == n \div workers

chunk == (n + workers - 1) \div workers

(* Fault: the last range is not cut *)
StopUncut == start + chunk

Stop == IF start + chunk > n THEN n ELSE start + chunk

ChunkRange ==
  /\ pc = "chunk"
  /\ \/ /\ start < n
        /\ ranges' = Append(ranges, [from |-> start, to |-> Stop])
        /\ start' = Stop
        /\ UNCHANGED pc
     \/ /\ start >= n
        /\ pc' = "spawn"
        /\ UNCHANGED <<ranges, start>>
  /\ UNCHANGED <<args, workers, part, ok, joined, out, count>>

-----------------------------------------------------------------------------
(* _spawn_chunks *)
Spawn ==
  /\ pc = "spawn"
  /\ \/ /\ Len(part) < Len(ranges)
        /\ part' = Append(part, <<>>)
        /\ \E made \in {TRUE, ~MayFail} : ok' = Append(ok, made)
        /\ UNCHANGED pc
     \/ /\ Len(part) = Len(ranges)
        /\ pc' = "join"
        /\ UNCHANGED <<part, ok>>
  /\ UNCHANGED <<args, workers, ranges, start, joined, out, count>>

Size(i) == ranges[i].to - ranges[i].from

(* _map_chunk and _each_chunk: the next item of thread i *)
Work(i) ==
  /\ ok[i] /\ Len(part[i]) < Size(i)
  /\ part' = [part EXCEPT ![i] = Append(@, ranges[i].from + Len(@) + 1)]
  /\ UNCHANGED <<pc, args, workers, ranges, start, ok, joined, out, count>>

(* Fault: whichever thread is ready is taken *)
JoinAny ==
  /\ pc = "join"
  /\ \/ \E i \in 1..Len(part) :
          /\ joined < Len(part) /\ ok[i] /\ Len(part[i]) = Size(i)
          /\ out' = out \o part[i] /\ count' = count + Size(i) /\ joined' = joined + 1
          /\ UNCHANGED pc
     \/ joined = Len(part) /\ pc' = "done" /\ UNCHANGED <<out, count, joined>>
  /\ UNCHANGED <<args, workers, ranges, start, part, ok>>

(* Fault: what the thread has so far is taken *)
JoinEarly ==
  /\ pc = "join"
  /\ \/ /\ joined < Len(part)
        /\ out' = out \o part[joined + 1] /\ count' = count + Len(part[joined + 1]) /\ joined' = joined + 1
        /\ UNCHANGED pc
     \/ joined = Len(part) /\ pc' = "done" /\ UNCHANGED <<out, count, joined>>
  /\ UNCHANGED <<args, workers, ranges, start, part, ok>>

(* The -ESRCH of rt_thread_join, which is not tagged, read as a number *)
JoinError == -2

(* _join_chunks and the loop of parallel_each.  Joining what pthread_create *)
(* left behind when it failed is undefined: a crash, or an error code that  *)
(* is no list and that parallel_each adds to its answer.                    *)
Join ==
  /\ pc = "join"
  /\ \/ /\ joined < Len(part) /\ ok[joined + 1] /\ Len(part[joined + 1]) = Size(joined + 1)
        /\ out' = out \o part[joined + 1]
        /\ count' = count + Size(joined + 1)
        /\ joined' = joined + 1
        /\ UNCHANGED pc
     \/ /\ joined < Len(part) /\ ~ok[joined + 1]
        /\ \/ joined' = joined + 1 /\ count' = count + JoinError /\ UNCHANGED pc
           \/ pc' = "crashed" /\ UNCHANGED <<joined, count>>
        /\ UNCHANGED out
     \/ joined = Len(part) /\ pc' = "done" /\ UNCHANGED <<out, count, joined>>
  /\ UNCHANGED <<args, workers, ranges, start, part, ok>>

Next == Serial \/ Threaded \/ ChunkRange \/ Spawn \/ (\E i \in 1..Len(part) : Work(i)) \/ Join

Spec == Init /\ [][Next]_vars

-----------------------------------------------------------------------------
(* Properties *)

(* The ranges follow each other from 0 to n without a gap or an overlap,   *)
(* none is empty, and there are no more than threads allowed.              *)
ChunksCover ==
  /\ \A k \in 1..Len(ranges) :
       /\ ranges[k].from = IF k = 1 THEN 0 ELSE ranges[k - 1].to
       /\ ranges[k].from < ranges[k].to /\ ranges[k].to <= n
  /\ start = IF ranges = <<>> THEN 0 ELSE ranges[Len(ranges)].to
  /\ pc \in {"spawn", "join"} => start = n

(* No more threads are started than were allowed or than there are items. *)
BudgetKept == Len(ranges) <= workers /\ (n > 0 => workers <= n) /\ (max > 0 => workers <= max)

AllStarted == \A i \in 1..Len(ok) : ok[i]

InPlace ==
  /\ pc # "crashed"
  /\ pc = "done" => out = [i \in 1..n |-> i] /\ count = n

(* Every item is mapped once, in its place, whatever thread was faster,    *)
(* and parallel_each counts them all, if every thread could be started.    *)
(* (_join_chunks does not notice one that could not.)                      *)
MapInOrder == AllStarted => InPlace

(* The results keep the order of their items and none comes twice, also    *)
(* when threads could not be started and their items are missing.          *)
OrderKept == \A i, j \in 1..Len(out) : i < j => out[i] < out[j]
=============================================================================
