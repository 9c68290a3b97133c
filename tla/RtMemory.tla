------------------------------ MODULE RtMemory ------------------------------
(***************************************************************************)
(* The runtime's allocator (src/rt/memory.c) as several threads use it:    *)
(* freed blocks go to pools of the thread that frees them, a table under a *)
(* lock counts the references to a block, and a value is taken for a heap  *)
(* pointer (is_heap_ptr, src/rt/shared.h) by two caches each thread keeps  *)
(* and, when they miss, by the magic word in front of the block.           *)
(*                                                                         *)
(* An address is the pointer the program holds.  held is the program's     *)
(* side: how many references each thread believes it owns.                 *)
(***************************************************************************)
EXTENDS Integers, Sequences, FiniteSets, Functions

CONSTANTS
  Thread, Addr,
  Pools,      \* size classes 1..Pools are pooled; Pools + 1 is larger than all
  PosSlot,    \* rt_heap_ptr_cache_slot
  NegSlot,    \* rt_heap_ptr_neg_cache_slot
  Programs,   \* the kinds of program that use the allocator
  MaxHeld     \* bound: references to one block

(* A kind of program is a record: acting, the threads it has; counted,     *)
(* rt_rc_enabled; raw, whether it uses malloc_raw; careless, whether it    *)
(* releases what it does not hold; classes, the size classes it asks for.  *)

ASSUME MemoryAssumption ==
  /\ Pools \in Nat /\ MaxHeld \in Nat \ {0} /\ 0 \notin Addr
  /\ \A p \in Programs : /\ DOMAIN p = {"acting", "counted", "raw", "careless", "classes"}
                         /\ p.acting \subseteq Thread /\ p.classes \subseteq 1..(Pools + 1)
                         /\ {p.counted, p.raw, p.careless} \subseteq BOOLEAN
  /\ DOMAIN PosSlot = Addr /\ DOMAIN NegSlot = Addr

VARIABLES
  kind,   \* what an address is: "sys", "heap", "raw" or "pool"
  magic,  \* NY_MAGIC1 stands in front of it
  class,  \* the size class its header gives
  room,   \* the size class it was allocated with
  pool,   \* g_mem_pools of each thread
  cache,  \* rt_heap_ptr_cache_keys (pos) and rt_heap_ptr_neg_cache_keys (neg) of each thread
  rc,     \* g_rc_table: the count of an entry, 0 without one
  held,
  pc,     \* what a thread is in the middle of, and on which address
  prog    \* the program that runs

vars == <<kind, magic, class, room, pool, cache, rc, held, pc, prog>>

Class == 1..(Pools + 1)
Large == Pools + 1
None == 0
Claims(a) == UNION {{t} \X (1..held[t][a]) : t \in Thread}   \* the references to a
Holders(a) == Cardinality(Claims(a))
Idle == <<"idle", None>>

Init ==
  /\ prog \in Programs
  /\ kind = [a \in Addr |-> "sys"]
  /\ magic = [a \in Addr |-> FALSE]
  /\ class = [a \in Addr |-> Large]
  /\ room = [a \in Addr |-> Large]
  /\ pool = [t \in Thread |-> [k \in 1..Pools |-> <<>>]]
  /\ cache = [t \in Thread |-> [pos |-> [s \in Range(PosSlot) |-> None],
                               neg |-> [s \in Range(NegSlot) |-> None]]]
  /\ rc = [a \in Addr |-> 0]
  /\ held = [t \in Thread |-> [a \in Addr |-> 0]]
  /\ pc = [t \in Thread |-> Idle]

-----------------------------------------------------------------------------
(* The caches: is_valid_heap_ptr and what the other functions do to them *)

PosHit(c, a) == c.pos[PosSlot[a]] = a
NegHit(c, a) == c.neg[NegSlot[a]] = a

IsHeapPtr(t, a) == PosHit(cache[t], a) \/ (~NegHit(cache[t], a) /\ magic[a])

(* Fault: a negative entry for the address is left standing *)
StorePosOnly(c, a) == [c EXCEPT !.pos[PosSlot[a]] = a]

StorePos(c, a) == [pos |-> [c.pos EXCEPT ![PosSlot[a]] = a], neg |-> [c.neg EXCEPT ![NegSlot[a]] = None]]
StoreNeg(c, a) == [c EXCEPT !.neg[NegSlot[a]] = a]

(* Fault: the positive entry of a freed block stays *)
ForgetNegOnly(c, a) == [c EXCEPT !.neg[NegSlot[a]] = None]

Forget(c, a) ==
  [pos |-> [c.pos EXCEPT ![PosSlot[a]] = None], neg |-> [c.neg EXCEPT ![NegSlot[a]] = None]]

(* What a call of is_valid_heap_ptr leaves in the caches *)
Asked(c, a) ==
  IF PosHit(c, a) \/ NegHit(c, a) THEN c
  ELSE IF magic[a] THEN StorePos(c, a) ELSE StoreNeg(c, a)

-----------------------------------------------------------------------------
(* Allocation *)

(* A block of class k: the top of the thread's pool, or system memory *)
Block(t, k, a) ==
  IF k <= Pools /\ pool[t][k] # <<>>
  THEN /\ a = Head(pool[t][k])
       /\ pool' = [pool EXCEPT ![t][k] = Tail(@)]
       /\ UNCHANGED room
  ELSE /\ kind[a] = "sys"
       /\ room' = [room EXCEPT ![a] = k]
       /\ UNCHANGED pool

(* rt_rc_adopt_new: the entry an earlier block left, or a new one *)
Adopt(table, a) == IF prog.counted THEN [table EXCEPT ![a] = 1] ELSE table

(* rt_malloc and rt_malloc_uninit up to their return *)
NewBlock(t, k, a) ==
  /\ Block(t, k, a)
  /\ kind' = [kind EXCEPT ![a] = "heap"]
  /\ magic' = [magic EXCEPT ![a] = TRUE]
  /\ class' = [class EXCEPT ![a] = k]
  /\ rc' = Adopt(rc, a)

Malloc(t) ==
  /\ pc[t] = Idle
  /\ \E k \in prog.classes, a \in Addr :
       /\ NewBlock(t, k, a)
       /\ cache' = [cache EXCEPT ![t] = StorePos(@, a)]
       /\ held' = [held EXCEPT ![t][a] = 1]
  /\ UNCHANGED pc

(* rt_malloc_raw: what stands in front of raw memory is another's *)
MallocRaw(t) ==
  /\ prog.raw
  /\ pc[t] = Idle
  /\ \E a \in Addr :
       /\ kind[a] = "sys"
       /\ kind' = [kind EXCEPT ![a] = "raw"]
       /\ cache' = [cache EXCEPT ![t] = StoreNeg(@, a)]
  /\ UNCHANGED <<magic, class, room, pool, rc, held, pc>>

(* rt_free_raw *)
FreeRaw(t) ==
  /\ prog.raw
  /\ pc[t] = Idle
  /\ \E a \in Addr :
       /\ kind[a] = "raw"
       /\ kind' = [kind EXCEPT ![a] = "sys"]
       /\ cache' = [cache EXCEPT ![t] = Forget(@, a)]
  /\ UNCHANGED <<magic, class, room, pool, rc, held, pc>>

-----------------------------------------------------------------------------
(* What the program does with a pointer it may use *)

(* Any operation that asks what the value is: loads, stores, type tests *)
Use(t) ==
  /\ pc[t] = Idle
  /\ \E a \in Addr :
       /\ held[t][a] > 0 \/ kind[a] = "raw"
       /\ cache' = [cache EXCEPT ![t] = Asked(@, a)]
  /\ UNCHANGED <<kind, magic, class, room, pool, rc, held, pc>>

(* The reference goes to another thread (an argument, a queue, a slot) *)
Give(t) ==
  /\ pc[t] = Idle
  /\ \E u \in prog.acting \ {t}, a \in Addr :
       /\ held[t][a] > 0
       /\ held' = [held EXCEPT ![t][a] = @ - 1, ![u][a] = @ + 1]
  /\ UNCHANGED <<kind, magic, class, room, pool, cache, rc, pc>>

(* rt_retain_owned: the question, and then the table under its lock *)
Retain(t) ==
  /\ pc[t] = Idle
  /\ \E a \in Addr :
       /\ held[t][a] > 0 /\ Holders(a) < MaxHeld
       /\ prog.counted
       /\ cache' = [cache EXCEPT ![t] = Asked(@, a)]
       /\ IF IsHeapPtr(t, a)
          THEN pc' = [pc EXCEPT ![t] = <<"retain", a>>] /\ UNCHANGED held
          ELSE held' = [held EXCEPT ![t][a] = @ + 1] /\ UNCHANGED pc
  /\ UNCHANGED <<kind, magic, class, room, pool, rc>>

(* Fault: an entry that exists is started again instead of counted up *)
RetainedAnew(n) == 1

Retained(n) == n + 1

RetainLocked(t) ==
  /\ pc[t][1] = "retain"
  /\ LET a == pc[t][2] IN
       /\ rc' = [rc EXCEPT ![a] = Retained(@)]
       /\ held' = [held EXCEPT ![t][a] = @ + 1]
  /\ pc' = [pc EXCEPT ![t] = Idle]
  /\ UNCHANGED <<kind, magic, class, room, pool, cache>>

(* rt_release_owned, rt_drop_owned, rt_drop_owned_slot, and rt_free when   *)
(* nothing is counted, up to the lock.  A careless program releases what   *)
(* it no longer holds.                                                     *)
Release(t) ==
  /\ pc[t] = Idle
  /\ \E a \in Addr :
       /\ held[t][a] > 0 \/ prog.careless
       /\ held' = [held EXCEPT ![t][a] = IF @ > 0 THEN @ - 1 ELSE 0]
       /\ cache' = [cache EXCEPT ![t] = Asked(@, a)]
       /\ pc' = [pc EXCEPT ![t] =
            IF ~IsHeapPtr(t, a) THEN Idle ELSE <<IF prog.counted THEN "release" ELSE "forget", a>>]
  /\ UNCHANGED <<kind, magic, class, room, pool, rc>>

(* Fault: the entry is removed one reference too early *)
LastReferenceEarly(n) == n <= 2

(* No entry, or the last of its references *)
LastReference(n) == n <= 1

ReleaseLocked(t) ==
  /\ pc[t][1] = "release"
  /\ LET a == pc[t][2] IN
       IF LastReference(rc[a])
       THEN /\ rc' = [rc EXCEPT ![a] = 0]
            /\ pc' = [pc EXCEPT ![t] = <<"direct", a>>]
       ELSE /\ rc' = [rc EXCEPT ![a] = @ - 1]
            /\ pc' = [pc EXCEPT ![t] = Idle]
  /\ UNCHANGED <<kind, magic, class, room, pool, cache, held>>

(* rt_rc_forget *)
ForgetLocked(t) ==
  /\ pc[t][1] = "forget"
  /\ rc' = [rc EXCEPT ![pc[t][2]] = 0]
  /\ pc' = [pc EXCEPT ![t] = <<"direct", pc[t][2]>>]
  /\ UNCHANGED <<kind, magic, class, room, pool, cache, held>>

(* rt_free_direct.  A block of a pooled class goes to the pool, its magic  *)
(* word overwritten by the link; the system's allocator may leave the word *)
(* of a larger one standing.                                               *)
FreeDirect(t) ==
  /\ pc[t][1] = "direct"
  /\ LET a == pc[t][2]  k == class[a] IN
       IF ~IsHeapPtr(t, a)
       THEN cache' = [cache EXCEPT ![t] = Asked(@, a)] /\ UNCHANGED <<kind, magic, pool>>
       ELSE /\ cache' = [cache EXCEPT ![t] = Forget(@, a)]
            /\ IF k <= Pools
               THEN /\ kind' = [kind EXCEPT ![a] = "pool"]
                    /\ magic' = [magic EXCEPT ![a] = FALSE]
                    /\ pool' = [pool EXCEPT ![t][k] = <<a>> \o @]
               ELSE /\ kind' = [kind EXCEPT ![a] = "sys"]
                    /\ \E m \in BOOLEAN : magic' = [magic EXCEPT ![a] = m]
                    /\ UNCHANGED pool
  /\ pc' = [pc EXCEPT ![t] = Idle]
  /\ UNCHANGED <<class, room, rc, held>>

(* The program's side: nobody else owns the block or is still letting go   *)
(* of it (rt_rc_count is 1).                                               *)
SoleOwner(t, a) == held[t][a] = 1 /\ Holders(a) = 1 /\ \A u \in Thread : pc[u][2] # a

(* rt_realloc of a block that has one owner: it stays when its header says *)
(* that it is large enough; else a new block takes its place, of a larger  *)
(* class or, since a class has several sizes, of the same one, and the old *)
(* block is freed.                                                         *)
Realloc(t) ==
  /\ pc[t] = Idle
  /\ \E a \in Addr, k \in prog.classes :
       /\ SoleOwner(t, a)
       /\ \/ /\ IsHeapPtr(t, a) /\ k <= class[a]
             /\ cache' = [cache EXCEPT ![t] = Asked(@, a)]
             /\ UNCHANGED <<kind, magic, class, room, pool, rc, held, pc>>
          \/ /\ IsHeapPtr(t, a) => k >= class[a]
             /\ \E b \in Addr \ {a} :
                  /\ NewBlock(t, k, b)
                  /\ cache' = [cache EXCEPT ![t] = Asked(StorePos(Asked(@, a), b), a)]
                  /\ held' = [held EXCEPT ![t][a] = 0, ![t][b] = 1]
             /\ pc' = IF IsHeapPtr(t, a) THEN [pc EXCEPT ![t] = <<"forget", a>>] ELSE pc

Step(t) ==
  \/ Malloc(t) \/ MallocRaw(t) \/ FreeRaw(t)
  \/ Use(t) \/ Give(t) \/ Realloc(t)
  \/ Retain(t) \/ RetainLocked(t)
  \/ Release(t) \/ ReleaseLocked(t) \/ ForgetLocked(t) \/ FreeDirect(t)

Next == (\E t \in prog.acting : Step(t)) /\ UNCHANGED prog

Spec == Init /\ [][Next]_vars

-----------------------------------------------------------------------------
(* Properties *)

(* Every free block stands once in one pool of one thread, in the class it *)
(* was allocated with, and no block in use stands in any: rt_malloc never  *)
(* hands out memory twice, or less of it than the header claims.           *)
PoolsExact ==
  /\ \A a \in Addr : kind[a] = "pool" <=>
       \E t \in Thread, k \in 1..Pools : \E n \in DOMAIN pool[t][k] : pool[t][k][n] = a
  /\ \A t, u \in Thread, k, l \in 1..Pools :
       \A n \in DOMAIN pool[t][k], m \in DOMAIN pool[u][l] :
         pool[t][k][n] = pool[u][l][m] => t = u /\ k = l /\ n = m
  /\ \A t \in Thread, k \in 1..Pools : \A n \in DOMAIN pool[t][k] :
       room[pool[t][k][n]] = k /\ ~magic[pool[t][k][n]]
  /\ \A a \in Addr : kind[a] = "heap" => magic[a] /\ class[a] <= room[a]

(* A block is not freed under a thread that still owns a reference. *)
HeldIsLive == \A t \in Thread, a \in Addr : held[t][a] > 0 => kind[a] = "heap"

(* A block whose last owner has released it is freed: rt_release_owned and *)
(* rt_free do not take it for something else.                              *)
ReleaseDrops ==
  \A a \in Addr : kind[a] = "heap" => Holders(a) > 0 \/ \E t \in Thread : pc[t][2] = a

(* The count of the table is the number of owners, those about to give up  *)
(* their reference included.                                               *)
CountsExact ==
  prog.counted => \A a \in Addr :
    kind[a] = "heap" /\ (\A t \in Thread : pc[t] \notin {<<"forget", a>>, <<"direct", a>>}) =>
      rc[a] = Holders(a) + Cardinality({t \in Thread : pc[t] = <<"release", a>>})
=============================================================================
