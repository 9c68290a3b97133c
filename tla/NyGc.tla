-------------------------------- MODULE NyGc --------------------------------
(***************************************************************************)
(* The generational collector of the runtime (src/rt/gc.c).                *)
(*                                                                         *)
(* Objects are born in the nursery, age by one at every minor collection   *)
(* they survive, and are copied to the tenured space at PromotionAge.      *)
(* Large objects live in blocks of their own.  A minor collection marks    *)
(* from the root slots and the remembered set, slides the survivors down   *)
(* and forwards every reference; a major one then compacts the tenured     *)
(* space and frees unmarked large objects.                                 *)
(*                                                                         *)
(* Memory is counted in units: Off units of header and prefix, then one    *)
(* unit per slot.  A reference is a pointer with, as a ghost, the identity *)
(* of the object it was made for; the collector never looks at identities. *)
(* Every entry point holds gNyGcLock throughout, so each is one step.      *)
(***************************************************************************)
EXTENDS Integers, Sequences, FiniteSets, FiniteSetsExt

CONSTANTS
  Roots,         \* root slots of the program
  LargeUnits,    \* large_threshold, in units
  LargeAddrs,    \* bound: addresses malloc may give a large object
  PromotionAge,
  MaxReg,        \* bound: registrations of one root slot
  Programs       \* the kinds of program that use the collector

AllOps == {"alloc", "fast", "slow", "store", "load", "clear", "root", "unroot",
           "mark", "minor", "major"}

(* A kind of program is a record: ops, the entry points it calls; sizes,   *)
(* the numbers of slots of its objects; backward, whether it stores        *)
(* references to younger objects; nursery and tenured, the capacities its  *)
(* environment sets (NYTRIX_GC_NURSERY_SIZE, NYTRIX_GC_TENURED_SIZE);      *)
(* identities, whether its objects are told apart (FALSE saves states).    *)
Sizes == UNION {p.sizes : p \in Programs}

ASSUME SpacesAssumption ==
  /\ LargeUnits \in Nat
  /\ LargeAddrs \subseteq Nat /\ IsFiniteSet(LargeAddrs)
  /\ PromotionAge \in Nat \ {0}
ASSUME ClientAssumption ==
  /\ MaxReg \in Nat \ {0}
  /\ \A p \in Programs : /\ DOMAIN p = {"ops", "sizes", "backward", "nursery", "tenured",
                                        "identities"}
                         /\ p.ops \subseteq AllOps /\ {p.backward, p.identities} \subseteq BOOLEAN
                         /\ p.nursery \in Nat /\ p.tenured \in Nat
                         /\ p.sizes \subseteq Nat /\ p.sizes # {}

VARIABLES
  gc,      \* gNyGc, the objects, and the program's root slots
  prog     \* the program that runs

vars == <<gc, prog>>

Off == 1
Total(n) == Off + n

NurseryStart == 1
NurseryLimit == NurseryStart + prog.nursery
TenuredStart == NurseryLimit + 1
TenuredLimit == TenuredStart + prog.tenured

(* Blocks of large objects overlap neither the spaces nor each other *)
ASSUME LargeAssumption ==
  \A p \in Programs : \A n \in p.sizes : \A a, b \in LargeAddrs :
    a > NurseryStart + p.nursery + 1 + p.tenured /\ (a < b => a + Total(n) < b)

Null == [ptr |-> 0, id |-> 0]
Object(h) == h + Off        \* nyGcObjPtr
Header(p) == p - Off        \* nyGcHeaderFromObject

(* A slot is a header and an index *)
Addr(s) == s[1] + Off + s[2] - 1
Slots(g) == UNION {{<<h, i>> : i \in DOMAIN g.heap[h].slots} : h \in DOMAIN g.heap}
RefIn(g, s) == g.heap[s[1]].slots[s[2]]

(* The units of an object, and how many the objects of S take up *)
Units(g, h) == Total(Len(g.heap[h].slots))
Extent(g, S) == UNION {h..(h + Units(g, h) - 1) : h \in S}
Room(g, S) == Cardinality(Extent(g, S))

Young(g) == {h \in DOMAIN g.heap : NurseryStart <= h /\ h < g.nursery_ptr}
Tenured(g) == {h \in DOMAIN g.heap : TenuredStart <= h /\ h < g.tenured_free}
Old(g) == Tenured(g) \cup g.large

(* nyGcHeaderForObject finds a header that starts an object in use *)
IsObject(g, p) == p # 0 /\ Header(p) \in DOMAIN g.heap

(* nyGcLargeIndexFind *)
InLarge(g, a) == \E h \in g.large : h <= a /\ a < h + Units(g, h)

InOld(g, a) == (TenuredStart <= a /\ a < g.tenured_free) \/ InLarge(g, a)

-----------------------------------------------------------------------------
(* Allocation.  An allocator returns the state and the pointer, 0 if full. *)

Ids(g) == 
  {g.heap[h].id : h \in DOMAIN g.heap} \cup {RefIn(g, s).id : s \in Slots(g)}
    \cup {g.root[r].id : r \in Roots}
FreshId(g) ==
  IF prog.identities THEN CHOOSE i \in 1..(Cardinality(Ids(g)) + 1) : i \notin Ids(g) ELSE 0

InitObject(g, h, n, age) ==
  LET new == [id |-> FreshId(g), marked |-> FALSE, age |-> age,
              slots |-> [i \in 1..n |-> Null]]
  IN  [g EXCEPT !.heap = [a \in DOMAIN g.heap \cup {h} |-> IF a = h THEN new ELSE g.heap[a]]]

Failed(g) == [gc |-> g, obj |-> 0]

AllocFastUnlocked(g, n) ==
  IF g.nursery_ptr + Total(n) > NurseryLimit THEN Failed(g)
  ELSE [gc |-> [InitObject(g, g.nursery_ptr, n, 0) EXCEPT !.nursery_ptr = @ + Total(n)],
        obj |-> Object(g.nursery_ptr)]

(* Fault: the free pointer moves on by the body only *)
AllocTenuredShort(g, n) ==
  IF g.tenured_free + Total(n) > TenuredLimit THEN Failed(g)
  ELSE [gc |-> [InitObject(g, g.tenured_free, n, PromotionAge) EXCEPT !.tenured_free = @ + n],
        obj |-> Object(g.tenured_free)]

AllocTenured(g, n) ==
  IF g.tenured_free + Total(n) > TenuredLimit THEN Failed(g)
  ELSE [gc |-> [InitObject(g, g.tenured_free, n, PromotionAge)
                  EXCEPT !.tenured_free = @ + Total(n)],
        obj |-> Object(g.tenured_free)]

AllocLarge(g, n) ==
  IF LargeAddrs \subseteq g.large THEN Failed(g)
  ELSE LET h == CHOOSE a \in LargeAddrs \ g.large : TRUE
       IN  [gc |-> [InitObject(g, h, n, PromotionAge) EXCEPT !.large = @ \cup {h}],
            obj |-> Object(h)]

-----------------------------------------------------------------------------
(* Marking *)

Refs(g, h) == {g.heap[h].slots[i].ptr : i \in DOMAIN g.heap[h].slots}

(* The headers nyGcMarkUnlocked, called on each of the pointers ps, goes   *)
(* on with: it returns at what is no object and at what is marked already. *)
Unmarked(g, ps) ==
  {Header(p) : p \in {q \in ps : IsObject(g, q) /\ ~g.heap[Header(q)].marked}}

(* All that is reached from ps through objects that were unmarked *)
Marked(g, ps) ==
  LET first == Unmarked(g, ps)
      others == DOMAIN g.heap \ first
      closed == {S \in SUBSET others :
                   Unmarked(g, UNION {Refs(g, h) : h \in first \cup S}) \subseteq first \cup S}
  IN  first \cup {h \in others : \A S \in closed : h \in S}

Mark(g, ps) ==
  LET new == Marked(g, ps)
  IN  [g EXCEPT !.heap = [h \in DOMAIN g.heap |->
                            [g.heap[h] EXCEPT !.marked = @ \/ h \in new]]]

Rooted(g) == {g.root[r].ptr : r \in {q \in Roots : g.reg[q] > 0}}

MarkFromRoots(g) ==
  Mark(g, Rooted(g) \cup {RefIn(g, s).ptr : s \in {t \in Slots(g) : Addr(t) \in g.remembered}})

ClearLargeMarks(g) ==
  [g EXCEPT !.heap = [h \in DOMAIN g.heap |->
     IF h \in g.large THEN [g.heap[h] EXCEPT !.marked = FALSE] ELSE g.heap[h]]]

-----------------------------------------------------------------------------
(* Moving objects and forwarding references *)

(* The forward map of a move: objects that stay where they are are left    *)
(* out of it (nyGcForwardPush).                                            *)
Forwards(to) ==
  [p \in {Object(h) : h \in {k \in DOMAIN to : to[k] # k}} |-> Object(to[Header(p)])]

Forward(fwd, ref) ==
  IF ref.ptr \in DOMAIN fwd THEN [ref EXCEPT !.ptr = fwd[ref.ptr]] ELSE ref

(* nyGcForwardSlot, applied n times to the same slot *)
ForwardTimes(fwd, ref, n) ==
  LET f[k \in 0..n] == IF k = 0 THEN ref ELSE Forward(fwd, f[k - 1]) IN f[n]

(* Fault: the root slots are forgotten *)
ApplyForwardsHeapOnly(g, fwd) ==
  [g EXCEPT !.heap = [h \in DOMAIN g.heap |-> [g.heap[h] EXCEPT !.slots =
     [i \in DOMAIN @ |-> Forward(fwd, @[i])]]]]

(* Every entry of the root table, every remembered address, then the slots *)
(* of every object.                                                        *)
ApplyForwards(g, fwd) ==
  [g EXCEPT
     !.root = [r \in Roots |-> ForwardTimes(fwd, @[r], g.reg[r])],
     !.heap = [h \in DOMAIN g.heap |-> [g.heap[h] EXCEPT !.slots =
       [i \in DOMAIN @ |->
          ForwardTimes(fwd, @[i], IF Addr(<<h, i>>) \in g.remembered THEN 2 ELSE 1)]]]]

PointsToNursery(g, p) == p >= NurseryStart + Off /\ p < g.nursery_ptr + Off

RebuildRemembered(g) ==
  [g EXCEPT !.remembered =
     {Addr(s) : s \in {t \in Slots(g) : t[1] \in Old(g) /\ PointsToNursery(g, RefIn(g, t).ptr)}}]

(* The heap once the objects of DOMAIN to were moved, each with the header *)
(* that as gives it, and the rest of their space, gone, was dropped        *)
Moved(g, gone, to, as) ==
  LET image == {to[h] : h \in DOMAIN to}
      from(a) == CHOOSE h \in DOMAIN to : to[h] = a
  IN  [a \in (DOMAIN g.heap \ gone) \cup image |->
         IF a \in image THEN as[from(a)] ELSE g.heap[a]]

(* Objects slide down: h goes behind all that is kept below it. *)
Slid(g, kept, start, h) == start + Room(g, {k \in kept : k < h})

(* nyGcPromoteSurvivors, first half: the marked objects of the nursery     *)
(* slide down, or go to the tenured space when they have reached the age.  *)
Live(g) == {h \in Young(g) : g.heap[h].marked}
Stay(g) == {h \in Live(g) : g.heap[h].age + 1 < PromotionAge}
Promo(g) == Live(g) \ Stay(g)

PromoteTo(g) ==
  [h \in Live(g) |-> IF h \in Stay(g) THEN Slid(g, Stay(g), NurseryStart, h)
                     ELSE Slid(g, Promo(g), g.tenured_free, h)]
PromoteAs(g) ==
  [h \in Live(g) |-> [g.heap[h] EXCEPT !.marked = FALSE,
                        !.age = IF h \in Stay(g) THEN @ + 1 ELSE PromotionAge]]
PromoteFree(g) == g.tenured_free + Room(g, Promo(g))

PromoteMoved(g) ==
  [g EXCEPT !.heap = Moved(g, Young(g), PromoteTo(g), PromoteAs(g)),
            !.nursery_ptr = NurseryStart + Room(g, Stay(g)),
            !.tenured_free = PromoteFree(g)]

(* The references follow; no room in the tenured space ends the program. *)
PromoteSurvivors(g) ==
  IF PromoteFree(g) > TenuredLimit THEN [g EXCEPT !.aborted = TRUE]
  ELSE ApplyForwards(PromoteMoved(g), Forwards(PromoteTo(g)))

(* nyGcSweepTenured, likewise.  Only the objects that move have their mark *)
(* cleared.                                                                *)
SweepLive(g) == {h \in Tenured(g) : g.heap[h].marked}
SweepTo(g) == [h \in SweepLive(g) |-> Slid(g, SweepLive(g), TenuredStart, h)]
SweepAs(g) == [h \in SweepLive(g) |-> [g.heap[h] EXCEPT !.marked = (SweepTo(g)[h] = h)]]

SweepMoved(g) ==
  [g EXCEPT !.heap = Moved(g, Tenured(g), SweepTo(g), SweepAs(g)),
            !.tenured_free = TenuredStart + Room(g, SweepLive(g))]

SweepTenured(g) == RebuildRemembered(ApplyForwards(SweepMoved(g), Forwards(SweepTo(g))))

SweepLarge(g) ==
  LET dead == {h \in g.large : ~g.heap[h].marked}
  IN  ClearLargeMarks([g EXCEPT !.large = @ \ dead,
                                !.heap = [h \in DOMAIN g.heap \ dead |-> g.heap[h]]])

(* The marking of a minor collection *)
Traced(g) == MarkFromRoots(ClearLargeMarks(g))

MinorCollect(g) ==
  LET p == PromoteSurvivors(Traced(g))
  IN  IF p.aborted THEN p ELSE RebuildRemembered(p)

MajorCollect(g) ==
  LET m == MinorCollect(g)
  IN  IF m.aborted THEN m ELSE RebuildRemembered(SweepLarge(SweepTenured(m)))

-----------------------------------------------------------------------------
(* Entry points.  Each allocates after the collections it may need. *)

(* nyGcAllocTenuredUnlocked, then once more after a major collection *)
TenuredOrMajor(g, n) ==
  LET first == AllocTenured(g, n)
      major == MajorCollect(g)
  IN  CASE first.obj # 0 -> first
        [] first.obj = 0 /\ major.aborted -> Failed(major)
        [] first.obj = 0 /\ ~major.aborted -> AllocTenured(major, n)

(* nyGcAllocSlow below the large threshold *)
AllocSlow(g, n) ==
  LET minor == MinorCollect(g)
      young == AllocFastUnlocked(minor, n)
  IN  CASE minor.aborted -> Failed(minor)
        [] ~minor.aborted /\ young.obj # 0 -> young
        [] ~minor.aborted /\ young.obj = 0 -> TenuredOrMajor(minor, n)

(* nyGcAlloc below the large threshold *)
AllocAny(g, n) ==
  LET first == AllocFastUnlocked(g, n) IN IF first.obj # 0 THEN first ELSE AllocSlow(g, n)

Large(n) == Total(n) >= LargeUnits

(* The program calls this entry point; abort() has not ended it. *)
Calls(op) == op \in prog.ops /\ ~gc.aborted

(* The object's reference is written to the root slot r, with the value 0  *)
(* (and no object) when memory is out.                                     *)
Deliver(res, r) ==
  LET ref == IF res.obj = 0 THEN Null
             ELSE [ptr |-> res.obj, id |-> res.gc.heap[Header(res.obj)].id]
  IN  gc' = [res.gc EXCEPT !.root[r] = ref]

Allocate(op, r, n) ==
  /\ Calls(op)
  /\ gc.reg[r] > 0
  /\ Deliver(CASE Large(n) -> AllocLarge(gc, n)
               [] ~Large(n) /\ op = "fast" -> AllocFastUnlocked(gc, n)
               [] ~Large(n) /\ op = "slow" -> AllocSlow(gc, n)
               [] ~Large(n) /\ op = "alloc" -> AllocAny(gc, n), r)

(* The program follows references it can reach only: the object of root r *)
Holds(r) == gc.reg[r] > 0 /\ IsObject(gc, gc.root[r].ptr)
Held(r) == gc.heap[Header(gc.root[r].ptr)]

(* Fault: large objects are left out *)
BarrierTenuredOnly(g, a, ref) ==
  IF /\ TenuredStart <= a /\ a < g.tenured_free
     /\ NurseryStart <= ref.ptr /\ ref.ptr < g.nursery_ptr
  THEN [g EXCEPT !.remembered = @ \cup {a}]
  ELSE g

(* nyGcWriteBarrier *)
Barrier(g, a, ref) ==
  IF ref.ptr # 0 /\ InOld(g, a) /\ NurseryStart <= ref.ptr /\ ref.ptr < g.nursery_ptr
  THEN [g EXCEPT !.remembered = @ \cup {a}]
  ELSE g

Store(r, i, q) ==
  /\ Calls("store")
  /\ Holds(r) /\ i \in DOMAIN Held(r).slots
  /\ Holds(q)
  /\ prog.backward \/ Held(q).age >= Held(r).age
  /\ LET h == Header(gc.root[r].ptr)
     IN  gc' = [Barrier(gc, Addr(<<h, i>>), gc.root[q])
                  EXCEPT !.heap[h].slots[i] = gc.root[q]]

Load(r, i, q) ==
  /\ Calls("load")
  /\ Holds(r) /\ i \in DOMAIN Held(r).slots
  /\ gc.reg[q] > 0
  /\ gc' = [gc EXCEPT !.root[q] = Held(r).slots[i]]

Clear(r) ==
  /\ Calls("clear")
  /\ gc' = [gc EXCEPT !.root[r] = Null]

AddRoot(r) ==
  /\ Calls("root")
  /\ gc.reg[r] < MaxReg
  /\ gc' = [gc EXCEPT !.reg[r] = @ + 1]

(* A slot the program takes off the table is one it no longer uses *)
RemoveRoot(r) ==
  /\ Calls("unroot")
  /\ gc.reg[r] > 0
  /\ gc' = [gc EXCEPT !.reg[r] = @ - 1,
                      !.root[r] = IF gc.reg[r] = 1 THEN Null ELSE @]

MarkObject(r) ==
  /\ Calls("mark")
  /\ Holds(r)
  /\ gc' = Mark(gc, {gc.root[r].ptr})

TriggerMinor == Calls("minor") /\ gc' = MinorCollect(gc)

(* nyGcTriggerMajor and nyGcCollect *)
TriggerMajor == Calls("major") /\ gc' = MajorCollect(gc)

Init ==
  /\ prog \in Programs
  /\ gc = [heap |-> [h \in {} |-> Null], nursery_ptr |-> NurseryStart,
           tenured_free |-> TenuredStart, large |-> {}, remembered |-> {},
           root |-> [r \in Roots |-> Null], reg |-> [r \in Roots |-> 1],
           aborted |-> FALSE]

Step ==
  \/ \E op \in {"alloc", "fast", "slow"}, r \in Roots, n \in prog.sizes : Allocate(op, r, n)
  \/ \E r, q \in Roots, i \in 1..Max(prog.sizes) : Store(r, i, q) \/ Load(r, i, q)
  \/ \E r \in Roots : Clear(r) \/ AddRoot(r) \/ RemoveRoot(r) \/ MarkObject(r)
  \/ TriggerMinor
  \/ TriggerMajor

Next == Step /\ UNCHANGED prog

Spec == Init /\ [][Next]_vars

-----------------------------------------------------------------------------
(* Properties *)

(* nyGcValidateSpace: walking a space from its start, header by header,    *)
(* ends exactly at its allocation pointer, which is inside the space.      *)
Packed(g, space, start, end, limit) ==
  /\ end <= limit
  /\ start \in space \cup {end}
  /\ \A h \in space : h + Units(g, h) \in space \cup {end}
  /\ \A h, k \in space : h < k => h + Units(g, h) <= k

(* Whatever was allocated, promoted, slid down or compacted, nothing       *)
(* overlaps, nothing is lost between two objects or runs past a limit, and *)
(* an object is in one space.                                              *)
SpacesPacked ==
  /\ Packed(gc, Young(gc), NurseryStart, gc.nursery_ptr, NurseryLimit)
  /\ Packed(gc, Tenured(gc), TenuredStart, gc.tenured_free, TenuredLimit)
  /\ DOMAIN gc.heap = Young(gc) \cup Old(gc)
  /\ \A h \in DOMAIN gc.heap : gc.heap[h].age = PromotionAge <=> h \in Old(gc)

(* Programs that leave marking to the collector and have no empty objects. *)
(* The marks of others outlive the next marking, see PromoteSurvivors, and *)
(* Barrier may miss an empty object.                                       *)
Tracks == "mark" \notin prog.ops /\ 0 \notin prog.sizes

(* nyGcValidateUnlocked: a remembered address is a slot of an object that  *)
(* is in the tenured space or large; marking and forwarding go through it. *)
(* Between collections the remembered set holds every such slot that       *)
(* refers to the nursery: a minor collection marks from it instead of      *)
(* scanning the tenured space.                                             *)
RememberedExact ==
  LET old == {s \in Slots(gc) : s[1] \in Old(gc)}
  IN  /\ gc.remembered \subseteq {Addr(s) : s \in old}
      /\ Tracks => \A s \in old :
           PointsToNursery(gc, RefIn(gc, s).ptr) => Addr(s) \in gc.remembered

(* What the program can reach from its registered root slots *)
Reachable(g) ==
  LET met(S) == Rooted(g) \cup UNION {Refs(g, h) : h \in S}
      closed == {S \in SUBSET DOMAIN g.heap : \A p \in met(S) : IsObject(g, p) => Header(p) \in S}
  IN  {h \in DOMAIN g.heap : \A S \in closed : h \in S}

Denotes(g, ref) ==
  ref.ptr = 0 \/ (IsObject(g, ref.ptr) /\ g.heap[Header(ref.ptr)].id = ref.id)

(* No collection frees or confuses what the program can reach: every       *)
(* reference in a root slot, or in a reachable object, still leads to the  *)
(* object it was made for.                                                 *)
RefsIntact ==
  /\ \A r \in Roots : gc.reg[r] > 0 => Denotes(gc, gc.root[r])
  /\ \A h \in Reachable(gc) : \A i \in DOMAIN gc.heap[h].slots :
       Denotes(gc, gc.heap[h].slots[i])

(* The three ways a collection loses a reference (see README, section 6).  *)
(* A slot that ApplyForwards meets twice, in the root table or as a        *)
(* remembered one, follows a chain of two moves:                           *)
Twice(g, fwd) ==
  LET chained(ref) == ref.ptr \in DOMAIN fwd /\ fwd[ref.ptr] \in DOMAIN fwd
  IN  \/ \E r \in Roots : g.reg[r] > 1 /\ chained(g.root[r])
      \/ \E s \in Slots(g) : Addr(s) \in g.remembered /\ chained(RefIn(g, s))

MinorFault(g) ==
  LET t == Traced(g)
  IN  PromoteFree(t) <= TenuredLimit /\ Twice(PromoteMoved(t), Forwards(PromoteTo(t)))

(* the mark that an earlier collection left on a tenured object stopped    *)
(* the marking there; and what is promoted has no mark for the sweep.      *)
StaleMark(t) ==
  \E h \in Reachable(t) : t.heap[h].marked /\ Unmarked(t, Refs(t, h)) # {}

MajorFault(g) ==
  LET t == Traced(g)
      m == MinorCollect(g)
  IN  \/ MinorFault(g)
      \/ StaleMark(t)
      \/ Promo(t) \cap Reachable(t) # {}
      \/ Twice(SweepMoved(m), Forwards(SweepTo(m)))

(* The collections nyGcAllocSlow makes *)
SlowFault(g, n) ==
  LET m == MinorCollect(g)
  IN  \/ MinorFault(g)
      \/ /\ ~m.aborted /\ AllocFastUnlocked(m, n).obj = 0 /\ AllocTenured(m, n).obj = 0
         /\ MajorFault(m)

Faulty ==
  \/ TriggerMinor /\ MinorFault(gc)
  \/ TriggerMajor /\ MajorFault(gc)
  \/ \E r \in Roots, n \in prog.sizes :
       /\ ~Large(n) /\ SlowFault(gc, n)
       /\ \/ Allocate("slow", r, n)
          \/ Allocate("alloc", r, n) /\ AllocFastUnlocked(gc, n).obj = 0

(* Those three faults are the only ones: every other step, with promotion, *)
(* compaction, large objects and references between all generations, keeps *)
(* RefsIntact.                                                             *)
RefsKept == [][Tracks /\ RefsIntact /\ ~Faulty => RefsIntact']_vars
=============================================================================
