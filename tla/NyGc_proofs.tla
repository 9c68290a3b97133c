----------------------------- MODULE NyGc_proofs -----------------------------
(***************************************************************************)
(* The collector keeps its spaces packed, its remembered set exact and     *)
(* what the program holds, for every number and size of objects and for    *)
(* spaces of any size.                                                     *)
(*                                                                         *)
(* The invariant is GcInv: the spaces are packed (Spaces), what is         *)
(* remembered is a slot of an old object (Listed), old slots into the      *)
(* nursery are remembered (Caught), objects of the nursery have no mark    *)
(* between collections (Fresh), no slot leads to the unused part of the    *)
(* nursery, where the next objects go (Aimed), and a root slot that is not *)
(* registered is empty (Unused).  References are followed through a step   *)
(* by a set of objects that holds all that the program can reach and to    *)
(* which all their references lead (Sound); a collection turns it into its *)
(* image under the moves.                                                  *)
(*                                                                         *)
(* The order of the module: room and sliding; forwarding; the move to      *)
(* other places; promotion, the sweep, allocation and marking, each with   *)
(* what it keeps of the spaces; then the same steps and the remembered     *)
(* set; then what they do to references.                                   *)
(***************************************************************************)
EXTENDS NyGc, FiniteSetTheorems, WellFoundedInduction, TLAPS

(* A set of numbers that is not empty has a least element. *)
LEMMA LeastNat ==
  ASSUME NEW T, T \subseteq Nat, T # {}
  PROVE  \E x \in T : \A y \in T : x <= y
<1>1. PICK x \in T : \A y \in T : ~(<<y, x>> \in OpToRel(<, Nat))
  BY WFMin, NatLessThanWellFounded, Zenon
<1>2. ASSUME NEW y \in T PROVE ~(y < x)
  <2>1. y \in Nat /\ x \in Nat
    OBVIOUS
  <2> QED
    BY <1>1, <2>1, Zenon DEF OpToRel
<1> QED
  BY <1>2

-----------------------------------------------------------------------------
(* How much room objects take up *)

(* Objects of S that do not overlap and end at b or below *)
Apart(g, S, b) ==
  /\ S \subseteq Nat /\ b \in Nat
  /\ \A h \in S : Units(g, h) \in Nat \ {0} /\ h + Units(g, h) <= b
  /\ \A h, k \in S : h < k => h + Units(g, h) <= k

LEMMA Interval ==
  ASSUME NEW a \in Int, NEW n \in Nat
  PROVE  IsFiniteSet(a..(a + n - 1)) /\ Cardinality(a..(a + n - 1)) = n
<1>1. PICK b \in Int : b = a + n - 1
  OBVIOUS
<1>2. IsFiniteSet(a..b) /\ Cardinality(a..b) = IF a > b THEN 0 ELSE b-a+1
  BY FS_Interval
<1> QED BY <1>1, <1>2

LEMMA InExtent ==
  ASSUME NEW g, NEW S, NEW x
  PROVE  x \in Extent(g, S) <=> \E h \in S : x \in h..(h + Units(g, h) - 1)
BY DEF Extent

LEMMA RoomFinite ==
  ASSUME NEW g, NEW S, NEW b, Apart(g, S, b)
  PROVE  IsFiniteSet(Extent(g, S)) /\ Room(g, S) \in Nat
<1>1. Extent(g, S) \subseteq 0..b
  <2> SUFFICES ASSUME NEW x \in Extent(g, S) PROVE x \in 0..b
    OBVIOUS
  <2>1. PICK h \in S : x \in h..(h + Units(g, h) - 1)
    BY InExtent
  <2> QED BY <2>1 DEF Apart
<1>2. IsFiniteSet(0..b)
  BY FS_Interval DEF Apart
<1> QED BY <1>1, <1>2, FS_Subset, FS_CardinalityType DEF Room

LEMMA RoomWithin ==
  ASSUME NEW g, NEW S, NEW b, Apart(g, S, b), NEW a \in Nat, a <= b, \A h \in S : a <= h
  PROVE  Room(g, S) <= b - a
<1>1. PICK n \in Nat : n = b - a
  BY DEF Apart
<1>2. Extent(g, S) \subseteq a..(a + n - 1)
  <2> SUFFICES ASSUME NEW x \in Extent(g, S) PROVE x \in a..(a + n - 1)
    OBVIOUS
  <2>1. PICK h \in S : x \in h..(h + Units(g, h) - 1)
    BY InExtent
  <2> QED BY <1>1, <2>1 DEF Apart
<1> DEFINE I == a..(a + n - 1)
<1>3. IsFiniteSet(I) /\ Cardinality(I) = n
  <2>1. a \in Int
    OBVIOUS
  <2> QED BY <2>1, Interval, Zenon
<1>5. Extent(g, S) \subseteq I
  BY <1>2
<1> HIDE DEF I
<1>4. Cardinality(Extent(g, S)) <= n
  BY <1>3, <1>5, FS_Subset
<1> QED BY <1>1, <1>4 DEF Room

(* One more object, above the others, takes up its own units. *)
LEMMA RoomGrows ==
  ASSUME NEW g, NEW S, NEW x \in Nat, Apart(g, S, x), Units(g, x) \in Nat
  PROVE  Room(g, S \cup {x}) = Room(g, S) + Units(g, x)
<1> DEFINE e == x..(x + Units(g, x) - 1)
<1>1. Extent(g, S \cup {x}) = Extent(g, S) \cup e
  BY DEF Extent
<1>2. Extent(g, S) \cap e = {}
  <2> SUFFICES ASSUME NEW y \in Extent(g, S), y \in e PROVE FALSE
    OBVIOUS
  <2>1. PICK h \in S : y \in h..(h + Units(g, h) - 1)
    BY InExtent
  <2> QED BY <2>1 DEF Apart
<1>3. IsFiniteSet(e) /\ Cardinality(e) = Units(g, x)
  <2>1. x \in Int
    OBVIOUS
  <2> QED BY <2>1, Interval, Zenon
<1>4. IsFiniteSet(Extent(g, S)) /\ Room(g, S) \in Nat
  BY RoomFinite
<1> HIDE DEF e
<1>6. Cardinality(Extent(g, S)) \in Nat
  BY <1>4 DEF Room
<1>5. Cardinality(Extent(g, S) \cup e) = Cardinality(Extent(g, S)) + Cardinality(e) - Cardinality({})
  BY <1>2, <1>3, <1>4, FS_Union
<1> QED BY <1>1, <1>3, <1>5, <1>6, FS_EmptySet DEF Room

LEMMA RoomMore ==
  ASSUME NEW g, NEW S, NEW b, Apart(g, S, b), NEW T \in SUBSET S
  PROVE  Room(g, T) <= Room(g, S)
<1>1. Extent(g, T) \subseteq Extent(g, S)
  BY DEF Extent
<1> QED BY <1>1, RoomFinite, FS_Subset DEF Room

-----------------------------------------------------------------------------
(* The shape of the collector's state *)

IsRef(x) == x \in [ptr : Nat, id : {x.id}]

IsObj(o) ==
  /\ o \in [id : {o.id}, marked : BOOLEAN, age : Nat, slots : {o.slots}]
  /\ Len(o.slots) \in Nat /\ DOMAIN o.slots = 1..Len(o.slots)
  /\ \A i \in DOMAIN o.slots : IsRef(o.slots[i])

IsGc(g) ==
  /\ g \in [heap : {g.heap}, nursery_ptr : Nat, tenured_free : Nat, large : SUBSET LargeAddrs,
            remembered : {g.remembered}, root : {g.root}, reg : [Roots -> 0..MaxReg],
            aborted : BOOLEAN]
  /\ DOMAIN g.heap \subseteq Nat /\ \A h \in DOMAIN g.heap : IsObj(g.heap[h])
  /\ DOMAIN g.root = Roots /\ \A r \in Roots : IsRef(g.root[r])

(* Only heap, marks and slots' contents differ: the same objects, as large and as old *)
SameShape(g, n) ==
  /\ n.nursery_ptr = g.nursery_ptr /\ n.tenured_free = g.tenured_free /\ n.large = g.large
  /\ DOMAIN n.heap = DOMAIN g.heap
  /\ \A h \in DOMAIN g.heap : /\ Len(n.heap[h].slots) = Len(g.heap[h].slots)
                              /\ n.heap[h].age = g.heap[h].age

LEMMA SetHeap ==
  ASSUME NEW g, IsGc(g), NEW x, NEW n, n = [g EXCEPT !.heap = x]
  PROVE  /\ n.heap = x /\ n.nursery_ptr = g.nursery_ptr /\ n.tenured_free = g.tenured_free
         /\ n.large = g.large /\ n.remembered = g.remembered /\ n.root = g.root
         /\ n.reg = g.reg /\ n.aborted = g.aborted
         /\ DOMAIN x \subseteq Nat /\ (\A h \in DOMAIN x : IsObj(x[h])) => IsGc(n)
<1> USE DEF IsGc
<1>1. /\ n.heap = x /\ n.nursery_ptr = g.nursery_ptr /\ n.tenured_free = g.tenured_free
         /\ n.large = g.large /\ n.remembered = g.remembered /\ n.root = g.root
         /\ n.reg = g.reg /\ n.aborted = g.aborted
  OBVIOUS
<1>2. n \in [heap : {x}, nursery_ptr : Nat, tenured_free : Nat, large : SUBSET LargeAddrs,
            remembered : {g.remembered}, root : {g.root}, reg : [Roots -> 0..MaxReg],
            aborted : BOOLEAN]
  OBVIOUS
<1>3. ASSUME DOMAIN x \subseteq Nat, \A h \in DOMAIN x : IsObj(x[h]) PROVE IsGc(n)
  BY <1>1, <1>2, <1>3
<1> QED BY <1>1, <1>3

LEMMA MarkFields ==
  ASSUME NEW g, IsGc(g), NEW ps, NEW n, n = Mark(g, ps)
  PROVE  /\ IsGc(n) /\ SameShape(g, n)
         /\ n.remembered = g.remembered /\ n.root = g.root
         /\ n.reg = g.reg /\ n.aborted = g.aborted
         /\ \A h \in DOMAIN g.heap :
              /\ n.heap[h].slots = g.heap[h].slots /\ n.heap[h].id = g.heap[h].id
              /\ n.heap[h].marked <=> (g.heap[h].marked \/ h \in Marked(g, ps))
<1> DEFINE f == [h \in DOMAIN g.heap |-> [g.heap[h] EXCEPT !.marked = @ \/ h \in Marked(g, ps)]]
<1>1. n = [g EXCEPT !.heap = f]
  BY DEF Mark, IsGc
<1>2. ASSUME NEW h \in DOMAIN g.heap
      PROVE  /\ IsObj(f[h]) /\ f[h].slots = g.heap[h].slots /\ f[h].id = g.heap[h].id
             /\ f[h].age = g.heap[h].age
             /\ f[h].marked <=> (g.heap[h].marked \/ h \in Marked(g, ps))
  <2>1. f[h] = [g.heap[h] EXCEPT !.marked = @ \/ h \in Marked(g, ps)]
    OBVIOUS
  <2>2. IsObj(g.heap[h])
    BY DEF IsGc
  <2> HIDE DEF f
  <2> QED BY <2>1, <2>2 DEF IsObj
<1>3. DOMAIN f = DOMAIN g.heap
  OBVIOUS
<1> HIDE DEF f
<1> QED BY <1>1, <1>2, <1>3, SetHeap DEF SameShape, IsGc

-----------------------------------------------------------------------------
(* Forwarding a reference several times *)

IsTimes(f, fwd, ref, n) ==
  f = [k \in 0..n |-> IF k = 0 THEN ref ELSE Forward(fwd, f[k - 1])]

LEMMA TimesExist ==
  ASSUME NEW fwd, NEW ref, NEW n \in Nat
  PROVE  \E f : IsTimes(f, fwd, ref, n)
<1> DEFINE T == {m \in Nat : ~ \E f : IsTimes(f, fwd, ref, m)}
<1> SUFFICES ASSUME T # {} PROVE FALSE
  OBVIOUS
<1>1. PICK m \in T : \A y \in T : m <= y
  BY LeastNat
<1>2. CASE m = 0
  <2>1. IsTimes([k \in 0..0 |-> ref], fwd, ref, 0)
    BY DEF IsTimes
  <2> QED BY <1>2, <2>1
<1>3. CASE m # 0
  <2>1. m - 1 \in Nat /\ m - 1 \notin T
    BY <1>1, <1>3
  <2>2. PICK f : IsTimes(f, fwd, ref, m - 1)
    BY <2>1
  <2> DEFINE e == [k \in 0..m |-> IF k = 0 THEN ref ELSE Forward(fwd, f[k - 1])]
  <2>3. ASSUME NEW k \in 0..m PROVE e[k] = IF k = 0 THEN ref ELSE Forward(fwd, e[k - 1])
    <3>1. CASE k = 0
      BY <3>1
    <3>2. CASE k # 0
      <4>1. k - 1 \in 0..(m - 1) /\ k - 1 \in 0..m
        BY <3>2
      <4>2. e[k - 1] = f[k - 1]
        BY <2>2, <4>1 DEF IsTimes
      <4> QED BY <3>2, <4>2
    <3> QED BY <3>1, <3>2
  <2>4. e = [k \in 0..m |-> IF k = 0 THEN ref ELSE Forward(fwd, e[k - 1])]
    <3>1. e = [k \in 0..m |-> e[k]]
      OBVIOUS
    <3> HIDE DEF e
    <3> QED BY <2>3, <3>1
  <2>5. IsTimes(e, fwd, ref, m)
    <3> HIDE DEF e
    <3> QED BY <2>4 DEF IsTimes
  <2> QED BY <2>5
<1> QED BY <1>2, <1>3

(* A set of references that forwarding does not leave is not left by       *)
(* forwarding any number of times.                                         *)
LEMMA TimesStay ==
  ASSUME NEW fwd, NEW ref, NEW n \in Nat, NEW C, ref \in C, \A x \in C : Forward(fwd, x) \in C
  PROVE  ForwardTimes(fwd, ref, n) \in C
<1> DEFINE f == CHOOSE e : IsTimes(e, fwd, ref, n)
<1>1. IsTimes(f, fwd, ref, n)
  BY TimesExist
<1>2. ForwardTimes(fwd, ref, n) = f[n]
  BY DEF ForwardTimes, IsTimes
<1> HIDE DEF f
<1> DEFINE T == {k \in 0..n : f[k] \notin C}
<1> SUFFICES ASSUME T # {} PROVE FALSE
  BY <1>2
<1>3. T \subseteq Nat
  OBVIOUS
<1>4. PICK k \in T : \A y \in T : k <= y
  BY <1>3, LeastNat
<1>5. f[k] = IF k = 0 THEN ref ELSE Forward(fwd, f[k - 1])
  BY <1>1 DEF IsTimes
<1>6. k # 0
  BY <1>5
<1>7. k - 1 \in 0..n /\ k - 1 \notin T
  BY <1>4, <1>6
<1> QED BY <1>5, <1>6, <1>7

LEMMA TimesOnce ==
  ASSUME NEW fwd, NEW ref
  PROVE  ForwardTimes(fwd, ref, 1) = Forward(fwd, ref) /\ ForwardTimes(fwd, ref, 0) = ref
<1>1. ASSUME NEW n \in {0, 1}
      PROVE  ForwardTimes(fwd, ref, n) = IF n = 0 THEN ref ELSE Forward(fwd, ref)
  <2> DEFINE f == CHOOSE e : IsTimes(e, fwd, ref, n)
  <2>1. n \in Nat
    OBVIOUS
  <2>2. IsTimes(f, fwd, ref, n)
    BY <2>1, TimesExist
  <2>3. ForwardTimes(fwd, ref, n) = f[n]
    BY DEF ForwardTimes, IsTimes
  <2> HIDE DEF f
  <2>4. f[0] = ref
    BY <2>1, <2>2 DEF IsTimes
  <2>5. n = 1 => f[1] = Forward(fwd, f[0])
    BY <2>1, <2>2 DEF IsTimes
  <2> QED BY <2>3, <2>4, <2>5
<1> QED BY <1>1

(* Forwarding keeps identities. *)
LEMMA TimesRef ==
  ASSUME NEW fwd, \A p \in DOMAIN fwd : fwd[p] \in Nat, NEW ref, IsRef(ref), NEW n \in Nat
  PROVE  IsRef(ForwardTimes(fwd, ref, n)) /\ ForwardTimes(fwd, ref, n).id = ref.id
<1> DEFINE C == [ptr : Nat, id : {ref.id}]
<1>1. ref \in C
  BY DEF IsRef
<1>2. ASSUME NEW x \in C PROVE Forward(fwd, x) \in C
  <2>1. CASE x.ptr \in DOMAIN fwd
    <3>1. Forward(fwd, x) = [x EXCEPT !.ptr = fwd[x.ptr]]
      BY <2>1 DEF Forward
    <3> QED BY <2>1, <3>1
  <2>2. CASE x.ptr \notin DOMAIN fwd
    BY <2>2 DEF Forward
  <2> QED BY <2>1, <2>2
<1>3. ForwardTimes(fwd, ref, n) \in C
  <2> HIDE DEF C
  <2> QED BY <1>1, <1>2, TimesStay
<1> QED BY <1>3 DEF IsRef

LEMMA TimesReach ==
  ASSUME NEW fwd, NEW ref, NEW n \in Nat \ {0}, NEW C, Forward(fwd, ref) \in C,
         \A x \in C : Forward(fwd, x) \in C
  PROVE  ForwardTimes(fwd, ref, n) \in C
<1> DEFINE f == CHOOSE e : IsTimes(e, fwd, ref, n)
<1>1. IsTimes(f, fwd, ref, n)
  BY TimesExist
<1>2. ForwardTimes(fwd, ref, n) = f[n]
  BY DEF ForwardTimes, IsTimes
<1> HIDE DEF f
<1> DEFINE T == {k \in 1..n : f[k] \notin C}
<1> SUFFICES ASSUME T # {} PROVE FALSE
  BY <1>2
<1>3. T \subseteq Nat
  OBVIOUS
<1>4. PICK k \in T : \A y \in T : k <= y
  BY <1>3, LeastNat
<1>5. k \in 0..n /\ 0 \in 0..n /\ k # 0
  OBVIOUS
<1>6. f[k] = Forward(fwd, f[k - 1]) /\ f[0] = ref
  BY <1>1, <1>5 DEF IsTimes
<1>7. k # 1
  BY <1>6
<1>8. k - 1 \in 1..n /\ k - 1 \notin T
  BY <1>4, <1>7
<1> QED BY <1>6, <1>8

-----------------------------------------------------------------------------
(* What the collector's parts do, field by field *)

LEMMA ClearFields ==
  ASSUME NEW g, IsGc(g), NEW n, n = ClearLargeMarks(g)
  PROVE  /\ IsGc(n) /\ SameShape(g, n)
         /\ n.remembered = g.remembered /\ n.root = g.root
         /\ n.reg = g.reg /\ n.aborted = g.aborted
         /\ \A h \in DOMAIN g.heap :
              /\ n.heap[h].slots = g.heap[h].slots /\ n.heap[h].id = g.heap[h].id
              /\ n.heap[h].marked <=> (g.heap[h].marked /\ h \notin g.large)
<1> DEFINE f == [h \in DOMAIN g.heap |->
                   IF h \in g.large THEN [g.heap[h] EXCEPT !.marked = FALSE] ELSE g.heap[h]]
<1>1. n = [g EXCEPT !.heap = f]
  BY DEF ClearLargeMarks, IsGc
<1>2. ASSUME NEW h \in DOMAIN g.heap
      PROVE  /\ IsObj(f[h]) /\ f[h].slots = g.heap[h].slots /\ f[h].id = g.heap[h].id
             /\ f[h].age = g.heap[h].age
             /\ f[h].marked <=> (g.heap[h].marked /\ h \notin g.large)
  <2>1. f[h] = IF h \in g.large THEN [g.heap[h] EXCEPT !.marked = FALSE] ELSE g.heap[h]
    OBVIOUS
  <2>2. IsObj(g.heap[h])
    BY DEF IsGc
  <2> HIDE DEF f
  <2>3. CASE h \in g.large
    BY <2>1, <2>2, <2>3 DEF IsObj
  <2>4. CASE h \notin g.large
    BY <2>1, <2>2, <2>4
  <2> QED BY <2>3, <2>4
<1>3. DOMAIN f = DOMAIN g.heap
  OBVIOUS
<1> HIDE DEF f
<1> QED BY <1>1, <1>2, <1>3, SetHeap DEF SameShape, IsGc

LEMMA RebuildFields ==
  ASSUME NEW g, IsGc(g), NEW n, n = RebuildRemembered(g)
  PROVE  /\ IsGc(n) /\ SameShape(g, n) /\ n.heap = g.heap
         /\ n.root = g.root /\ n.reg = g.reg /\ n.aborted = g.aborted
         /\ n.remembered = {Addr(s) : s \in {t \in Slots(g) : 
                              t[1] \in Old(g) /\ PointsToNursery(g, RefIn(g, t).ptr)}}
<1> DEFINE x == {Addr(s) : s \in {t \in Slots(g) :
                              t[1] \in Old(g) /\ PointsToNursery(g, RefIn(g, t).ptr)}}
<1>1. n = [g EXCEPT !.remembered = x]
  BY DEF RebuildRemembered
<1> HIDE DEF x
<1>2. /\ n.remembered = x /\ n.nursery_ptr = g.nursery_ptr /\ n.tenured_free = g.tenured_free
      /\ n.large = g.large /\ n.heap = g.heap /\ n.root = g.root
      /\ n.reg = g.reg /\ n.aborted = g.aborted
  BY <1>1 DEF IsGc
<1>3. n \in [heap : {g.heap}, nursery_ptr : Nat, tenured_free : Nat, large : SUBSET LargeAddrs,
            remembered : {x}, root : {g.root}, reg : [Roots -> 0..MaxReg], aborted : BOOLEAN]
  BY <1>1 DEF IsGc
<1>4. IsGc(n)
  BY <1>2, <1>3 DEF IsGc
<1> QED BY <1>2, <1>4 DEF SameShape, x

LEMMA LenOf ==
  ASSUME NEW n \in Nat, NEW f, DOMAIN f = 1..n, f = [i \in 1..n |-> f[i]]
  PROVE  Len(f) = n
<1> DEFINE S == {f[i] : i \in 1..n}
<1>1. f \in [1..n -> S]
  OBVIOUS
<1> HIDE DEF S
<1>2. f \in Seq(S)
  BY <1>1
<1> QED BY <1>2

(* How often ApplyForwards forwards a slot *)
Times(remembered, h, i) == IF Addr(<<h, i>>) \in remembered THEN 2 ELSE 1

LEMMA ApplyFields ==
  ASSUME NEW g, IsGc(g), NEW fwd, \A p \in DOMAIN fwd : fwd[p] \in Nat,
         NEW n, n = ApplyForwards(g, fwd)
  PROVE  /\ IsGc(n) /\ SameShape(g, n)
         /\ n.remembered = g.remembered /\ n.reg = g.reg /\ n.aborted = g.aborted
         /\ \A r \in Roots : n.root[r] = ForwardTimes(fwd, g.root[r], g.reg[r])
         /\ \A h \in DOMAIN g.heap :
              /\ n.heap[h].marked = g.heap[h].marked /\ n.heap[h].id = g.heap[h].id
              /\ DOMAIN n.heap[h].slots = DOMAIN g.heap[h].slots
              /\ \A i \in DOMAIN g.heap[h].slots :
                   n.heap[h].slots[i] = ForwardTimes(fwd, g.heap[h].slots[i],
                                                     Times(g.remembered, h, i))
<1> DEFINE t(h, i) == Times(g.remembered, h, i)
           o(h) == [i \in DOMAIN g.heap[h].slots |-> ForwardTimes(fwd, g.heap[h].slots[i], t(h, i))]
           f == [h \in DOMAIN g.heap |-> [g.heap[h] EXCEPT !.slots = o(h)]]
           z == [r \in Roots |-> ForwardTimes(fwd, g.root[r], g.reg[r])]
<1>1. n = [g EXCEPT !.root = z, !.heap = f]
  BY DEF ApplyForwards, Times
<1>2. ASSUME NEW h \in DOMAIN g.heap
      PROVE  /\ IsObj(f[h]) /\ f[h].id = g.heap[h].id /\ f[h].marked = g.heap[h].marked
             /\ f[h].age = g.heap[h].age /\ Len(f[h].slots) = Len(g.heap[h].slots)
             /\ DOMAIN f[h].slots = DOMAIN g.heap[h].slots
             /\ \A i \in DOMAIN g.heap[h].slots :
                  f[h].slots[i] = ForwardTimes(fwd, g.heap[h].slots[i], t(h, i))
  <2>2. IsObj(g.heap[h])
    BY DEF IsGc
  <2> DEFINE l == Len(g.heap[h].slots)
  <2>3. l \in Nat /\ DOMAIN g.heap[h].slots = 1..l
    BY <2>2 DEF IsObj
  <2> DEFINE s == o(h)
  <2>4. DOMAIN s = 1..l /\ s = [i \in 1..l |-> s[i]]
    BY <2>3
  <2>5. \A i \in DOMAIN g.heap[h].slots : s[i] = ForwardTimes(fwd, g.heap[h].slots[i], t(h, i))
    OBVIOUS
  <2>1. f[h] = [g.heap[h] EXCEPT !.slots = s]
    OBVIOUS
  <2> HIDE DEF f, s, l
  <2>6. Len(s) = l
    BY <2>3, <2>4, LenOf
  <2>7. ASSUME NEW i \in 1..l PROVE IsRef(s[i])
    <3>1. IsRef(g.heap[h].slots[i])
      BY <2>2, <2>3 DEF IsObj
    <3>2. t(h, i) \in Nat
      BY DEF Times
    <3> HIDE DEF t
    <3>3. s[i] = ForwardTimes(fwd, g.heap[h].slots[i], t(h, i))
      BY <2>3, <2>5
    <3> QED BY <3>1, <3>2, <3>3, TimesRef
  <2>8. f[h] \in [id : {g.heap[h].id}, marked : BOOLEAN, age : Nat, slots : {s}]
    BY <2>1, <2>2 DEF IsObj
  <2>9. f[h].slots = s /\ f[h].id = g.heap[h].id /\ f[h].marked = g.heap[h].marked
             /\ f[h].age = g.heap[h].age
    BY <2>1, <2>2 DEF IsObj
  <2>10. IsObj(f[h])
    BY <2>3, <2>4, <2>6, <2>7, <2>8, <2>9 DEF IsObj
  <2> QED BY <2>3, <2>4, <2>5, <2>6, <2>9, <2>10 DEF l
<1>3. DOMAIN f = DOMAIN g.heap
  OBVIOUS
<1>4. \A r \in Roots : z[r] = ForwardTimes(fwd, g.root[r], g.reg[r])
  OBVIOUS
<1>5. DOMAIN z = Roots
  OBVIOUS
<1>6. ASSUME NEW r \in Roots PROVE IsRef(z[r])
  <2>1. IsRef(g.root[r]) /\ g.reg[r] \in Nat
    BY DEF IsGc
  <2> QED BY <2>1, <1>4, TimesRef
<1> HIDE DEF f, z
<1>7. /\ n.heap = f /\ n.root = z /\ n.nursery_ptr = g.nursery_ptr
      /\ n.tenured_free = g.tenured_free /\ n.large = g.large
      /\ n.remembered = g.remembered /\ n.reg = g.reg /\ n.aborted = g.aborted
  BY <1>1 DEF IsGc
<1>8. n \in [heap : {f}, nursery_ptr : Nat, tenured_free : Nat, large : SUBSET LargeAddrs,
            remembered : {g.remembered}, root : {z}, reg : [Roots -> 0..MaxReg],
            aborted : BOOLEAN]
  BY <1>1 DEF IsGc
<1>9. DOMAIN g.heap \subseteq Nat
  BY DEF IsGc
<1>10. IsGc(n)
  BY <1>2, <1>3, <1>5, <1>6, <1>7, <1>8, <1>9 DEF IsGc
<1> QED BY <1>2, <1>3, <1>4, <1>7, <1>10 DEF SameShape

-----------------------------------------------------------------------------
(* The spaces *)

LEMMA Limits ==
  ASSUME prog \in Programs
  PROVE  /\ NurseryStart = 1 /\ Off = 1
         /\ NurseryLimit \in Nat /\ TenuredStart \in Nat /\ TenuredLimit \in Nat
         /\ NurseryStart <= NurseryLimit /\ NurseryLimit < TenuredStart
         /\ TenuredStart <= TenuredLimit /\ TenuredStart = NurseryLimit + 1
         /\ \A a \in LargeAddrs : a \in Nat /\ TenuredLimit < a
         /\ PromotionAge \in Nat \ {0}
         /\ prog.sizes \subseteq Nat /\ prog.nursery \in Nat
         /\ NurseryLimit = 1 + prog.nursery
<1>1. /\ prog.nursery \in Nat /\ prog.tenured \in Nat /\ prog.sizes # {} /\ LargeAddrs \subseteq Nat
      /\ prog.sizes \subseteq Nat
  BY ClientAssumption, SpacesAssumption
<1>2. PICK n \in prog.sizes : TRUE
  BY <1>1
<1>3. \A a \in LargeAddrs : a > NurseryStart + prog.nursery + 1 + prog.tenured
  BY <1>2, LargeAssumption, Zenon
<1>4. PromotionAge \in Nat \ {0}
  BY SpacesAssumption
<1> QED
  BY <1>1, <1>3, <1>4
     DEF NurseryStart, NurseryLimit, TenuredStart, TenuredLimit, Off

Spaces(g) ==
  /\ Packed(g, Young(g), NurseryStart, g.nursery_ptr, NurseryLimit)
  /\ Packed(g, Tenured(g), TenuredStart, g.tenured_free, TenuredLimit)
  /\ DOMAIN g.heap = Young(g) \cup Old(g)
  /\ \A h \in DOMAIN g.heap : g.heap[h].age = PromotionAge <=> h \in Old(g)

LEMMA UnitsOf ==
  ASSUME NEW g, IsGc(g), NEW h \in DOMAIN g.heap
  PROVE  Units(g, h) \in Nat \ {0} /\ h \in Nat /\ Units(g, h) = 1 + Len(g.heap[h].slots)
<1>1. Len(g.heap[h].slots) \in Nat /\ h \in Nat
  BY DEF IsGc, IsObj
<1> QED BY <1>1 DEF Units, Total, Off

LEMMA SameUnits ==
  ASSUME NEW g, NEW n, SameShape(g, n)
  PROVE  /\ DOMAIN n.heap = DOMAIN g.heap
         /\ \A h \in DOMAIN g.heap : Units(n, h) = Units(g, h)
         /\ Young(n) = Young(g) /\ Tenured(n) = Tenured(g) /\ Old(n) = Old(g)
<1>1. \A h \in DOMAIN g.heap : Units(n, h) = Units(g, h)
  BY DEF SameShape, Units
<1>2. Young(n) = Young(g)
  BY DEF SameShape, Young
<1>3. Tenured(n) = Tenured(g)
  BY DEF SameShape, Tenured
<1>4. Old(n) = Old(g)
  BY <1>3 DEF SameShape, Old
<1> QED BY <1>1, <1>2, <1>3, <1>4 DEF SameShape

LEMMA SpacesSame ==
  ASSUME NEW g, NEW n, Spaces(g), SameShape(g, n)
  PROVE  Spaces(n)
<1>1. /\ DOMAIN n.heap = DOMAIN g.heap
      /\ \A h \in DOMAIN g.heap : Units(n, h) = Units(g, h)
      /\ Young(n) = Young(g) /\ Tenured(n) = Tenured(g) /\ Old(n) = Old(g)
  BY SameUnits
<1>2. Young(g) \subseteq DOMAIN g.heap /\ Tenured(g) \subseteq DOMAIN g.heap
  BY DEF Young, Tenured
<1>3. Packed(n, Young(n), NurseryStart, n.nursery_ptr, NurseryLimit)
  <2>1. n.nursery_ptr = g.nursery_ptr
    BY DEF SameShape
  <2>2. \A h \in Young(g) : Units(n, h) = Units(g, h)
    BY <1>1, <1>2
  <2> QED BY <1>1, <2>1, <2>2 DEF Spaces, Packed
<1>4. Packed(n, Tenured(n), TenuredStart, n.tenured_free, TenuredLimit)
  <2>1. n.tenured_free = g.tenured_free
    BY DEF SameShape
  <2>2. \A h \in Tenured(g) : Units(n, h) = Units(g, h)
    BY <1>1, <1>2
  <2> QED BY <1>1, <2>1, <2>2 DEF Spaces, Packed
<1>5. \A h \in DOMAIN n.heap : n.heap[h].age = PromotionAge <=> h \in Old(n)
  BY <1>1 DEF Spaces, SameShape
<1> QED BY <1>1, <1>3, <1>4, <1>5 DEF Spaces

(* Where the objects of a well laid out heap are *)
LEMMA Where ==
  ASSUME prog \in Programs, NEW g, IsGc(g), Spaces(g)
  PROVE  /\ Apart(g, Young(g), g.nursery_ptr) /\ Apart(g, Tenured(g), g.tenured_free)
         /\ NurseryStart <= g.nursery_ptr /\ g.nursery_ptr <= NurseryLimit
         /\ TenuredStart <= g.tenured_free /\ g.tenured_free <= TenuredLimit
         /\ g.nursery_ptr \in Nat /\ g.tenured_free \in Nat
         /\ Young(g) \subseteq DOMAIN g.heap /\ Tenured(g) \subseteq DOMAIN g.heap
         /\ g.large \subseteq DOMAIN g.heap /\ g.large \subseteq LargeAddrs
         /\ \A h \in Young(g) : NurseryStart <= h /\ h < g.nursery_ptr
         /\ \A h \in Tenured(g) : TenuredStart <= h /\ h < g.tenured_free
<1>1. Young(g) \subseteq DOMAIN g.heap /\ Tenured(g) \subseteq DOMAIN g.heap
      /\ g.large \subseteq DOMAIN g.heap /\ g.large \subseteq LargeAddrs
      /\ g.nursery_ptr \in Nat /\ g.tenured_free \in Nat
  BY DEF Young, Tenured, Spaces, Old, IsGc
<1>2. \A h \in Young(g) : NurseryStart <= h /\ h < g.nursery_ptr
  BY DEF Young
<1>3. \A h \in Tenured(g) : TenuredStart <= h /\ h < g.tenured_free
  BY DEF Tenured
<1>4. ASSUME NEW S \in SUBSET DOMAIN g.heap, NEW a, NEW b \in Nat, NEW l,
             Packed(g, S, a, b, l), \A h \in S : h < b
      PROVE  Apart(g, S, b)
  <2>1. S \subseteq Nat /\ \A h \in S : Units(g, h) \in Nat \ {0}
    BY UnitsOf
  <2>2. ASSUME NEW h \in S PROVE h + Units(g, h) <= b
    <3>1. h + Units(g, h) \in S \cup {b}
      BY <1>4 DEF Packed
    <3> QED BY <1>4, <2>1, <3>1
  <2> QED BY <1>4, <2>1, <2>2 DEF Apart, Packed
<1>5. Apart(g, Young(g), g.nursery_ptr)
  BY <1>1, <1>2, <1>4 DEF Spaces
<1>6. Apart(g, Tenured(g), g.tenured_free)
  BY <1>1, <1>3, <1>4 DEF Spaces
<1>7. NurseryStart \in Young(g) \cup {g.nursery_ptr} /\ TenuredStart \in Tenured(g) \cup {g.tenured_free}
      /\ g.nursery_ptr <= NurseryLimit /\ g.tenured_free <= TenuredLimit
  BY DEF Spaces, Packed
<1>8. NurseryStart <= g.nursery_ptr /\ TenuredStart <= g.tenured_free
  BY <1>1, <1>2, <1>3, <1>7, Limits
<1> QED BY <1>1, <1>2, <1>3, <1>5, <1>6, <1>7, <1>8

-----------------------------------------------------------------------------
(* Sliding down keeps the order and leaves no gap. *)

LEMMA SlideEnd ==
  ASSUME NEW g, NEW K, NEW b, Apart(g, K, b), NEW start \in Nat, NEW h \in K
  PROVE  /\ Slid(g, K, start, h) \in Nat /\ start <= Slid(g, K, start, h)
         /\ Slid(g, K, start, h) + Units(g, h) = start + Room(g, {k \in K : k <= h})
         /\ Slid(g, K, start, h) + Units(g, h) <= start + Room(g, K)
<1> DEFINE S == {k \in K : k < h}
<1>1. Apart(g, S, h) /\ h \in Nat /\ Units(g, h) \in Nat
  BY DEF Apart
<1>2. Room(g, S) \in Nat
  BY <1>1, RoomFinite
<1>3. Room(g, S \cup {h}) = Room(g, S) + Units(g, h)
  BY <1>1, RoomGrows
<1>4. S \cup {h} = {k \in K : k <= h} /\ S \cup {h} \subseteq K
  <2>1. \A k \in K : k \in Nat
    BY DEF Apart
  <2>2. \A k \in K : k <= h <=> k < h \/ k = h
    BY <2>1
  <2> QED BY <2>2
<1>5. Room(g, S \cup {h}) <= Room(g, K)
  BY <1>4, RoomMore
<1>6. Room(g, K) \in Nat
  BY RoomFinite
<1>7. Slid(g, K, start, h) = start + Room(g, S)
  BY DEF Slid
<1> HIDE DEF S
<1> QED BY <1>1, <1>2, <1>3, <1>4, <1>5, <1>6, <1>7

LEMMA SlideOrder ==
  ASSUME NEW g, NEW K, NEW b, Apart(g, K, b), NEW start \in Nat, NEW h \in K, NEW k \in K, h < k
  PROVE  Slid(g, K, start, h) + Units(g, h) <= Slid(g, K, start, k)
<1> DEFINE S == {j \in K : j <= h}
           T == {j \in K : j < k}
<1>1. S \subseteq T
  <2>1. K \subseteq Nat
    BY DEF Apart
  <2>2. \A j \in K : j <= h => j < k
    BY <2>1
  <2> QED BY <2>2
<1>2. Apart(g, T, k)
  BY DEF Apart
<1>3. Room(g, S) <= Room(g, T)
  BY <1>1, <1>2, RoomMore
<1>4. Apart(g, S, b)
  BY DEF Apart
<1>5. Room(g, S) \in Nat /\ Room(g, T) \in Nat
  BY <1>2, <1>4, RoomFinite
<1>6. Slid(g, K, start, h) + Units(g, h) = start + Room(g, S)
  BY SlideEnd
<1>7. Slid(g, K, start, k) = start + Room(g, T)
  BY DEF Slid
<1> HIDE DEF S, T
<1> QED BY <1>3, <1>5, <1>6, <1>7

LEMMA NoRoom ==
  ASSUME NEW g
  PROVE  Room(g, {}) = 0
<1>1. Extent(g, {}) = {}
  BY DEF Extent
<1> QED BY <1>1, FS_EmptySet DEF Room

LEMMA SlideFirst ==
  ASSUME NEW g, NEW K, NEW b, Apart(g, K, b), NEW start \in Nat
  PROVE  start \in {Slid(g, K, start, h) : h \in K} \cup {start + Room(g, K)}
<1>1. CASE K = {}
  BY <1>1, NoRoom
<1>2. CASE K # {}
  <2>1. PICK h \in K : \A k \in K : h <= k
    BY <1>2, LeastNat DEF Apart
  <2>2. {k \in K : k < h} = {}
    <3>1. K \subseteq Nat
      BY DEF Apart
    <3>2. \A k \in K : ~(k < h)
      BY <2>1, <3>1
    <3> QED BY <3>2
  <2>3. Slid(g, K, start, h) = start + 0
    BY <2>2, NoRoom DEF Slid
  <2> QED BY <2>3
<1> QED BY <1>1, <1>2

LEMMA SlideNext ==
  ASSUME NEW g, NEW K, NEW b, Apart(g, K, b), NEW start \in Nat, NEW h \in K
  PROVE  Slid(g, K, start, h) + Units(g, h)
           \in {Slid(g, K, start, k) : k \in K} \cup {start + Room(g, K)}
<1> DEFINE T == {k \in K : h < k}
<1>1. Slid(g, K, start, h) + Units(g, h) = start + Room(g, {k \in K : k <= h})
  BY SlideEnd
<1>2. CASE T = {}
  <2>1. {k \in K : k <= h} = K
    <3>1. K \subseteq Nat
      BY DEF Apart
    <3>2. \A k \in K : ~(h < k)
      BY <1>2
    <3>3. \A k \in K : k <= h
      BY <3>1, <3>2
    <3> QED BY <3>3
  <2> QED BY <1>1, <2>1
<1>3. CASE T # {}
  <2>1. T \subseteq Nat
    BY DEF Apart
  <2>2. PICK k \in T : \A j \in T : k <= j
    BY <1>3, <2>1, LeastNat
  <2>3. {j \in K : j < k} = {j \in K : j <= h}
    <3>1. K \subseteq Nat /\ k \in K /\ h < k
      BY DEF Apart
    <3>2. \A j \in K : h < j => k <= j
      BY <2>2
    <3>3. \A j \in K : j < k <=> j <= h
      BY <3>1, <3>2
    <3> QED BY <3>3
  <2>4. Slid(g, K, start, k) = start + Room(g, {j \in K : j <= h})
    BY <2>3 DEF Slid
  <2> QED BY <1>1, <2>4
<1> QED BY <1>2, <1>3

-----------------------------------------------------------------------------
(* Promotion *)

LEMMA MovedAt ==
  ASSUME NEW g, NEW gone, NEW to, NEW as, NEW D, DOMAIN to = D,
         \A h, k \in D : to[h] = to[k] => h = k
  PROVE  /\ \A a : a \in DOMAIN Moved(g, gone, to, as)
                    <=> a \in DOMAIN g.heap \ gone \/ \E h \in D : a = to[h]
         /\ \A h \in D : Moved(g, gone, to, as)[to[h]] = as[h]
         /\ \A a \in DOMAIN g.heap \ gone :
              (\A h \in D : a # to[h]) => Moved(g, gone, to, as)[a] = g.heap[a]
<1> DEFINE image == {to[h] : h \in D}
           from(a) == CHOOSE h \in D : to[h] = a
           m == Moved(g, gone, to, as)
<1>1. m = [a \in (DOMAIN g.heap \ gone) \cup image |->
             IF a \in image THEN as[from(a)] ELSE g.heap[a]]
  BY DEF Moved
<1>2. ASSUME NEW h \in D PROVE from(to[h]) = h
  OBVIOUS
<1>3. \A h \in D : to[h] \in image
  OBVIOUS
<1> HIDE DEF image, from, m
<1>4. \A h \in D : m[to[h]] = as[h]
  BY <1>1, <1>2, <1>3
<1>5. \A a : a \in DOMAIN m <=> a \in DOMAIN g.heap \ gone \/ a \in image
  BY <1>1
<1>6. \A a \in DOMAIN g.heap \ gone : a \notin image => m[a] = g.heap[a]
  BY <1>1
<1>7. \A a : a \in image <=> \E h \in D : a = to[h]
  BY DEF image
<1> QED BY <1>4, <1>5, <1>6, <1>7 DEF m

PromoteEnd(g) == NurseryStart + Room(g, Stay(g))

LEMMA PromoteIs ==
  ASSUME NEW g
  PROVE  PromoteSurvivors(g) = IF PromoteFree(g) > TenuredLimit THEN [g EXCEPT !.aborted = TRUE]
                               ELSE ApplyForwards(PromoteMoved(g), Forwards(PromoteTo(g)))
BY DEF PromoteSurvivors

LEMMA PromoteLayout ==
  ASSUME prog \in Programs, NEW g, IsGc(g), Spaces(g)
  PROVE  /\ PromoteEnd(g) \in Nat /\ NurseryStart <= PromoteEnd(g) /\ PromoteEnd(g) <= g.nursery_ptr
         /\ PromoteFree(g) \in Nat /\ g.tenured_free <= PromoteFree(g)
         /\ Apart(g, Stay(g), g.nursery_ptr) /\ Apart(g, Promo(g), g.nursery_ptr)
         /\ \A h \in Stay(g) : /\ PromoteTo(g)[h] = Slid(g, Stay(g), NurseryStart, h)
                               /\ PromoteTo(g)[h] \in Nat /\ NurseryStart <= PromoteTo(g)[h]
                               /\ PromoteTo(g)[h] + Units(g, h) <= PromoteEnd(g) /\ PromoteTo(g)[h] < PromoteEnd(g)
         /\ \A h \in Promo(g) : /\ PromoteTo(g)[h] = Slid(g, Promo(g), g.tenured_free, h)
                                /\ PromoteTo(g)[h] \in Nat /\ g.tenured_free <= PromoteTo(g)[h]
                                /\ PromoteTo(g)[h] + Units(g, h) <= PromoteFree(g) /\ PromoteTo(g)[h] < PromoteFree(g)
         /\ \A h, k \in Live(g) : PromoteTo(g)[h] = PromoteTo(g)[k] => h = k
<1> DEFINE np == g.nursery_ptr
           tf == g.tenured_free
<1>1. Live(g) \subseteq Young(g) /\ Stay(g) \subseteq Live(g) /\ Promo(g) \subseteq Live(g)
      /\ Live(g) = Stay(g) \cup Promo(g) /\ Stay(g) \cap Promo(g) = {}
  BY DEF Live, Stay, Promo
<1>2. Apart(g, Young(g), np) /\ np \in Nat /\ tf \in Nat /\ NurseryStart <= np /\ np <= NurseryLimit
      /\ TenuredStart <= tf /\ \A h \in Young(g) : NurseryStart <= h
  BY Where
<1>3. Apart(g, Stay(g), np) /\ Apart(g, Promo(g), np)
  <2>1. ASSUME NEW S \in SUBSET Young(g) PROVE Apart(g, S, np)
    BY <1>2 DEF Apart
  <2> QED BY <1>1, <2>1
<1>4. Room(g, Stay(g)) \in Nat /\ Room(g, Promo(g)) \in Nat
  BY <1>3, RoomFinite
<1>5. NurseryStart \in Nat /\ NurseryStart = 1 /\ NurseryLimit \in Nat /\ TenuredStart \in Nat
      /\ NurseryLimit < TenuredStart
  BY Limits
<1>6. Room(g, Stay(g)) <= np - NurseryStart
  <2>1. \A h \in Stay(g) : NurseryStart <= h
    BY <1>1, <1>2
  <2> QED BY <1>2, <1>3, <1>5, <2>1, RoomWithin
<1>7. PromoteEnd(g) \in Nat /\ NurseryStart <= PromoteEnd(g) /\ PromoteEnd(g) <= np
  BY <1>2, <1>4, <1>5, <1>6 DEF PromoteEnd
<1>8. PromoteFree(g) \in Nat /\ tf <= PromoteFree(g)
  BY <1>2, <1>4 DEF PromoteFree
<1>9. ASSUME NEW h \in Stay(g)
      PROVE  /\ PromoteTo(g)[h] = Slid(g, Stay(g), NurseryStart, h)
             /\ PromoteTo(g)[h] \in Nat /\ NurseryStart <= PromoteTo(g)[h]
             /\ PromoteTo(g)[h] + Units(g, h) <= PromoteEnd(g) /\ PromoteTo(g)[h] < PromoteEnd(g)
  <2>1. PromoteTo(g)[h] = Slid(g, Stay(g), NurseryStart, h)
    BY <1>1 DEF PromoteTo
  <2>2. Slid(g, Stay(g), NurseryStart, h) \in Nat /\ NurseryStart <= Slid(g, Stay(g), NurseryStart, h)
        /\ Slid(g, Stay(g), NurseryStart, h) + Units(g, h) <= NurseryStart + Room(g, Stay(g))
    BY <1>3, <1>5, SlideEnd
  <2>3. Units(g, h) \in Nat \ {0}
    BY <1>3 DEF Apart
  <2> QED BY <2>1, <2>2, <2>3, <1>7 DEF PromoteEnd
<1>10. ASSUME NEW h \in Promo(g)
       PROVE  /\ PromoteTo(g)[h] = Slid(g, Promo(g), tf, h)
              /\ PromoteTo(g)[h] \in Nat /\ tf <= PromoteTo(g)[h]
              /\ PromoteTo(g)[h] + Units(g, h) <= PromoteFree(g) /\ PromoteTo(g)[h] < PromoteFree(g)
  <2>1. PromoteTo(g)[h] = Slid(g, Promo(g), tf, h)
    BY <1>1 DEF PromoteTo
  <2>2. Slid(g, Promo(g), tf, h) \in Nat /\ tf <= Slid(g, Promo(g), tf, h)
        /\ Slid(g, Promo(g), tf, h) + Units(g, h) <= tf + Room(g, Promo(g))
    BY <1>2, <1>3, SlideEnd
  <2>3. Units(g, h) \in Nat \ {0}
    BY <1>3 DEF Apart
  <2> QED BY <2>1, <2>2, <2>3, <1>8 DEF PromoteFree
<1>11. ASSUME NEW h \in Live(g), NEW k \in Live(g), h < k, PromoteTo(g)[h] = PromoteTo(g)[k] PROVE FALSE
  <2>1. CASE h \in Stay(g) /\ k \in Stay(g)
    <3>1. Slid(g, Stay(g), NurseryStart, h) + Units(g, h) <= Slid(g, Stay(g), NurseryStart, k)
      BY <1>3, <1>5, <1>11, <2>1, SlideOrder
    <3>2. Units(g, h) \in Nat \ {0}
      BY <1>3, <2>1 DEF Apart
    <3> QED BY <3>1, <3>2, <2>1, <1>9, <1>11
  <2>2. CASE h \in Promo(g) /\ k \in Promo(g)
    <3>1. Slid(g, Promo(g), tf, h) + Units(g, h) <= Slid(g, Promo(g), tf, k)
      BY <1>2, <1>3, <1>11, <2>2, SlideOrder
    <3>2. Units(g, h) \in Nat \ {0}
      BY <1>3, <2>2 DEF Apart
    <3> QED BY <3>1, <3>2, <2>2, <1>10, <1>11
  <2>3. ASSUME NEW s \in Stay(g), NEW p \in Promo(g), PromoteTo(g)[s] = PromoteTo(g)[p] PROVE FALSE
    BY <1>2, <1>5, <1>7, <1>9, <1>10, <2>3
  <2> QED BY <1>1, <1>11, <2>1, <2>2, <2>3
<1>12. ASSUME NEW h \in Live(g), NEW k \in Live(g), PromoteTo(g)[h] = PromoteTo(g)[k] PROVE h = k
  <2>1. h \in Nat /\ k \in Nat
    BY <1>1, <1>2 DEF Apart
  <2> QED BY <1>11, <1>12, <2>1
<1> QED BY <1>3, <1>7, <1>8, <1>9, <1>10, <1>12

LEMMA PromotedObject ==
  ASSUME NEW g, IsGc(g), NEW h \in Live(g)
  PROVE  /\ IsObj(PromoteAs(g)[h]) /\ PromoteAs(g)[h].slots = g.heap[h].slots /\ PromoteAs(g)[h].id = g.heap[h].id
         /\ PromoteAs(g)[h].marked = FALSE
         /\ PromoteAs(g)[h].age = IF h \in Stay(g) THEN g.heap[h].age + 1 ELSE PromotionAge
<1> DEFINE a == IF h \in Stay(g) THEN g.heap[h].age + 1 ELSE PromotionAge
<1>1. h \in DOMAIN g.heap
  BY DEF Live, Young
<1>2. IsObj(g.heap[h])
  BY <1>1 DEF IsGc
<1>3. a \in Nat
  BY <1>2, SpacesAssumption DEF IsObj
<1>4. PromoteAs(g)[h] = [g.heap[h] EXCEPT !.marked = FALSE, !.age = a]
  BY DEF PromoteAs
<1> HIDE DEF a
<1>5. PromoteAs(g)[h].slots = g.heap[h].slots /\ PromoteAs(g)[h].id = g.heap[h].id
      /\ PromoteAs(g)[h].marked = FALSE /\ PromoteAs(g)[h].age = a
  BY <1>2, <1>4 DEF IsObj
<1>6. PromoteAs(g)[h] \in [id : {g.heap[h].id}, marked : BOOLEAN, age : Nat, slots : {g.heap[h].slots}]
  BY <1>2, <1>3, <1>4 DEF IsObj
<1>7. IsObj(PromoteAs(g)[h])
  BY <1>2, <1>5, <1>6 DEF IsObj
<1> QED BY <1>5, <1>7 DEF a

(* After the move, before references are forwarded *)
LEMMA PromoteState ==
  ASSUME prog \in Programs, NEW g, IsGc(g), Spaces(g), ~(PromoteFree(g) > TenuredLimit),
         NEW n, n = PromoteMoved(g)
  PROVE  /\ IsGc(n) /\ Spaces(n)
         /\ n.nursery_ptr = PromoteEnd(g) /\ n.tenured_free = PromoteFree(g)
         /\ n.large = g.large /\ n.remembered = g.remembered /\ n.root = g.root
         /\ n.reg = g.reg /\ n.aborted = g.aborted
         /\ DOMAIN n.heap = Old(g) \cup {PromoteTo(g)[h] : h \in Live(g)}
         /\ Young(n) = {PromoteTo(g)[h] : h \in Stay(g)}
         /\ Tenured(n) = Tenured(g) \cup {PromoteTo(g)[h] : h \in Promo(g)}
         /\ \A h \in Live(g) : n.heap[PromoteTo(g)[h]] = PromoteAs(g)[h]
         /\ \A a \in Old(g) : n.heap[a] = g.heap[a]
         /\ Old(g) \cap {PromoteTo(g)[h] : h \in Live(g)} = {}
<1> DEFINE to == PromoteTo(g)
           x == Moved(g, Young(g), to, PromoteAs(g))
           image == {to[h] : h \in Live(g)}
           near == {to[h] : h \in Stay(g)}
           far == {to[h] : h \in Promo(g)}
           np == PromoteEnd(g)
           tf == PromoteFree(g)
<1>1. Live(g) \subseteq Young(g) /\ Stay(g) \subseteq Live(g) /\ Promo(g) \subseteq Live(g)
      /\ Live(g) = Stay(g) \cup Promo(g) /\ Stay(g) \cap Promo(g) = {}
  BY DEF Live, Stay, Promo
<1>2. /\ np \in Nat /\ NurseryStart <= np /\ np <= g.nursery_ptr
      /\ tf \in Nat /\ g.tenured_free <= tf /\ tf <= TenuredLimit
      /\ Apart(g, Stay(g), g.nursery_ptr) /\ Apart(g, Promo(g), g.nursery_ptr)
      /\ \A h, k \in Live(g) : to[h] = to[k] => h = k
  BY PromoteLayout, Limits
<1>3. \A h \in Stay(g) : /\ to[h] = Slid(g, Stay(g), NurseryStart, h)
                         /\ to[h] \in Nat /\ NurseryStart <= to[h]
                         /\ to[h] + Units(g, h) <= np /\ to[h] < np
  BY PromoteLayout
<1>4. \A h \in Promo(g) : /\ to[h] = Slid(g, Promo(g), g.tenured_free, h)
                          /\ to[h] \in Nat /\ g.tenured_free <= to[h]
                          /\ to[h] + Units(g, h) <= tf /\ to[h] < tf
  BY PromoteLayout
<1>5. DOMAIN to = Live(g)
  BY DEF PromoteTo
<1>6. /\ NurseryStart \in Nat /\ NurseryLimit \in Nat /\ TenuredStart \in Nat
      /\ NurseryLimit < TenuredStart /\ TenuredLimit \in Nat
      /\ \A a \in LargeAddrs : a \in Nat /\ TenuredLimit < a
  BY Limits
<1>7. /\ g.nursery_ptr \in Nat /\ g.tenured_free \in Nat /\ g.nursery_ptr <= NurseryLimit
      /\ TenuredStart <= g.tenured_free
      /\ Tenured(g) \subseteq DOMAIN g.heap /\ g.large \subseteq DOMAIN g.heap
      /\ g.large \subseteq LargeAddrs
      /\ \A h \in Young(g) : NurseryStart <= h /\ h < g.nursery_ptr
      /\ \A h \in Tenured(g) : TenuredStart <= h /\ h < g.tenured_free
      /\ Apart(g, Tenured(g), g.tenured_free) /\ Young(g) \subseteq DOMAIN g.heap
  BY Where
<1>8. DOMAIN g.heap \subseteq Nat /\ DOMAIN g.heap = Young(g) \cup Old(g)
      /\ Old(g) = Tenured(g) \cup g.large
  BY DEF IsGc, Spaces, Old
<1>9. Young(g) \cap Old(g) = {}
  <2> SUFFICES ASSUME NEW a \in Young(g), a \in Old(g) PROVE FALSE
    OBVIOUS
  <2>1. a \in Nat /\ a < g.nursery_ptr
    BY <1>7, <1>8
  <2>2. CASE a \in Tenured(g)
    BY <2>1, <2>2, <1>6, <1>7
  <2>3. CASE a \in g.large
    <3>1. TenuredLimit < a
      BY <2>3, <1>6, <1>7
    <3> QED BY <2>1, <3>1, <1>2, <1>6, <1>7
  <2> QED BY <2>2, <2>3, <1>8
<1> HIDE DEF to, np, tf
<1>10. image = near \cup far
  BY <1>1
<1>11. Old(g) \cap image = {}
  <2> SUFFICES ASSUME NEW h \in Live(g), to[h] \in Old(g) PROVE FALSE
    OBVIOUS
  <2>1. CASE h \in Stay(g)
    BY <2>1, <1>2, <1>3, <1>6, <1>7, <1>8
  <2>2. CASE h \in Promo(g)
    BY <2>2, <1>2, <1>4, <1>6, <1>7, <1>8
  <2> QED BY <2>1, <2>2, <1>1
<1>12. /\ DOMAIN x = (DOMAIN g.heap \ Young(g)) \cup image
       /\ \A h \in Live(g) : x[to[h]] = PromoteAs(g)[h]
       /\ \A a \in DOMAIN g.heap \ Young(g) : a \notin image => x[a] = g.heap[a]
  <2>1. \A h, k \in Live(g) : to[h] = to[k] => h = k
    BY <1>2
  <2> QED BY <1>5, <2>1, MovedAt
<1>13. DOMAIN x = Old(g) \cup image
  BY <1>8, <1>9, <1>12
<1>14. \A a \in Old(g) : x[a] = g.heap[a]
  BY <1>8, <1>9, <1>11, <1>12
<1>15. n = [g EXCEPT !.heap = x, !.nursery_ptr = np, !.tenured_free = tf]
  BY DEF PromoteMoved, PromoteEnd, to, np, tf
<1> HIDE DEF x, image, near, far
<1>16. image \subseteq Nat
  BY <1>1, <1>3, <1>4 DEF image
<1>17. ASSUME NEW a \in DOMAIN x PROVE IsObj(x[a])
  <2>1. CASE a \in Old(g)
    BY <2>1, <1>8, <1>14 DEF IsGc
  <2>2. CASE a \in image
    <3>1. PICK h \in Live(g) : a = to[h]
      BY <2>2 DEF image
    <3> QED BY <3>1, <1>12, PromotedObject
  <2> QED BY <2>1, <2>2, <1>13
<1>18. /\ IsGc(n) /\ n.heap = x /\ n.nursery_ptr = np /\ n.tenured_free = tf
       /\ n.large = g.large /\ n.remembered = g.remembered /\ n.root = g.root
       /\ n.reg = g.reg /\ n.aborted = g.aborted
  <2>1. DOMAIN x \subseteq Nat
    BY <1>8, <1>13, <1>16
  <2>2. /\ n.heap = x /\ n.nursery_ptr = np /\ n.tenured_free = tf
        /\ n.large = g.large /\ n.remembered = g.remembered /\ n.root = g.root
        /\ n.reg = g.reg /\ n.aborted = g.aborted
    BY <1>15 DEF IsGc
  <2>3. n \in [heap : {x}, nursery_ptr : Nat, tenured_free : Nat, large : SUBSET LargeAddrs,
               remembered : {g.remembered}, root : {g.root}, reg : [Roots -> 0..MaxReg],
               aborted : BOOLEAN]
    BY <1>2, <1>15 DEF IsGc
  <2> QED BY <1>17, <2>1, <2>2, <2>3 DEF IsGc
<1>19. \A a \in near : NurseryStart <= a /\ a < np /\ a \in Nat
  BY <1>3 DEF near
<1>20. \A a \in far : g.tenured_free <= a /\ a < tf /\ a \in Nat
  BY <1>4 DEF far
<1>21. Young(n) = near
  <2>1. Young(n) = {a \in Old(g) \cup near \cup far : NurseryStart <= a /\ a < np}
    BY <1>10, <1>13, <1>18 DEF Young
  <2>2. \A a \in Old(g) \cup far : ~(a < np)
    BY <1>2, <1>6, <1>7, <1>8, <1>20
  <2> QED BY <1>19, <2>1, <2>2
<1>22. Tenured(n) = Tenured(g) \cup far
  <2>1. Tenured(n) = {a \in Tenured(g) \cup g.large \cup near \cup far : TenuredStart <= a /\ a < tf}
    BY <1>8, <1>10, <1>13, <1>18 DEF Tenured
  <2>2. \A a \in near : ~(TenuredStart <= a)
    BY <1>2, <1>6, <1>7, <1>19
  <2>3. \A a \in g.large : ~(a < tf)
    BY <1>2, <1>6, <1>7
  <2>4. \A a \in far : TenuredStart <= a /\ a < tf
    BY <1>6, <1>7, <1>20
  <2>5. \A a \in Tenured(g) : TenuredStart <= a /\ a < tf
    <3>1. Tenured(g) \subseteq Nat
      BY <1>7, <1>8
    <3> QED BY <3>1, <1>2, <1>7
  <2> QED BY <2>1, <2>2, <2>3, <2>4, <2>5
<1>23. \A h \in Live(g) : Units(n, to[h]) = Units(g, h)
  <2> SUFFICES ASSUME NEW h \in Live(g) PROVE Units(n, to[h]) = Units(g, h)
    OBVIOUS
  <2>1. n.heap[to[h]].slots = g.heap[h].slots
    <3>1. PromoteAs(g)[h].slots = g.heap[h].slots
      BY PromotedObject
    <3> QED BY <1>12, <1>18, <3>1
  <2> QED BY <2>1 DEF Units
<1>24. \A a \in Old(g) : Units(n, a) = Units(g, a)
  BY <1>14, <1>18 DEF Units
<1>25. Packed(n, Young(n), NurseryStart, n.nursery_ptr, NurseryLimit)
  <2>1. NurseryStart \in near \cup {np}
    BY <1>2, <1>3, <1>6, SlideFirst DEF near, np, PromoteEnd
  <2>2. ASSUME NEW a \in near PROVE a + Units(n, a) \in near \cup {np}
    <3>1. PICK h \in Stay(g) : a = to[h]
      BY DEF near
    <3>2. Slid(g, Stay(g), NurseryStart, h) + Units(g, h)
            \in {Slid(g, Stay(g), NurseryStart, k) : k \in Stay(g)} \cup {NurseryStart + Room(g, Stay(g))}
      BY <1>2, <1>6, SlideNext
    <3>3. {Slid(g, Stay(g), NurseryStart, k) : k \in Stay(g)} = near
      BY <1>3 DEF near
    <3> QED BY <1>1, <1>3, <1>23, <3>1, <3>2, <3>3 DEF np, PromoteEnd
  <2>3. ASSUME NEW a \in near, NEW c \in near, a < c PROVE a + Units(n, a) <= c
    <3>1. PICK h \in Stay(g) : a = to[h]
      BY DEF near
    <3>2. PICK k \in Stay(g) : c = to[k]
      BY DEF near
    <3>3. h \in Nat /\ k \in Nat /\ Units(g, k) \in Nat \ {0}
      BY <1>2 DEF Apart
    <3>4. CASE h < k
      <4>1. Slid(g, Stay(g), NurseryStart, h) + Units(g, h) <= Slid(g, Stay(g), NurseryStart, k)
        BY <1>2, <1>6, <3>4, SlideOrder
      <4> QED BY <4>1, <3>1, <3>2, <1>1, <1>3, <1>23
    <3>5. CASE k < h
      <4>1. Slid(g, Stay(g), NurseryStart, k) + Units(g, k) <= Slid(g, Stay(g), NurseryStart, h)
        BY <1>2, <1>6, <3>5, SlideOrder
      <4> QED BY <4>1, <3>1, <3>2, <3>3, <2>3, <1>1, <1>3
    <3>6. CASE h = k
      BY <3>6, <3>1, <3>2, <2>3, <1>19
    <3> QED BY <3>3, <3>4, <3>5, <3>6
  <2>4. np <= NurseryLimit
    BY <1>2, <1>6, <1>7
  <2> QED BY <1>18, <1>21, <2>1, <2>2, <2>3, <2>4 DEF Packed
<1>26. Packed(n, Tenured(n), TenuredStart, n.tenured_free, TenuredLimit)
  <2>1. g.tenured_free \in far \cup {tf}
    BY <1>2, <1>4, <1>7, SlideFirst DEF far, tf, PromoteFree
  <2>2. ASSUME NEW a \in far PROVE a + Units(n, a) \in far \cup {tf}
    <3>1. PICK h \in Promo(g) : a = to[h]
      BY DEF far
    <3>2. Slid(g, Promo(g), g.tenured_free, h) + Units(g, h)
            \in {Slid(g, Promo(g), g.tenured_free, k) : k \in Promo(g)}
                  \cup {g.tenured_free + Room(g, Promo(g))}
      BY <1>2, <1>7, SlideNext
    <3>3. {Slid(g, Promo(g), g.tenured_free, k) : k \in Promo(g)} = far
      BY <1>4 DEF far
    <3> QED BY <1>1, <1>4, <1>23, <3>1, <3>2, <3>3 DEF tf, PromoteFree
  <2>3. ASSUME NEW a \in far, NEW c \in far, a < c PROVE a + Units(n, a) <= c
    <3>1. PICK h \in Promo(g) : a = to[h]
      BY DEF far
    <3>2. PICK k \in Promo(g) : c = to[k]
      BY DEF far
    <3>3. h \in Nat /\ k \in Nat /\ Units(g, k) \in Nat \ {0}
      BY <1>2 DEF Apart
    <3>4. CASE h < k
      <4>1. Slid(g, Promo(g), g.tenured_free, h) + Units(g, h) <= Slid(g, Promo(g), g.tenured_free, k)
        BY <1>2, <1>7, <3>4, SlideOrder
      <4> QED BY <4>1, <3>1, <3>2, <1>1, <1>4, <1>23
    <3>5. CASE k < h
      <4>1. Slid(g, Promo(g), g.tenured_free, k) + Units(g, k) <= Slid(g, Promo(g), g.tenured_free, h)
        BY <1>2, <1>7, <3>5, SlideOrder
      <4> QED BY <4>1, <3>1, <3>2, <3>3, <2>3, <1>1, <1>4
    <3>6. CASE h = k
      BY <3>6, <3>1, <3>2, <2>3, <1>20
    <3> QED BY <3>3, <3>4, <3>5, <3>6
  <2>4. Packed(g, Tenured(g), TenuredStart, g.tenured_free, TenuredLimit)
    BY DEF Spaces
  <2>5. \A a \in Tenured(g) : Units(n, a) = Units(g, a) /\ a + Units(g, a) <= g.tenured_free
                              /\ a \in Nat /\ Units(g, a) \in Nat
    BY <1>7, <1>8, <1>24 DEF Apart
  <2>6. TenuredStart \in Tenured(n) \cup {tf}
    BY <1>22, <2>1, <2>4 DEF Packed
  <2>7. ASSUME NEW a \in Tenured(n) PROVE a + Units(n, a) \in Tenured(n) \cup {tf}
    <3>1. CASE a \in Tenured(g)
      BY <3>1, <1>22, <2>1, <2>4, <2>5 DEF Packed
    <3> QED BY <3>1, <1>22, <2>2
  <2>8. ASSUME NEW a \in Tenured(n), NEW c \in Tenured(n), a < c PROVE a + Units(n, a) <= c
    <3>1. CASE a \in Tenured(g) /\ c \in Tenured(g)
      BY <3>1, <2>4, <2>5, <2>8 DEF Packed
    <3>2. CASE a \in Tenured(g) /\ c \in far
      BY <3>2, <2>5, <1>7, <1>20
    <3>3. CASE a \in far /\ c \in Tenured(g)
      BY <3>3, <1>7, <1>20, <2>5, <2>8
    <3> QED BY <3>1, <3>2, <3>3, <1>22, <2>3, <2>8
  <2> QED BY <1>2, <1>18, <2>6, <2>7, <2>8 DEF Packed
<1>27. Old(n) = Old(g) \cup far
  BY <1>8, <1>18, <1>22 DEF Old
<1>28. DOMAIN n.heap = Young(n) \cup Old(n)
  BY <1>10, <1>13, <1>18, <1>21, <1>27
<1>29. ASSUME NEW a \in DOMAIN n.heap PROVE n.heap[a].age = PromotionAge <=> a \in Old(n)
  <2>1. CASE a \in Old(g)
    BY <2>1, <1>8, <1>14, <1>18, <1>27 DEF Spaces
  <2>2. CASE a \in far
    <3>1. PICK h \in Promo(g) : a = to[h]
      BY <2>2 DEF far
    <3>2. x[a].age = PromotionAge
      <4>1. PromoteAs(g)[h].age = PromotionAge
        BY <1>1, PromotedObject
      <4> QED BY <3>1, <4>1, <1>1, <1>12
    <3> QED BY <2>2, <3>2, <1>18, <1>27
  <2>3. CASE a \in near
    <3>1. PICK h \in Stay(g) : a = to[h]
      BY <2>3 DEF near
    <3>2. x[a].age = g.heap[h].age + 1 /\ g.heap[h].age + 1 < PromotionAge
      <4>1. PromoteAs(g)[h].age = g.heap[h].age + 1
        BY <1>1, PromotedObject
      <4> QED BY <3>1, <4>1, <1>1, <1>12 DEF Stay
    <3>3. g.heap[h].age \in Nat /\ PromotionAge \in Nat
      BY <1>1, <1>7, SpacesAssumption DEF IsGc, IsObj
    <3>4. a \notin Old(g) /\ a \notin far
      <4>1. near \subseteq image
        BY <1>10
      <4> QED BY <2>3, <4>1, <1>2, <1>6, <1>7, <1>11, <1>19, <1>20
    <3> QED BY <3>2, <3>3, <3>4, <1>18, <1>27
  <2> QED BY <2>1, <2>2, <2>3, <1>10, <1>13, <1>18
<1>30. Spaces(n)
  BY <1>25, <1>26, <1>28, <1>29 DEF Spaces
<1> QED BY <1>11, <1>12, <1>13, <1>14, <1>18, <1>21, <1>22, <1>30 DEF to, image, near, far, np, tf

-----------------------------------------------------------------------------
(* Sweeping *)

SweepFree(g) == TenuredStart + Room(g, SweepLive(g))

LEMMA SweepIs ==
  ASSUME NEW g
  PROVE  SweepTenured(g) = RebuildRemembered(ApplyForwards(SweepMoved(g), Forwards(SweepTo(g))))
BY DEF SweepTenured

LEMMA SweptObject ==
  ASSUME NEW g, IsGc(g), NEW h \in SweepLive(g)
  PROVE  /\ IsObj(SweepAs(g)[h]) /\ SweepAs(g)[h].slots = g.heap[h].slots /\ SweepAs(g)[h].id = g.heap[h].id
         /\ SweepAs(g)[h].age = g.heap[h].age
<1> DEFINE m == (SweepTo(g)[h] = h)
<1>1. h \in DOMAIN g.heap
  BY DEF SweepLive, Tenured
<1>2. IsObj(g.heap[h])
  BY <1>1 DEF IsGc
<1>3. m \in BOOLEAN
  OBVIOUS
<1>4. SweepAs(g)[h] = [g.heap[h] EXCEPT !.marked = m]
  BY DEF SweepAs
<1> HIDE DEF m
<1>5. SweepAs(g)[h].slots = g.heap[h].slots /\ SweepAs(g)[h].id = g.heap[h].id
      /\ SweepAs(g)[h].age = g.heap[h].age
  BY <1>2, <1>4 DEF IsObj
<1>6. SweepAs(g)[h] \in [id : {g.heap[h].id}, marked : BOOLEAN, age : Nat, slots : {g.heap[h].slots}]
  BY <1>2, <1>3, <1>4 DEF IsObj
<1>7. IsObj(SweepAs(g)[h])
  BY <1>2, <1>5, <1>6 DEF IsObj
<1> QED BY <1>5, <1>7

LEMMA SweepLayout ==
  ASSUME prog \in Programs, NEW g, IsGc(g), Spaces(g)
  PROVE  /\ SweepFree(g) \in Nat /\ TenuredStart <= SweepFree(g) /\ SweepFree(g) <= g.tenured_free
         /\ Apart(g, SweepLive(g), g.tenured_free)
         /\ \A h \in SweepLive(g) : /\ SweepTo(g)[h] = Slid(g, SweepLive(g), TenuredStart, h)
                                /\ SweepTo(g)[h] \in Nat /\ TenuredStart <= SweepTo(g)[h]
                                /\ SweepTo(g)[h] + Units(g, h) <= SweepFree(g) /\ SweepTo(g)[h] < SweepFree(g)
         /\ \A h, k \in SweepLive(g) : h < k => SweepTo(g)[h] + Units(g, h) <= SweepTo(g)[k]
         /\ \A h, k \in SweepLive(g) : SweepTo(g)[h] = SweepTo(g)[k] => h = k
<1> DEFINE tf == g.tenured_free
           K == SweepLive(g)
<1>1. K \subseteq Tenured(g)
  BY DEF SweepLive
<1>2. Apart(g, Tenured(g), tf) /\ tf \in Nat /\ TenuredStart <= tf
      /\ \A h \in Tenured(g) : TenuredStart <= h
  BY Where
<1>3. Apart(g, K, tf)
  BY <1>1, <1>2 DEF Apart
<1>4. TenuredStart \in Nat
  BY Limits
<1> HIDE DEF K
<1>5. Room(g, K) \in Nat
  BY <1>3, RoomFinite
<1>6. Room(g, K) <= tf - TenuredStart
  <2>1. \A h \in K : TenuredStart <= h
    BY <1>1, <1>2
  <2> QED BY <1>2, <1>3, <1>4, <2>1, RoomWithin
<1>7. SweepFree(g) \in Nat /\ TenuredStart <= SweepFree(g) /\ SweepFree(g) <= tf
  BY <1>2, <1>4, <1>5, <1>6 DEF SweepFree, K
<1>8. \A h \in K : SweepTo(g)[h] = Slid(g, K, TenuredStart, h)
  BY DEF SweepTo, K
<1>9. \A h \in K : h \in Nat /\ Units(g, h) \in Nat \ {0}
  BY <1>3 DEF Apart
<1>10. ASSUME NEW h \in K
       PROVE  /\ SweepTo(g)[h] \in Nat /\ TenuredStart <= SweepTo(g)[h]
              /\ SweepTo(g)[h] + Units(g, h) <= SweepFree(g) /\ SweepTo(g)[h] < SweepFree(g)
  <2>1. Slid(g, K, TenuredStart, h) \in Nat /\ TenuredStart <= Slid(g, K, TenuredStart, h)
        /\ Slid(g, K, TenuredStart, h) + Units(g, h) <= TenuredStart + Room(g, K)
    BY <1>3, <1>4, SlideEnd
  <2>2. SweepFree(g) = TenuredStart + Room(g, K)
    BY DEF SweepFree, K
  <2> QED BY <1>7, <1>8, <1>9, <2>1, <2>2
<1>11. ASSUME NEW h \in K, NEW k \in K, h < k
       PROVE  SweepTo(g)[h] + Units(g, h) <= SweepTo(g)[k]
  BY <1>3, <1>4, <1>8, <1>11, SlideOrder
<1>12. ASSUME NEW h \in K, NEW k \in K, SweepTo(g)[h] = SweepTo(g)[k]
       PROVE  h = k
  BY <1>9, <1>10, <1>11, <1>12
<1> QED BY <1>3, <1>7, <1>8, <1>10, <1>11, <1>12 DEF K

LEMMA SweepState ==
  ASSUME prog \in Programs, NEW g, IsGc(g), Spaces(g), NEW n, n = SweepMoved(g)
  PROVE  /\ IsGc(n) /\ Spaces(n)
         /\ n.nursery_ptr = g.nursery_ptr /\ n.tenured_free = SweepFree(g)
         /\ n.large = g.large /\ n.remembered = g.remembered /\ n.root = g.root
         /\ n.reg = g.reg /\ n.aborted = g.aborted
         /\ DOMAIN n.heap = Young(g) \cup g.large \cup {SweepTo(g)[h] : h \in SweepLive(g)}
         /\ Young(n) = Young(g)
         /\ Tenured(n) = {SweepTo(g)[h] : h \in SweepLive(g)}
         /\ \A h \in SweepLive(g) : n.heap[SweepTo(g)[h]] = SweepAs(g)[h]
         /\ \A a \in Young(g) \cup g.large : n.heap[a] = g.heap[a]
<1> DEFINE to == SweepTo(g)
           K == SweepLive(g)
           x == Moved(g, Tenured(g), to, SweepAs(g))
           image == {to[h] : h \in K}
           rest == Young(g) \cup g.large
           tf == SweepFree(g)
<1>1. K \subseteq Tenured(g) /\ DOMAIN to = K
  BY DEF SweepLive, SweepTo
<1>2. /\ tf \in Nat /\ TenuredStart <= tf /\ tf <= g.tenured_free
      /\ Apart(g, K, g.tenured_free)
      /\ \A h \in K : /\ to[h] = Slid(g, K, TenuredStart, h)
                      /\ to[h] \in Nat /\ TenuredStart <= to[h]
                      /\ to[h] + Units(g, h) <= tf /\ to[h] < tf
      /\ \A h, k \in K : h < k => to[h] + Units(g, h) <= to[k]
      /\ \A h, k \in K : to[h] = to[k] => h = k
  BY SweepLayout
<1>3. /\ NurseryLimit \in Nat /\ TenuredStart \in Nat /\ NurseryStart \in Nat
      /\ NurseryLimit < TenuredStart /\ TenuredLimit \in Nat
      /\ \A a \in LargeAddrs : a \in Nat /\ TenuredLimit < a
  BY Limits
<1>4. /\ g.nursery_ptr \in Nat /\ g.tenured_free \in Nat /\ g.nursery_ptr <= NurseryLimit
      /\ TenuredStart <= g.tenured_free /\ g.tenured_free <= TenuredLimit
      /\ Tenured(g) \subseteq DOMAIN g.heap /\ g.large \subseteq DOMAIN g.heap
      /\ g.large \subseteq LargeAddrs /\ Young(g) \subseteq DOMAIN g.heap
      /\ \A h \in Young(g) : NurseryStart <= h /\ h < g.nursery_ptr
      /\ \A h \in Tenured(g) : TenuredStart <= h /\ h < g.tenured_free
  BY Where
<1>5. DOMAIN g.heap \subseteq Nat /\ DOMAIN g.heap = rest \cup Tenured(g)
      /\ Old(g) = Tenured(g) \cup g.large
  BY DEF IsGc, Spaces, Old
<1> HIDE DEF to, K, tf
<1>6. \A a \in Young(g) : a \in Nat /\ a < TenuredStart
  BY <1>3, <1>4, <1>5
<1>7. \A a \in g.large : a \in Nat /\ g.tenured_free < a /\ tf < a
  BY <1>2, <1>3, <1>4
<1>8. \A a \in rest : a \notin Tenured(g)
  BY <1>3, <1>4, <1>6, <1>7
<1>9. \A a \in rest : \A h \in K : a # to[h]
  BY <1>2, <1>3, <1>6, <1>7
<1>10. /\ \A a : a \in DOMAIN x <=> a \in DOMAIN g.heap \ Tenured(g) \/ \E h \in K : a = to[h]
       /\ \A h \in K : x[to[h]] = SweepAs(g)[h]
       /\ \A a \in DOMAIN g.heap \ Tenured(g) : (\A h \in K : a # to[h]) => x[a] = g.heap[a]
  <2>1. \A h, k \in K : to[h] = to[k] => h = k
    BY <1>2
  <2> QED BY <1>1, <2>1, MovedAt
<1>11. n = [g EXCEPT !.heap = x, !.tenured_free = tf]
  BY DEF SweepMoved, SweepFree, to, tf
<1> HIDE DEF x
<1>12. DOMAIN x = rest \cup image
  <2>1. DOMAIN g.heap \ Tenured(g) = rest
    BY <1>5, <1>8
  <2> QED BY <1>10, <2>1
<1>13. \A a \in rest : x[a] = g.heap[a]
  BY <1>5, <1>8, <1>9, <1>10
<1>14. \A a \in image : a \in Nat /\ TenuredStart <= a /\ a < tf
  BY <1>2
<1>15. ASSUME NEW a \in DOMAIN x PROVE IsObj(x[a])
  <2>1. CASE a \in rest
    BY <2>1, <1>5, <1>13 DEF IsGc
  <2>2. CASE a \in image
    <3>1. PICK h \in K : a = to[h]
      BY <2>2
    <3>2. IsObj(SweepAs(g)[h])
      BY SweptObject DEF K
    <3> QED BY <3>1, <3>2, <1>10
  <2> QED BY <2>1, <2>2, <1>12
<1>16. /\ IsGc(n) /\ n.heap = x /\ n.nursery_ptr = g.nursery_ptr /\ n.tenured_free = tf
       /\ n.large = g.large /\ n.remembered = g.remembered /\ n.root = g.root
       /\ n.reg = g.reg /\ n.aborted = g.aborted
  <2> HIDE DEF rest, image
  <2>1. DOMAIN x \subseteq Nat
    BY <1>5, <1>12, <1>14
  <2>2. /\ n.heap = x /\ n.nursery_ptr = g.nursery_ptr /\ n.tenured_free = tf
        /\ n.large = g.large /\ n.remembered = g.remembered /\ n.root = g.root
        /\ n.reg = g.reg /\ n.aborted = g.aborted
    BY <1>11 DEF IsGc
  <2>3. n \in [heap : {x}, nursery_ptr : Nat, tenured_free : Nat, large : SUBSET LargeAddrs,
               remembered : {g.remembered}, root : {g.root}, reg : [Roots -> 0..MaxReg],
               aborted : BOOLEAN]
    BY <1>2, <1>11 DEF IsGc
  <2> QED BY <1>15, <2>1, <2>2, <2>3 DEF IsGc
<1> HIDE DEF image
<1>17. Young(n) = Young(g)
  <2>1. Young(n) = {a \in Young(g) \cup g.large \cup image : NurseryStart <= a /\ a < g.nursery_ptr}
    BY <1>12, <1>16 DEF Young
  <2>2. \A a \in g.large \cup image : ~(a < g.nursery_ptr)
    BY <1>3, <1>4, <1>7, <1>14
  <2> QED BY <1>4, <2>1, <2>2
<1>18. Tenured(n) = image
  <2>1. Tenured(n) = {a \in Young(g) \cup g.large \cup image : TenuredStart <= a /\ a < tf}
    BY <1>12, <1>16 DEF Tenured
  <2>2. \A a \in Young(g) : ~(TenuredStart <= a)
    BY <1>3, <1>6
  <2>3. \A a \in g.large : ~(a < tf)
    BY <1>2, <1>7
  <2> QED BY <1>14, <2>1, <2>2, <2>3
<1>19. \A h \in K : Units(n, to[h]) = Units(g, h)
  <2> SUFFICES ASSUME NEW h \in K PROVE Units(n, to[h]) = Units(g, h)
    OBVIOUS
  <2>1. SweepAs(g)[h].slots = g.heap[h].slots
    BY SweptObject DEF K
  <2>2. n.heap[to[h]].slots = g.heap[h].slots
    BY <2>1, <1>10, <1>16
  <2> QED BY <2>2 DEF Units
<1>20. Packed(n, Young(n), NurseryStart, n.nursery_ptr, NurseryLimit)
  <2>1. \A a \in Young(g) : Units(n, a) = Units(g, a)
    BY <1>13, <1>16 DEF Units
  <2> QED BY <1>16, <1>17, <2>1 DEF Spaces, Packed
<1>21. Packed(n, Tenured(n), TenuredStart, n.tenured_free, TenuredLimit)
  <2>1. TenuredStart \in image \cup {tf}
    BY <1>2, <1>3, SlideFirst DEF image, tf, SweepFree, K
  <2>2. ASSUME NEW a \in image PROVE a + Units(n, a) \in image \cup {tf}
    <3>1. PICK h \in K : a = to[h]
      BY DEF image
    <3>2. Slid(g, K, TenuredStart, h) + Units(g, h)
            \in {Slid(g, K, TenuredStart, k) : k \in K} \cup {TenuredStart + Room(g, K)}
      BY <1>2, <1>3, SlideNext
    <3>3. {Slid(g, K, TenuredStart, k) : k \in K} = image
      BY <1>2 DEF image
    <3>4. tf = TenuredStart + Room(g, K)
      BY DEF tf, SweepFree, K
    <3> QED BY <1>2, <1>19, <3>1, <3>2, <3>3, <3>4
  <2>3. ASSUME NEW a \in image, NEW c \in image, a < c PROVE a + Units(n, a) <= c
    <3>1. PICK h \in K : a = to[h]
      BY DEF image
    <3>2. PICK k \in K : c = to[k]
      BY DEF image
    <3>3. h \in Nat /\ k \in Nat /\ Units(g, k) \in Nat \ {0}
      BY <1>2 DEF Apart
    <3>4. CASE h < k
      BY <3>1, <3>2, <3>4, <1>2, <1>19
    <3>5. CASE k < h
      BY <3>1, <3>2, <3>3, <3>5, <2>3, <1>2
    <3>6. CASE h = k
      BY <3>6, <3>1, <3>2, <2>3, <1>14
    <3> QED BY <3>3, <3>4, <3>5, <3>6
  <2>4. tf <= TenuredLimit
    BY <1>2, <1>3, <1>4
  <2> QED BY <1>16, <1>18, <2>1, <2>2, <2>3, <2>4 DEF Packed
<1>22. Old(n) = image \cup g.large
  BY <1>16, <1>18 DEF Old
<1>23. DOMAIN n.heap = Young(n) \cup Old(n)
  BY <1>12, <1>16, <1>17, <1>22
<1>24. ASSUME NEW a \in DOMAIN n.heap PROVE n.heap[a].age = PromotionAge <=> a \in Old(n)
  <2>1. CASE a \in g.large
    BY <2>1, <1>5, <1>13, <1>16, <1>22 DEF Spaces
  <2>2. CASE a \in image
    <3>1. PICK h \in K : a = to[h]
      BY <2>2 DEF image
    <3>2. SweepAs(g)[h].age = g.heap[h].age
      BY SweptObject DEF K
    <3>3. h \in Old(g) /\ h \in DOMAIN g.heap
      BY <1>1, <1>4, <1>5
    <3> QED BY <2>2, <3>1, <3>2, <3>3, <1>10, <1>16, <1>22 DEF Spaces
  <2>3. CASE a \in Young(g)
    <3>1. a \notin Old(g)
      BY <2>3, <1>3, <1>4, <1>5, <1>6, <1>7, <1>8
    <3>2. a \notin image
      BY <2>3, <1>6, <1>14, <1>3
    <3>3. n.heap[a] = g.heap[a] /\ a \in DOMAIN g.heap
      BY <2>3, <1>4, <1>13, <1>16
    <3> QED BY <3>1, <3>2, <3>3, <1>5, <1>22 DEF Spaces
  <2> QED BY <2>1, <2>2, <2>3, <1>12, <1>16
<1>25. Spaces(n)
  BY <1>20, <1>21, <1>23, <1>24 DEF Spaces
<1> QED BY <1>10, <1>12, <1>13, <1>16, <1>17, <1>18, <1>25 DEF to, image, tf, K

LEMMA SweepLargeFields ==
  ASSUME prog \in Programs, NEW g, IsGc(g), Spaces(g), NEW n, n = SweepLarge(g)
  PROVE  /\ IsGc(n) /\ Spaces(n) /\ Young(n) = Young(g) /\ Tenured(n) = Tenured(g)
         /\ n.nursery_ptr = g.nursery_ptr /\ n.tenured_free = g.tenured_free
         /\ n.large = {h \in g.large : g.heap[h].marked}
         /\ n.remembered = g.remembered /\ n.root = g.root
         /\ n.reg = g.reg /\ n.aborted = g.aborted
         /\ DOMAIN n.heap = DOMAIN g.heap \ {h \in g.large : ~g.heap[h].marked}
         /\ \A h \in DOMAIN n.heap :
              /\ n.heap[h].slots = g.heap[h].slots /\ n.heap[h].id = g.heap[h].id
              /\ n.heap[h].marked <=> (g.heap[h].marked /\ h \notin g.large)
<1> DEFINE dead == {h \in g.large : ~g.heap[h].marked}
           x == [h \in DOMAIN g.heap \ dead |-> g.heap[h]]
           z == g.large \ dead
           m == [g EXCEPT !.large = z, !.heap = x]
<1>1. n = ClearLargeMarks(m)
  BY DEF SweepLarge
<1>2. DOMAIN x = DOMAIN g.heap \ dead /\ \A h \in DOMAIN x : x[h] = g.heap[h]
  OBVIOUS
<1>3. z = {h \in g.large : g.heap[h].marked} /\ dead \subseteq g.large
  OBVIOUS
<1>4. m = [g EXCEPT !.large = z, !.heap = x]
  OBVIOUS
<1> HIDE DEF x, m, z
<1>5. /\ m.heap = x /\ m.large = z /\ m.nursery_ptr = g.nursery_ptr
      /\ m.tenured_free = g.tenured_free /\ m.remembered = g.remembered /\ m.root = g.root
      /\ m.reg = g.reg /\ m.aborted = g.aborted
  BY <1>4 DEF IsGc
<1>6. m \in [heap : {x}, nursery_ptr : Nat, tenured_free : Nat, large : SUBSET LargeAddrs,
             remembered : {g.remembered}, root : {g.root}, reg : [Roots -> 0..MaxReg],
             aborted : BOOLEAN]
  BY <1>4, <1>3 DEF IsGc
<1>7. IsGc(m)
  <2>1. DOMAIN x \subseteq Nat /\ \A h \in DOMAIN x : IsObj(x[h])
    BY <1>2 DEF IsGc
  <2> QED BY <1>5, <1>6, <2>1 DEF IsGc
<1>8. /\ g.nursery_ptr \in Nat /\ g.tenured_free \in Nat /\ g.nursery_ptr <= NurseryLimit
      /\ g.tenured_free <= TenuredLimit
      /\ Tenured(g) \subseteq DOMAIN g.heap /\ g.large \subseteq DOMAIN g.heap
      /\ g.large \subseteq LargeAddrs /\ Young(g) \subseteq DOMAIN g.heap
  BY Where
<1>9. \A a \in g.large : g.nursery_ptr < a /\ g.tenured_free < a /\ a \in Nat
  BY <1>8, Limits
<1> HIDE DEF dead
<1>10. Young(m) = Young(g)
  <2>1. \A a \in dead : a \notin Young(g)
    BY <1>3, <1>8, <1>9 DEF Young
  <2>2. Young(m) = Young(g) \ dead
    BY <1>2, <1>5 DEF Young
  <2> QED BY <2>1, <2>2
<1>11. Tenured(m) = Tenured(g)
  <2>1. \A a \in dead : a \notin Tenured(g)
    BY <1>3, <1>8, <1>9 DEF Tenured
  <2>2. Tenured(m) = Tenured(g) \ dead
    BY <1>2, <1>5 DEF Tenured
  <2> QED BY <2>1, <2>2
<1>12. \A h \in DOMAIN m.heap : m.heap[h] = g.heap[h] /\ Units(m, h) = Units(g, h)
  BY <1>2, <1>5 DEF Units
<1>13. Young(m) \subseteq DOMAIN m.heap /\ Tenured(m) \subseteq DOMAIN m.heap
  BY DEF Young, Tenured
<1>14. Packed(m, Young(m), NurseryStart, m.nursery_ptr, NurseryLimit)
  BY <1>5, <1>10, <1>12, <1>13 DEF Spaces, Packed
<1>15. Packed(m, Tenured(m), TenuredStart, m.tenured_free, TenuredLimit)
  BY <1>5, <1>11, <1>12, <1>13 DEF Spaces, Packed
<1>16. Old(m) = Old(g) \ dead /\ DOMAIN m.heap = DOMAIN g.heap \ dead
  <2>1. \A a \in dead : a \notin Tenured(g)
    BY <1>3, <1>8, <1>9 DEF Tenured
  <2>2. z = g.large \ dead
    BY DEF z
  <2> QED BY <1>2, <1>5, <1>11, <2>1, <2>2 DEF Old
<1>17. DOMAIN m.heap = Young(m) \cup Old(m)
  <2>1. \A a \in dead : a \notin Young(g)
    BY <1>3, <1>8, <1>9 DEF Young
  <2> QED BY <1>10, <1>16, <2>1 DEF Spaces
<1>18. \A h \in DOMAIN m.heap : m.heap[h].age = PromotionAge <=> h \in Old(m)
  BY <1>12, <1>16 DEF Spaces
<1>19. Spaces(m)
  BY <1>14, <1>15, <1>17, <1>18 DEF Spaces
<1>20. /\ IsGc(n) /\ SameShape(m, n)
       /\ n.remembered = m.remembered /\ n.root = m.root
       /\ n.reg = m.reg /\ n.aborted = m.aborted
       /\ \A h \in DOMAIN m.heap :
            /\ n.heap[h].slots = m.heap[h].slots /\ n.heap[h].id = m.heap[h].id
            /\ n.heap[h].marked <=> (m.heap[h].marked /\ h \notin m.large)
  BY <1>1, <1>7, ClearFields
<1>21. Spaces(n)
  BY <1>19, <1>20, SpacesSame
<1>22. /\ DOMAIN n.heap = DOMAIN m.heap /\ Young(n) = Young(m) /\ Tenured(n) = Tenured(m)
  BY <1>20, SameUnits
<1>23. n.large = z /\ n.nursery_ptr = g.nursery_ptr /\ n.tenured_free = g.tenured_free
  BY <1>5, <1>20 DEF SameShape
<1>24. ASSUME NEW h \in DOMAIN n.heap
       PROVE  /\ n.heap[h].slots = g.heap[h].slots /\ n.heap[h].id = g.heap[h].id
              /\ n.heap[h].marked <=> (g.heap[h].marked /\ h \notin g.large)
  <2>1. h \in DOMAIN m.heap /\ m.heap[h] = g.heap[h] /\ h \notin dead
    BY <1>12, <1>16, <1>22
  <2>2. h \in m.large <=> h \in g.large
    BY <1>5, <2>1 DEF z
  <2> QED BY <2>1, <2>2, <1>20
<1> QED BY <1>3, <1>5, <1>10, <1>11, <1>16, <1>20, <1>21, <1>22, <1>23, <1>24 DEF dead

-----------------------------------------------------------------------------
(* Allocation *)

(* One object more, at h, with k empty slots *)
Grown(g, n, h, k, age) ==
  /\ h \notin DOMAIN g.heap /\ DOMAIN n.heap = DOMAIN g.heap \cup {h}
  /\ \A a \in DOMAIN g.heap : n.heap[a] = g.heap[a]
  /\ n.heap[h].age = age /\ n.heap[h].marked = FALSE
  /\ Len(n.heap[h].slots) = k /\ DOMAIN n.heap[h].slots = 1..k
  /\ \A i \in 1..k : n.heap[h].slots[i] = Null
  /\ n.remembered = g.remembered /\ n.root = g.root /\ n.reg = g.reg /\ n.aborted = g.aborted

LEMMA InitFields ==
  ASSUME NEW g, IsGc(g), NEW h \in Nat, h \notin DOMAIN g.heap, NEW k \in Nat, NEW age \in Nat,
         NEW n, n = InitObject(g, h, k, age)
  PROVE  /\ IsGc(n) /\ Grown(g, n, h, k, age)
         /\ n.nursery_ptr = g.nursery_ptr /\ n.tenured_free = g.tenured_free /\ n.large = g.large
<1> DEFINE s == [i \in 1..k |-> Null]
           new == [id |-> FreshId(g), marked |-> FALSE, age |-> age, slots |-> s]
           x == [a \in DOMAIN g.heap \cup {h} |-> IF a = h THEN new ELSE g.heap[a]]
<1>1. n = [g EXCEPT !.heap = x]
  BY DEF InitObject
<1>2. DOMAIN s = 1..k /\ s = [i \in 1..k |-> s[i]] /\ \A i \in 1..k : s[i] = Null
  OBVIOUS
<1>3. new.id = FreshId(g) /\ new.marked = FALSE /\ new.age = age /\ new.slots = s
  OBVIOUS
<1>4. new \in [id : {new.id}, marked : BOOLEAN, age : Nat, slots : {new.slots}]
  OBVIOUS
<1> HIDE DEF s
<1>5. Len(s) = k
  BY <1>2, LenOf
<1>6. IsRef(Null)
  BY DEF IsRef, Null
<1> HIDE DEF new
<1>7. IsObj(new)
  BY <1>2, <1>3, <1>4, <1>5, <1>6 DEF IsObj
<1>8. DOMAIN x = DOMAIN g.heap \cup {h} /\ x[h] = new /\ \A a \in DOMAIN g.heap : x[a] = g.heap[a]
  OBVIOUS
<1> HIDE DEF x
<1>9. DOMAIN x \subseteq Nat /\ \A a \in DOMAIN x : IsObj(x[a])
  BY <1>7, <1>8 DEF IsGc
<1>10. IsGc(n) /\ n.heap = x /\ n.nursery_ptr = g.nursery_ptr /\ n.tenured_free = g.tenured_free
         /\ n.large = g.large /\ n.remembered = g.remembered /\ n.root = g.root
         /\ n.reg = g.reg /\ n.aborted = g.aborted
  BY <1>1, <1>9, SetHeap
<1> QED BY <1>2, <1>3, <1>5, <1>8, <1>10 DEF Grown

(* What an allocator returns: the state as it was, or with a new object *)
Allocated(g, res, h, k, age) ==
  /\ res.obj = h + 1 /\ IsGc(res.gc) /\ Spaces(res.gc) /\ Grown(g, res.gc, h, k, age) /\ h \in Nat

LEMMA ObjectAt ==
  ASSUME NEW h
  PROVE  Object(h) = h + 1 /\ Header(h) = h - 1
BY DEF Object, Header, Off

LEMMA FastAllocates ==
  ASSUME prog \in Programs, NEW g, IsGc(g), Spaces(g), NEW k \in prog.sizes,
         NEW res, res = AllocFastUnlocked(g, k)
  PROVE  \/ /\ res = Failed(g) /\ res.gc = g /\ res.obj = 0
            /\ g.nursery_ptr + Total(k) > NurseryLimit
         \/ /\ Allocated(g, res, g.nursery_ptr, k, 0)
            /\ g.nursery_ptr + Total(k) <= NurseryLimit
            /\ res.gc.nursery_ptr = g.nursery_ptr + Total(k)
            /\ res.gc.tenured_free = g.tenured_free /\ res.gc.large = g.large
            /\ Young(res.gc) = Young(g) \cup {g.nursery_ptr}
            /\ Tenured(res.gc) = Tenured(g) /\ Old(res.gc) = Old(g)
<1> DEFINE np == g.nursery_ptr
           m == InitObject(g, np, k, 0)
           n == [m EXCEPT !.nursery_ptr = np + Total(k)]
<1>1. /\ k \in Nat /\ NurseryLimit \in Nat /\ TenuredStart \in Nat /\ NurseryLimit < TenuredStart
      /\ NurseryStart \in Nat /\ TenuredLimit \in Nat
      /\ \A a \in LargeAddrs : a \in Nat /\ TenuredLimit < a
      /\ PromotionAge \in Nat \ {0}
  BY Limits
<1>2. Total(k) \in Nat \ {0} /\ Total(k) = 1 + k
  BY <1>1 DEF Total, Off
<1>3. /\ np \in Nat /\ g.tenured_free \in Nat /\ np <= NurseryLimit /\ NurseryStart <= np
      /\ TenuredStart <= g.tenured_free /\ g.tenured_free <= TenuredLimit
      /\ Tenured(g) \subseteq DOMAIN g.heap /\ g.large \subseteq DOMAIN g.heap
      /\ g.large \subseteq LargeAddrs /\ Young(g) \subseteq DOMAIN g.heap
      /\ \A h \in Young(g) : NurseryStart <= h /\ h < np
      /\ \A h \in Tenured(g) : TenuredStart <= h /\ h < g.tenured_free
      /\ Apart(g, Young(g), np)
  BY Where
<1>4. CASE np + Total(k) > NurseryLimit
  BY <1>4 DEF AllocFastUnlocked, Failed
<1>5. CASE ~(np + Total(k) > NurseryLimit)
  <2>1. res = [gc |-> [m EXCEPT !.nursery_ptr = @ + Total(k)], obj |-> Object(np)]
    BY <1>5 DEF AllocFastUnlocked
  <2>2. DOMAIN g.heap \subseteq Nat /\ DOMAIN g.heap = Young(g) \cup Tenured(g) \cup g.large
    BY DEF IsGc, Spaces, Old
  <2>3. \A a \in Tenured(g) \cup g.large : np + Total(k) <= a
    BY <1>1, <1>2, <1>3, <1>5, <2>2
  <2>4. np \notin DOMAIN g.heap
    BY <1>2, <1>3, <2>2, <2>3
  <2>5. /\ IsGc(m) /\ Grown(g, m, np, k, 0)
        /\ m.nursery_ptr = np /\ m.tenured_free = g.tenured_free /\ m.large = g.large
    BY <1>1, <1>3, <2>4, InitFields
  <2> HIDE DEF m
  <2>6. [m EXCEPT !.nursery_ptr = @ + Total(k)] = n
    BY <2>5
  <2>7. res.gc = n /\ res.obj = np + 1
    BY <2>1, <2>6, ObjectAt
  <2>8. n = [m EXCEPT !.nursery_ptr = np + Total(k)]
    OBVIOUS
  <2> HIDE DEF n
  <2>9. /\ n.heap = m.heap /\ n.nursery_ptr = np + Total(k) /\ n.tenured_free = m.tenured_free
        /\ n.large = m.large /\ n.remembered = m.remembered /\ n.root = m.root
        /\ n.reg = m.reg /\ n.aborted = m.aborted
    BY <2>5, <2>8 DEF IsGc
  <2>10. n \in [heap : {m.heap}, nursery_ptr : Nat, tenured_free : Nat, large : SUBSET LargeAddrs,
               remembered : {m.remembered}, root : {m.root}, reg : [Roots -> 0..MaxReg],
               aborted : BOOLEAN]
    <3>1. np + Total(k) \in Nat
      BY <1>2, <1>3
    <3> QED BY <2>5, <2>8, <3>1 DEF IsGc
  <2>11. IsGc(n)
    BY <2>5, <2>9, <2>10 DEF IsGc
  <2>12. Grown(g, n, np, k, 0)
    BY <2>5, <2>9 DEF Grown
  <2>13. DOMAIN n.heap = Young(g) \cup Tenured(g) \cup g.large \cup {np}
    BY <2>2, <2>12 DEF Grown
  <2>14. Young(n) = Young(g) \cup {np}
    <3>1. Young(n) = {a \in DOMAIN n.heap : NurseryStart <= a /\ a < np + Total(k)}
      BY <2>9 DEF Young
    <3>2. \A a \in Young(g) \cup {np} : NurseryStart <= a /\ a < np + Total(k)
      BY <1>2, <1>3, <2>2
    <3>3. \A a \in Tenured(g) \cup g.large : ~(a < np + Total(k))
      BY <1>2, <1>3, <2>2, <2>3
    <3> QED BY <3>1, <3>2, <3>3, <2>13
  <2>15. Tenured(n) = Tenured(g) /\ Old(n) = Old(g)
    <3>1. Tenured(n) = {a \in DOMAIN g.heap \cup {np} : TenuredStart <= a /\ a < g.tenured_free}
      BY <2>5, <2>9, <2>12 DEF Tenured, Grown
    <3>2. ~(TenuredStart <= np)
      BY <1>1, <1>3
    <3>3. Tenured(n) = Tenured(g)
      BY <3>1, <3>2 DEF Tenured
    <3> QED BY <3>3, <2>5, <2>9 DEF Old
  <2>16. \A a \in DOMAIN g.heap : Units(n, a) = Units(g, a)
    BY <2>12 DEF Units, Grown
  <2>17. Units(n, np) = Total(k)
    BY <2>12 DEF Units, Grown
  <2>18. Packed(n, Young(n), NurseryStart, n.nursery_ptr, NurseryLimit)
    <3>1. Packed(g, Young(g), NurseryStart, np, NurseryLimit)
      BY DEF Spaces
    <3>2. NurseryStart \in Young(n)
      BY <2>14, <3>1 DEF Packed
    <3>3. ASSUME NEW a \in Young(n) PROVE a + Units(n, a) \in Young(n) \cup {np + Total(k)}
      <4>1. CASE a = np
        BY <4>1, <2>17
      <4>2. CASE a \in Young(g)
        BY <4>2, <2>14, <2>16, <1>3, <3>1 DEF Packed
      <4> QED BY <4>1, <4>2, <2>14
    <3>4. ASSUME NEW a \in Young(n), NEW c \in Young(n), a < c PROVE a + Units(n, a) <= c
      <4>1. CASE a \in Young(g) /\ c \in Young(g)
        BY <4>1, <2>16, <1>3, <3>1, <3>4 DEF Packed
      <4>2. CASE a \in Young(g) /\ c = np
        BY <4>2, <2>16, <1>3 DEF Apart
      <4>3. CASE a = np
        BY <4>3, <3>4, <2>14, <1>3, <2>2
      <4> QED BY <4>1, <4>2, <4>3, <2>14
    <3>5. np + Total(k) <= NurseryLimit
      BY <1>1, <1>2, <1>3, <1>5
    <3> QED BY <2>9, <3>2, <3>3, <3>4, <3>5 DEF Packed
  <2>19. Packed(n, Tenured(n), TenuredStart, n.tenured_free, TenuredLimit)
    BY <2>5, <2>9, <2>15, <2>16, <1>3 DEF Spaces, Packed
  <2>20. DOMAIN n.heap = Young(n) \cup Old(n)
    BY <2>13, <2>14, <2>15 DEF Old
  <2>21. ASSUME NEW a \in DOMAIN n.heap PROVE n.heap[a].age = PromotionAge <=> a \in Old(n)
    <3>1. CASE a \in DOMAIN g.heap
      BY <3>1, <2>12, <2>15 DEF Spaces, Grown
    <3>2. CASE a = np
      <4>1. a \notin Old(n)
        BY <3>2, <2>2, <2>4, <2>15 DEF Old
      <4>2. n.heap[np].age = 0
        BY <2>12 DEF Grown
      <4>3. PromotionAge # 0
        BY <1>1
      <4> QED BY <3>2, <4>1, <4>2, <4>3
    <3> QED BY <3>1, <3>2, <2>12 DEF Grown
  <2>22. Spaces(n)
    BY <2>18, <2>19, <2>20, <2>21 DEF Spaces
  <2>23. np + Total(k) <= NurseryLimit
    BY <1>1, <1>2, <1>3, <1>5
  <2> QED BY <1>3, <2>5, <2>7, <2>9, <2>11, <2>12, <2>14, <2>15, <2>22, <2>23 DEF Allocated
<1> QED BY <1>4, <1>5

LEMMA TenuredAllocates ==
  ASSUME prog \in Programs, NEW g, IsGc(g), Spaces(g), NEW k \in prog.sizes,
         NEW res, res = AllocTenured(g, k)
  PROVE  \/ res = Failed(g) /\ res.gc = g /\ res.obj = 0
         \/ /\ Allocated(g, res, g.tenured_free, k, PromotionAge)
            /\ res.gc.nursery_ptr = g.nursery_ptr /\ res.gc.large = g.large
            /\ res.gc.tenured_free = g.tenured_free + Total(k)
            /\ Young(res.gc) = Young(g)
            /\ Tenured(res.gc) = Tenured(g) \cup {g.tenured_free}
            /\ Old(res.gc) = Old(g) \cup {g.tenured_free}
<1> DEFINE tf == g.tenured_free
           m == InitObject(g, tf, k, PromotionAge)
           n == [m EXCEPT !.tenured_free = tf + Total(k)]
<1>1. /\ k \in Nat /\ NurseryLimit \in Nat /\ TenuredStart \in Nat /\ NurseryLimit < TenuredStart
      /\ NurseryStart \in Nat /\ TenuredLimit \in Nat
      /\ \A a \in LargeAddrs : a \in Nat /\ TenuredLimit < a
      /\ PromotionAge \in Nat
  BY Limits
<1>2. Total(k) \in Nat \ {0} /\ Total(k) = 1 + k
  BY <1>1 DEF Total, Off
<1>3. /\ tf \in Nat /\ g.nursery_ptr \in Nat /\ g.nursery_ptr <= NurseryLimit
      /\ TenuredStart <= tf /\ tf <= TenuredLimit
      /\ Tenured(g) \subseteq DOMAIN g.heap /\ g.large \subseteq DOMAIN g.heap
      /\ g.large \subseteq LargeAddrs /\ Young(g) \subseteq DOMAIN g.heap
      /\ \A h \in Young(g) : NurseryStart <= h /\ h < g.nursery_ptr
      /\ \A h \in Tenured(g) : TenuredStart <= h /\ h < tf
      /\ Apart(g, Tenured(g), tf)
  BY Where
<1>4. CASE tf + Total(k) > TenuredLimit
  BY <1>4 DEF AllocTenured, Failed
<1>5. CASE ~(tf + Total(k) > TenuredLimit)
  <2>1. res = [gc |-> [m EXCEPT !.tenured_free = @ + Total(k)], obj |-> Object(tf)]
    BY <1>5 DEF AllocTenured
  <2>2. DOMAIN g.heap \subseteq Nat /\ DOMAIN g.heap = Young(g) \cup Tenured(g) \cup g.large
    BY DEF IsGc, Spaces, Old
  <2>3. \A a \in g.large : tf + Total(k) < a
    BY <1>1, <1>2, <1>3, <1>5, <2>2
  <2>4. tf \notin DOMAIN g.heap
    BY <1>1, <1>2, <1>3, <2>2, <2>3
  <2>5. /\ IsGc(m) /\ Grown(g, m, tf, k, PromotionAge)
        /\ m.nursery_ptr = g.nursery_ptr /\ m.tenured_free = tf /\ m.large = g.large
    <3>1. k \in Nat /\ PromotionAge \in Nat /\ tf \in Nat
      BY <1>1, <1>3
    <3> HIDE DEF tf
    <3>2. m = InitObject(g, tf, k, PromotionAge)
      OBVIOUS
    <3>3. m.tenured_free = g.tenured_free => m.tenured_free = tf
      BY DEF tf
    <3> HIDE DEF m
    <3> QED BY <2>4, <3>1, <3>2, <3>3, InitFields
  <2> HIDE DEF m
  <2>6. [m EXCEPT !.tenured_free = @ + Total(k)] = n
    BY <2>5
  <2>7. res.gc = n /\ res.obj = tf + 1
    BY <2>1, <2>6, ObjectAt
  <2>8. n = [m EXCEPT !.tenured_free = tf + Total(k)]
    OBVIOUS
  <2> HIDE DEF n
  <2>9. /\ n.heap = m.heap /\ n.tenured_free = tf + Total(k) /\ n.nursery_ptr = m.nursery_ptr
        /\ n.large = m.large /\ n.remembered = m.remembered /\ n.root = m.root
        /\ n.reg = m.reg /\ n.aborted = m.aborted
    BY <2>5, <2>8 DEF IsGc
  <2>10. n \in [heap : {m.heap}, nursery_ptr : Nat, tenured_free : Nat, large : SUBSET LargeAddrs,
               remembered : {m.remembered}, root : {m.root}, reg : [Roots -> 0..MaxReg],
               aborted : BOOLEAN]
    <3>1. tf + Total(k) \in Nat
      BY <1>2, <1>3
    <3> QED BY <2>5, <2>8, <3>1 DEF IsGc
  <2>11. IsGc(n)
    BY <2>5, <2>9, <2>10 DEF IsGc
  <2>12. Grown(g, n, tf, k, PromotionAge)
    BY <2>5, <2>9 DEF Grown
  <2>13. DOMAIN n.heap = Young(g) \cup Tenured(g) \cup g.large \cup {tf}
    BY <2>2, <2>12 DEF Grown
  <2>14. Tenured(n) = Tenured(g) \cup {tf}
    <3>1. Tenured(n) = {a \in DOMAIN n.heap : TenuredStart <= a /\ a < tf + Total(k)}
      BY <2>9 DEF Tenured
    <3>2. \A a \in Tenured(g) \cup {tf} : TenuredStart <= a /\ a < tf + Total(k)
      BY <1>1, <1>2, <1>3, <2>2
    <3>3. \A a \in Young(g) : ~(TenuredStart <= a)
      BY <1>1, <1>3, <2>2
    <3>4. \A a \in g.large : ~(a < tf + Total(k))
      BY <1>2, <1>3, <2>2, <2>3
    <3> QED BY <3>1, <3>2, <3>3, <3>4, <2>13
  <2>15. Young(n) = Young(g) /\ Old(n) = Old(g) \cup {tf}
    <3>1. Young(n) = {a \in DOMAIN g.heap \cup {tf} : NurseryStart <= a /\ a < g.nursery_ptr}
      BY <2>5, <2>9, <2>12 DEF Young, Grown
    <3>2. ~(tf < g.nursery_ptr)
      BY <1>1, <1>3
    <3>3. Young(n) = Young(g)
      BY <3>1, <3>2 DEF Young
    <3> QED BY <3>3, <2>5, <2>9, <2>14 DEF Old
  <2>16. \A a \in DOMAIN g.heap : Units(n, a) = Units(g, a)
    BY <2>12 DEF Units, Grown
  <2>17. Units(n, tf) = Total(k)
    BY <2>12 DEF Units, Grown
  <2>18. Packed(n, Tenured(n), TenuredStart, n.tenured_free, TenuredLimit)
    <3>1. Packed(g, Tenured(g), TenuredStart, tf, TenuredLimit)
      BY DEF Spaces
    <3>2. TenuredStart \in Tenured(n)
      BY <2>14, <3>1 DEF Packed
    <3>3. ASSUME NEW a \in Tenured(n) PROVE a + Units(n, a) \in Tenured(n) \cup {tf + Total(k)}
      <4>1. CASE a = tf
        BY <4>1, <2>17
      <4>2. CASE a \in Tenured(g)
        BY <4>2, <2>14, <2>16, <1>3, <3>1 DEF Packed
      <4> QED BY <4>1, <4>2, <2>14
    <3>4. ASSUME NEW a \in Tenured(n), NEW c \in Tenured(n), a < c PROVE a + Units(n, a) <= c
      <4>1. CASE a \in Tenured(g) /\ c \in Tenured(g)
        BY <4>1, <2>16, <1>3, <3>1, <3>4 DEF Packed
      <4>2. CASE a \in Tenured(g) /\ c = tf
        BY <4>2, <2>16, <1>3 DEF Apart
      <4>3. CASE a = tf
        BY <4>3, <3>4, <2>14, <1>3, <2>2
      <4> QED BY <4>1, <4>2, <4>3, <2>14
    <3>5. tf + Total(k) <= TenuredLimit
      BY <1>1, <1>2, <1>3, <1>5
    <3> QED BY <2>9, <3>2, <3>3, <3>4, <3>5 DEF Packed
  <2>19. Packed(n, Young(n), NurseryStart, n.nursery_ptr, NurseryLimit)
    BY <2>5, <2>9, <2>15, <2>16, <1>3 DEF Spaces, Packed
  <2>20. DOMAIN n.heap = Young(n) \cup Old(n)
    BY <2>13, <2>15 DEF Old
  <2>21. ASSUME NEW a \in DOMAIN n.heap PROVE n.heap[a].age = PromotionAge <=> a \in Old(n)
    <3>1. CASE a \in DOMAIN g.heap
      BY <3>1, <2>4, <2>12, <2>15 DEF Spaces, Grown
    <3>2. CASE a = tf
      BY <3>2, <2>12, <2>15 DEF Grown
    <3> QED BY <3>1, <3>2, <2>12 DEF Grown
  <2>22. Spaces(n)
    BY <2>18, <2>19, <2>20, <2>21 DEF Spaces
  <2> QED BY <1>3, <2>5, <2>7, <2>9, <2>11, <2>12, <2>14, <2>15, <2>22 DEF Allocated
<1> QED BY <1>4, <1>5

LEMMA LargeAllocates ==
  ASSUME prog \in Programs, NEW g, IsGc(g), Spaces(g), NEW k \in prog.sizes,
         NEW res, res = AllocLarge(g, k)
  PROVE  \/ res = Failed(g) /\ res.gc = g /\ res.obj = 0
         \/ \E h \in LargeAddrs :
              /\ Allocated(g, res, h, k, PromotionAge)
              /\ res.gc.nursery_ptr = g.nursery_ptr /\ res.gc.large = g.large \cup {h}
              /\ res.gc.tenured_free = g.tenured_free
              /\ Young(res.gc) = Young(g)
              /\ Tenured(res.gc) = Tenured(g)
              /\ Old(res.gc) = Old(g) \cup {h}
<1>1. /\ k \in Nat /\ NurseryLimit \in Nat /\ TenuredStart \in Nat /\ NurseryLimit < TenuredStart
      /\ NurseryStart \in Nat /\ TenuredLimit \in Nat /\ TenuredStart <= TenuredLimit
      /\ \A a \in LargeAddrs : a \in Nat /\ TenuredLimit < a
      /\ PromotionAge \in Nat
  BY Limits
<1>3. /\ g.tenured_free \in Nat /\ g.nursery_ptr \in Nat /\ g.nursery_ptr <= NurseryLimit
      /\ g.tenured_free <= TenuredLimit
      /\ Tenured(g) \subseteq DOMAIN g.heap /\ g.large \subseteq DOMAIN g.heap
      /\ g.large \subseteq LargeAddrs /\ Young(g) \subseteq DOMAIN g.heap
      /\ \A h \in Young(g) : NurseryStart <= h /\ h < g.nursery_ptr
      /\ \A h \in Tenured(g) : TenuredStart <= h /\ h < g.tenured_free
  BY Where
<1>4. CASE LargeAddrs \subseteq g.large
  BY <1>4 DEF AllocLarge, Failed
<1>5. CASE ~(LargeAddrs \subseteq g.large)
  <2> DEFINE h == CHOOSE a \in LargeAddrs \ g.large : TRUE
             m == InitObject(g, h, k, PromotionAge)
             z == g.large \cup {h}
             n == [m EXCEPT !.large = z]
  <2>1. res = [gc |-> [m EXCEPT !.large = @ \cup {h}], obj |-> Object(h)]
    BY <1>5 DEF AllocLarge
  <2>2. DOMAIN g.heap \subseteq Nat /\ DOMAIN g.heap = Young(g) \cup Tenured(g) \cup g.large
    BY DEF IsGc, Spaces, Old
  <2>3. h \in LargeAddrs /\ h \notin g.large
    BY <1>5
  <2> HIDE DEF h
  <2>23. h \in Nat /\ g.nursery_ptr < h /\ g.tenured_free < h
    BY <2>3, <1>1, <1>3
  <2>4. h \notin DOMAIN g.heap
    BY <1>1, <1>3, <2>2, <2>3, <2>23
  <2>5. /\ IsGc(m) /\ Grown(g, m, h, k, PromotionAge)
        /\ m.nursery_ptr = g.nursery_ptr /\ m.tenured_free = g.tenured_free /\ m.large = g.large
    <3>1. k \in Nat /\ PromotionAge \in Nat /\ h \in Nat
      BY <1>1, <2>23
    <3>2. m = InitObject(g, h, k, PromotionAge)
      OBVIOUS
    <3> HIDE DEF m
    <3> QED BY <2>4, <3>1, <3>2, InitFields
  <2> HIDE DEF m
  <2>6. [m EXCEPT !.large = @ \cup {h}] = n
    BY <2>5
  <2>7. res.gc = n /\ res.obj = h + 1
    BY <2>1, <2>6, ObjectAt
  <2>8. n = [m EXCEPT !.large = z] /\ z \subseteq LargeAddrs
    BY <1>3, <2>3
  <2> HIDE DEF n
  <2>9. /\ n.heap = m.heap /\ n.tenured_free = m.tenured_free /\ n.nursery_ptr = m.nursery_ptr
        /\ n.large = z /\ n.remembered = m.remembered /\ n.root = m.root
        /\ n.reg = m.reg /\ n.aborted = m.aborted
    BY <2>5, <2>8 DEF IsGc
  <2>10. n \in [heap : {m.heap}, nursery_ptr : Nat, tenured_free : Nat, large : SUBSET LargeAddrs,
               remembered : {m.remembered}, root : {m.root}, reg : [Roots -> 0..MaxReg],
               aborted : BOOLEAN]
    <3> HIDE DEF z
    <3> QED BY <2>5, <2>8 DEF IsGc
  <2>11. IsGc(n)
    BY <2>5, <2>9, <2>10 DEF IsGc
  <2>12. Grown(g, n, h, k, PromotionAge)
    BY <2>5, <2>9 DEF Grown
  <2>13. DOMAIN n.heap = Young(g) \cup Tenured(g) \cup g.large \cup {h}
    BY <2>2, <2>12 DEF Grown
  <2>14. Tenured(n) = Tenured(g)
    <3>1. Tenured(n) = {a \in DOMAIN g.heap \cup {h} : TenuredStart <= a /\ a < g.tenured_free}
      BY <2>5, <2>9, <2>12 DEF Tenured, Grown
    <3>2. ~(h < g.tenured_free)
      BY <2>23, <1>3
    <3> QED BY <3>1, <3>2 DEF Tenured
  <2>15. Young(n) = Young(g) /\ Old(n) = Old(g) \cup {h}
    <3>1. Young(n) = {a \in DOMAIN g.heap \cup {h} : NurseryStart <= a /\ a < g.nursery_ptr}
      BY <2>5, <2>9, <2>12 DEF Young, Grown
    <3>2. ~(h < g.nursery_ptr)
      BY <2>23, <1>3
    <3>3. Young(n) = Young(g)
      BY <3>1, <3>2 DEF Young
    <3> QED BY <3>3, <2>5, <2>9, <2>14 DEF Old
  <2>16. \A a \in DOMAIN g.heap : Units(n, a) = Units(g, a)
    BY <2>12 DEF Units, Grown
  <2>18. Packed(n, Tenured(n), TenuredStart, n.tenured_free, TenuredLimit)
    BY <2>5, <2>9, <2>14, <2>16, <1>3 DEF Spaces, Packed
  <2>19. Packed(n, Young(n), NurseryStart, n.nursery_ptr, NurseryLimit)
    BY <2>5, <2>9, <2>15, <2>16, <1>3 DEF Spaces, Packed
  <2>20. DOMAIN n.heap = Young(n) \cup Old(n)
    BY <2>13, <2>15 DEF Old
  <2>21. ASSUME NEW a \in DOMAIN n.heap PROVE n.heap[a].age = PromotionAge <=> a \in Old(n)
    <3>1. CASE a \in DOMAIN g.heap
      BY <3>1, <2>4, <2>12, <2>15 DEF Spaces, Grown
    <3>2. CASE a = h
      BY <3>2, <2>12, <2>15 DEF Grown
    <3> QED BY <3>1, <3>2, <2>12 DEF Grown
  <2>22. Spaces(n)
    BY <2>18, <2>19, <2>20, <2>21 DEF Spaces
  <2>24. Allocated(g, res, h, k, PromotionAge)
    BY <2>7, <2>11, <2>12, <2>22, <2>23 DEF Allocated
  <2> QED BY <2>3, <2>5, <2>7, <2>9, <2>14, <2>15, <2>24
<1> QED BY <1>4, <1>5

-----------------------------------------------------------------------------
(* Collections *)

LEMMA ForwardsAre ==
  ASSUME NEW to, DOMAIN to \subseteq Nat, \A h \in DOMAIN to : to[h] \in Nat,
         NEW fwd, fwd = Forwards(to)
  PROVE  /\ \A p : p \in DOMAIN fwd <=> \E h \in DOMAIN to : to[h] # h /\ p = h + 1
         /\ \A h \in DOMAIN to : to[h] # h => fwd[h + 1] = to[h] + 1
         /\ \A p \in DOMAIN fwd : fwd[p] \in Nat
         /\ \A p \in DOMAIN fwd : \E h \in DOMAIN to : fwd[p] = to[h] + 1 /\ p = h + 1
<1> DEFINE S == {k \in DOMAIN to : to[k] # k}
           T == {Object(h) : h \in S}
<1>1. fwd = [p \in T |-> Object(to[Header(p)])]
  BY DEF Forwards
<1>2. \A p : p \in T <=> \E h \in DOMAIN to : to[h] # h /\ p = h + 1
  BY ObjectAt
<1> HIDE DEF T, S
<1>3. DOMAIN fwd = T
  BY <1>1
<1>4. ASSUME NEW h \in DOMAIN to, to[h] # h PROVE fwd[h + 1] = to[h] + 1
  <2>1. h + 1 \in T
    BY <1>2, <1>4
  <2>2. fwd[h + 1] = Object(to[Header(h + 1)])
    BY <1>1, <2>1
  <2>3. Header(h + 1) = h
    BY ObjectAt
  <2> QED BY <2>2, <2>3, ObjectAt
<1>5. ASSUME NEW p \in DOMAIN fwd
      PROVE  fwd[p] \in Nat /\ \E h \in DOMAIN to : fwd[p] = to[h] + 1 /\ p = h + 1
  <2>1. PICK h \in DOMAIN to : to[h] # h /\ p = h + 1
    BY <1>2, <1>3
  <2>2. fwd[p] = to[h] + 1
    BY <1>4, <2>1
  <2> QED BY <2>1, <2>2
<1> QED BY <1>2, <1>3, <1>4, <1>5

(* A reference to an object that was moved follows it. *)
LEMMA Followed ==
  ASSUME NEW to, DOMAIN to \subseteq Nat, \A h \in DOMAIN to : to[h] \in Nat,
         NEW fwd, fwd = Forwards(to), NEW ref, IsRef(ref)
  PROVE  /\ \A h \in DOMAIN to : ref.ptr = h + 1 =>
              /\ IsRef(Forward(fwd, ref)) /\ Forward(fwd, ref).id = ref.id
              /\ Forward(fwd, ref).ptr = to[h] + 1
         /\ (\A h \in DOMAIN to : ref.ptr # h + 1) => Forward(fwd, ref) = ref
<1>1. /\ \A p : p \in DOMAIN fwd <=> \E h \in DOMAIN to : to[h] # h /\ p = h + 1
      /\ \A h \in DOMAIN to : to[h] # h => fwd[h + 1] = to[h] + 1
  BY ForwardsAre
<1>2. ASSUME NEW h \in DOMAIN to, ref.ptr = h + 1
      PROVE  /\ IsRef(Forward(fwd, ref)) /\ Forward(fwd, ref).id = ref.id
             /\ Forward(fwd, ref).ptr = to[h] + 1
  <2>1. CASE to[h] = h
    <3>1. ref.ptr \notin DOMAIN fwd
      <4> SUFFICES ASSUME ref.ptr \in DOMAIN fwd PROVE FALSE
        OBVIOUS
      <4>1. PICK k \in DOMAIN to : to[k] # k /\ ref.ptr = k + 1
        BY <1>1
      <4>2. k = h
        BY <4>1, <1>2
      <4> QED BY <4>1, <4>2, <2>1
    <3>2. Forward(fwd, ref) = ref
      BY <3>1 DEF Forward
    <3> QED BY <3>2, <2>1, <1>2
  <2>2. CASE to[h] # h
    <3>1. ref.ptr \in DOMAIN fwd /\ fwd[ref.ptr] = to[h] + 1
      BY <2>2, <1>1, <1>2
    <3>2. Forward(fwd, ref) = [ref EXCEPT !.ptr = to[h] + 1]
      BY <3>1 DEF Forward
    <3> QED BY <3>2 DEF IsRef
  <2> QED BY <2>1, <2>2
<1>3. ASSUME \A h \in DOMAIN to : ref.ptr # h + 1 PROVE Forward(fwd, ref) = ref
  BY <1>1, <1>3 DEF Forward
<1> QED BY <1>2, <1>3

LEMMA TracedFields ==
  ASSUME prog \in Programs, NEW g, IsGc(g), NEW n, n = Traced(g)
  PROVE  /\ IsGc(n) /\ SameShape(g, n)
         /\ n.remembered = g.remembered /\ n.root = g.root
         /\ n.reg = g.reg /\ n.aborted = g.aborted
         /\ \A h \in DOMAIN g.heap :
              n.heap[h].slots = g.heap[h].slots /\ n.heap[h].id = g.heap[h].id
<1> DEFINE c == ClearLargeMarks(g)
<1>1. /\ IsGc(c) /\ SameShape(g, c)
      /\ c.remembered = g.remembered /\ c.root = g.root
      /\ c.reg = g.reg /\ c.aborted = g.aborted
      /\ \A h \in DOMAIN g.heap :
           c.heap[h].slots = g.heap[h].slots /\ c.heap[h].id = g.heap[h].id
  BY ClearFields
<1>2. n = MarkFromRoots(c)
  BY DEF Traced
<1> HIDE DEF c
<1>3. PICK ps : n = Mark(c, ps)
  BY <1>2 DEF MarkFromRoots
<1>4. /\ IsGc(n) /\ SameShape(c, n)
      /\ n.remembered = c.remembered /\ n.root = c.root
      /\ n.reg = c.reg /\ n.aborted = c.aborted
      /\ \A h \in DOMAIN c.heap :
           n.heap[h].slots = c.heap[h].slots /\ n.heap[h].id = c.heap[h].id
  BY <1>1, <1>3, MarkFields
<1> QED BY <1>1, <1>4 DEF SameShape

LEMMA AbortFields ==
  ASSUME NEW g, IsGc(g), NEW n, n = [g EXCEPT !.aborted = TRUE]
  PROVE  /\ IsGc(n) /\ SameShape(g, n) /\ n.aborted = TRUE
         /\ n.remembered = g.remembered /\ n.root = g.root /\ n.reg = g.reg /\ n.heap = g.heap
<1>1. /\ n.heap = g.heap /\ n.nursery_ptr = g.nursery_ptr /\ n.tenured_free = g.tenured_free
      /\ n.large = g.large /\ n.remembered = g.remembered /\ n.root = g.root
      /\ n.reg = g.reg /\ n.aborted = TRUE
  BY DEF IsGc
<1>2. n \in [heap : {g.heap}, nursery_ptr : Nat, tenured_free : Nat, large : SUBSET LargeAddrs,
             remembered : {g.remembered}, root : {g.root}, reg : [Roots -> 0..MaxReg],
             aborted : BOOLEAN]
  BY DEF IsGc
<1>3. IsGc(n)
  BY <1>1, <1>2 DEF IsGc
<1> QED BY <1>1, <1>3 DEF SameShape

LEMMA PromoteSpaces ==
  ASSUME prog \in Programs, NEW g, IsGc(g), Spaces(g), NEW n, n = PromoteSurvivors(g)
  PROVE  IsGc(n) /\ Spaces(n)
<1>1. CASE PromoteFree(g) > TenuredLimit
  <2>1. n = [g EXCEPT !.aborted = TRUE]
    BY <1>1, PromoteIs
  <2>2. IsGc(n) /\ SameShape(g, n)
    BY <2>1, AbortFields
  <2> QED BY <2>2, SpacesSame
<1>2. CASE ~(PromoteFree(g) > TenuredLimit)
  <2> DEFINE m == PromoteMoved(g)
             fwd == Forwards(PromoteTo(g))
  <2>1. n = ApplyForwards(m, fwd)
    BY <1>2, PromoteIs
  <2>2. IsGc(m) /\ Spaces(m)
    BY <1>2, PromoteState
  <2>3. DOMAIN PromoteTo(g) = Live(g) /\ Live(g) \subseteq Nat /\ \A h \in Live(g) : PromoteTo(g)[h] \in Nat
    <3>1. DOMAIN PromoteTo(g) = Live(g)
      BY DEF PromoteTo
    <3>2. Live(g) \subseteq Nat
      BY DEF Live, Young, IsGc
    <3>3. Live(g) = Stay(g) \cup Promo(g)
      BY DEF Stay, Promo
    <3>4. (\A h \in Stay(g) : PromoteTo(g)[h] \in Nat) /\ (\A h \in Promo(g) : PromoteTo(g)[h] \in Nat)
      BY PromoteLayout
    <3> QED BY <3>1, <3>2, <3>3, <3>4
  <2>4. \A p \in DOMAIN fwd : fwd[p] \in Nat
    BY <2>3, ForwardsAre
  <2> HIDE DEF m, fwd
  <2>5. IsGc(n) /\ SameShape(m, n)
    BY <2>1, <2>2, <2>4, ApplyFields
  <2> QED BY <2>2, <2>5, SpacesSame
<1> QED BY <1>1, <1>2

LEMMA MinorSpaces ==
  ASSUME prog \in Programs, NEW g, IsGc(g), Spaces(g), NEW n, n = MinorCollect(g)
  PROVE  IsGc(n) /\ Spaces(n)
<1> DEFINE t == Traced(g)
           p == PromoteSurvivors(t)
<1>1. IsGc(t) /\ SameShape(g, t)
  BY TracedFields
<1>2. Spaces(t)
  BY <1>1, SpacesSame
<1>3. n = IF p.aborted THEN p ELSE RebuildRemembered(p)
  BY DEF MinorCollect, Traced
<1> HIDE DEF t
<1>4. IsGc(p) /\ Spaces(p)
  BY <1>1, <1>2, PromoteSpaces
<1> HIDE DEF p
<1>5. IsGc(RebuildRemembered(p)) /\ SameShape(p, RebuildRemembered(p))
  BY <1>4, RebuildFields
<1>6. Spaces(RebuildRemembered(p))
  BY <1>4, <1>5, SpacesSame
<1> QED BY <1>3, <1>4, <1>5, <1>6

LEMMA SweepSpaces ==
  ASSUME prog \in Programs, NEW g, IsGc(g), Spaces(g), NEW n, n = SweepTenured(g)
  PROVE  IsGc(n) /\ Spaces(n)
<1> DEFINE m == SweepMoved(g)
           fwd == Forwards(SweepTo(g))
           a == ApplyForwards(m, fwd)
<1>1. n = RebuildRemembered(a)
  BY SweepIs
<1>2. IsGc(m) /\ Spaces(m)
  BY SweepState
<1>3. DOMAIN SweepTo(g) = SweepLive(g) /\ SweepLive(g) \subseteq Nat /\ \A h \in SweepLive(g) : SweepTo(g)[h] \in Nat
  <2>1. DOMAIN SweepTo(g) = SweepLive(g)
    BY DEF SweepTo
  <2>2. SweepLive(g) \subseteq Nat
    BY DEF SweepLive, Tenured, IsGc
  <2>3. \A h \in SweepLive(g) : SweepTo(g)[h] \in Nat
    BY SweepLayout
  <2> QED BY <2>1, <2>2, <2>3
<1>4. \A p \in DOMAIN fwd : fwd[p] \in Nat
  BY <1>3, ForwardsAre
<1> HIDE DEF m, fwd
<1>5. IsGc(a) /\ SameShape(m, a)
  BY <1>2, <1>4, ApplyFields
<1> HIDE DEF a
<1>6. IsGc(n) /\ SameShape(a, n)
  BY <1>1, <1>5, RebuildFields
<1> QED BY <1>2, <1>5, <1>6, SpacesSame

LEMMA MajorSpaces ==
  ASSUME prog \in Programs, NEW g, IsGc(g), Spaces(g), NEW n, n = MajorCollect(g)
  PROVE  IsGc(n) /\ Spaces(n)
<1> DEFINE m == MinorCollect(g)
           s == SweepTenured(m)
           l == SweepLarge(s)
<1>1. n = IF m.aborted THEN m ELSE RebuildRemembered(l)
  BY DEF MajorCollect
<1>2. IsGc(m) /\ Spaces(m)
  BY MinorSpaces
<1> HIDE DEF m
<1>3. IsGc(s) /\ Spaces(s)
  BY <1>2, SweepSpaces
<1> HIDE DEF s
<1>4. IsGc(l) /\ Spaces(l)
  BY <1>3, SweepLargeFields
<1> HIDE DEF l
<1>5. IsGc(RebuildRemembered(l)) /\ SameShape(l, RebuildRemembered(l))
  BY <1>4, RebuildFields
<1>6. Spaces(RebuildRemembered(l))
  BY <1>4, <1>5, SpacesSame
<1> QED BY <1>1, <1>2, <1>4, <1>5, <1>6

-----------------------------------------------------------------------------
(* Marking *)

LEMMA UnmarkedAre ==
  ASSUME NEW g, NEW ps, NEW h
  PROVE  h \in Unmarked(g, ps)
           <=> \E p \in ps : p # 0 /\ h = p - 1 /\ h \in DOMAIN g.heap /\ ~g.heap[h].marked
<1>1. h \in Unmarked(g, ps)
        <=> \E p \in ps : IsObject(g, p) /\ ~g.heap[Header(p)].marked /\ h = Header(p)
  BY DEF Unmarked
<1>2. \A p : Header(p) = p - 1
  BY ObjectAt
<1> QED BY <1>1, <1>2 DEF IsObject

(* Marking goes on until nothing that was unmarked is left to follow. *)
LEMMA MarkedClosed ==
  ASSUME NEW g, NEW ps
  PROVE  /\ Unmarked(g, ps) \subseteq Marked(g, ps)
         /\ \A h \in Marked(g, ps) : Unmarked(g, Refs(g, h)) \subseteq Marked(g, ps)
<1> DEFINE first == Unmarked(g, ps)
           others == DOMAIN g.heap \ first
           closed == {S \in SUBSET others :
                        Unmarked(g, UNION {Refs(g, h) : h \in first \cup S}) \subseteq first \cup S}
<1>1. Marked(g, ps) = first \cup {h \in others : \A S \in closed : h \in S}
  BY DEF Marked
<1>2. ASSUME NEW h \in Marked(g, ps), NEW x \in Unmarked(g, Refs(g, h))
      PROVE  x \in Marked(g, ps)
  <2>1. CASE x \in first
    BY <1>1, <2>1
  <2>2. CASE x \notin first
    <3>1. PICK p \in Refs(g, h) :
             p # 0 /\ x = p - 1 /\ x \in DOMAIN g.heap /\ ~g.heap[x].marked
      BY UnmarkedAre, Zenon
    <3>2. x \in others
      BY <2>2, <3>1
    <3>3. ASSUME NEW S \in closed PROVE x \in S
      <4>1. h \in first \cup S
        BY <1>1
      <4>2. p \in UNION {Refs(g, k) : k \in first \cup S}
        BY <4>1
      <4>3. x \in Unmarked(g, UNION {Refs(g, k) : k \in first \cup S})
        <5> DEFINE qs == UNION {Refs(g, k) : k \in first \cup S}
        <5>1. p \in qs
          BY <4>2
        <5> HIDE DEF qs
        <5>2. x \in Unmarked(g, qs)
          BY <5>1, <3>1, UnmarkedAre
        <5> QED BY <5>2 DEF qs
      <4>4. x \in first \cup S
        BY <4>3
      <4> QED BY <4>4, <2>2
    <3> QED BY <1>1, <3>2, <3>3
  <2> QED BY <2>1, <2>2
<1> QED BY <1>1, <1>2

(* What the marking of a minor collection reaches: the objects of the      *)
(* roots and of remembered slots, and what the newly marked ones refer to. *)
LEMMA TracedMarks ==
  ASSUME prog \in Programs, NEW g, IsGc(g), NEW n, n = Traced(g)
  PROVE  /\ \A r \in Roots : g.reg[r] > 0 /\ IsObject(g, g.root[r].ptr)
              => n.heap[g.root[r].ptr - 1].marked
         /\ \A h \in DOMAIN g.heap : \A i \in DOMAIN g.heap[h].slots :
              h + i \in g.remembered /\ IsObject(g, g.heap[h].slots[i].ptr)
                => n.heap[g.heap[h].slots[i].ptr - 1].marked
         /\ \A h \in DOMAIN g.heap : \A i \in DOMAIN g.heap[h].slots :
              ~(g.heap[h].marked /\ h \notin g.large) /\ n.heap[h].marked
                /\ IsObject(g, g.heap[h].slots[i].ptr)
                => n.heap[g.heap[h].slots[i].ptr - 1].marked
<1> DEFINE c == ClearLargeMarks(g)
           ps == Rooted(c) \cup {RefIn(c, s).ptr : s \in {t \in Slots(c) : Addr(t) \in c.remembered}}
<1>1. /\ IsGc(c) /\ SameShape(g, c)
      /\ c.remembered = g.remembered /\ c.root = g.root
      /\ c.reg = g.reg /\ c.aborted = g.aborted
      /\ \A h \in DOMAIN g.heap : 
           /\ c.heap[h].slots = g.heap[h].slots /\ c.heap[h].id = g.heap[h].id
           /\ c.heap[h].marked <=> (g.heap[h].marked /\ h \notin g.large)
  BY ClearFields
<1>2. n = Mark(c, ps)
  BY DEF Traced, MarkFromRoots
<1>3. \A r \in Roots : g.reg[r] > 0 => g.root[r].ptr \in ps
  <2> HIDE DEF c
  <2> QED BY <1>1 DEF Rooted
<1>4. ASSUME NEW h \in DOMAIN g.heap, NEW i \in DOMAIN g.heap[h].slots, h + i \in g.remembered
      PROVE  g.heap[h].slots[i].ptr \in ps
  <2> HIDE DEF c
  <2>1. DOMAIN c.heap = DOMAIN g.heap /\ c.heap[h].slots = g.heap[h].slots
    BY <1>1 DEF SameShape
  <2> DEFINE s == <<h, i>>
  <2>2. s \in Slots(c)
    BY <2>1 DEF Slots
  <2>3. Addr(s) = h + i
    <3>1. h \in Nat /\ i \in Nat
      BY DEF IsGc, IsObj
    <3>2. s[1] = h /\ s[2] = i
      OBVIOUS
    <3> QED BY <3>1, <3>2 DEF Addr, Off
  <2>4. RefIn(c, s).ptr = g.heap[h].slots[i].ptr
    BY <2>1 DEF RefIn
  <2> HIDE DEF s
  <2> QED BY <2>2, <2>3, <2>4, <1>1, <1>4
<1> HIDE DEF c, ps
<1> DEFINE M == Marked(c, ps)
<1>5. \A h \in DOMAIN c.heap : n.heap[h].marked <=> (c.heap[h].marked \/ h \in M)
  BY <1>1, <1>2, MarkFields
<1>6. DOMAIN c.heap = DOMAIN g.heap
  BY <1>1 DEF SameShape
<1>7. Unmarked(c, ps) \subseteq M /\ \A h \in M : Unmarked(c, Refs(c, h)) \subseteq M
  BY MarkedClosed
<1> HIDE DEF M
<1>8. ASSUME NEW p \in ps, IsObject(g, p) PROVE n.heap[p - 1].marked
  <2>1. p # 0 /\ p - 1 \in DOMAIN c.heap
    BY <1>6, <1>8, ObjectAt DEF IsObject
  <2>2. ~c.heap[p - 1].marked => p - 1 \in Unmarked(c, ps)
    BY <2>1, UnmarkedAre
  <2> QED BY <2>1, <2>2, <1>5, <1>7
<1>9. ASSUME NEW h \in DOMAIN g.heap, NEW i \in DOMAIN g.heap[h].slots,
             ~(g.heap[h].marked /\ h \notin g.large), n.heap[h].marked,
             IsObject(g, g.heap[h].slots[i].ptr)
      PROVE  n.heap[g.heap[h].slots[i].ptr - 1].marked
  <2> DEFINE p == g.heap[h].slots[i].ptr
  <2>1. h \in M
    BY <1>1, <1>5, <1>6, <1>9
  <2>2. p \in Refs(c, h)
    BY <1>1 DEF Refs
  <2>3. p # 0 /\ p - 1 \in DOMAIN c.heap
    BY <1>6, <1>9, ObjectAt DEF IsObject
  <2> HIDE DEF p
  <2>4. ~c.heap[p - 1].marked => p - 1 \in Unmarked(c, Refs(c, h))
    BY <2>2, <2>3, UnmarkedAre
  <2>5. n.heap[p - 1].marked
    BY <2>1, <2>3, <2>4, <1>5, <1>7
  <2> QED BY <2>5 DEF p
<1>10. \A r \in Roots : g.reg[r] > 0 /\ IsObject(g, g.root[r].ptr) => n.heap[g.root[r].ptr - 1].marked
  BY <1>3, <1>8
<1>11. \A h \in DOMAIN g.heap : \A i \in DOMAIN g.heap[h].slots :
              h + i \in g.remembered /\ IsObject(g, g.heap[h].slots[i].ptr)
                => n.heap[g.heap[h].slots[i].ptr - 1].marked
  BY <1>4, <1>8
<1> QED BY <1>9, <1>10, <1>11

-----------------------------------------------------------------------------
(* The inductive invariant: the remembered set *)

(* A pointer into the nursery, its unused part included *)
Into(p) == NurseryStart + Off <= p /\ p < NurseryLimit + Off

(* A remembered address is a slot of an old object, *)
Listed(g) ==
  \A a \in g.remembered : \E h \in Old(g) : \E i \in DOMAIN g.heap[h].slots : a = h + i

(* every slot of an old object that refers to the nursery is remembered, *)
Caught(g) ==
  \A h \in Old(g) : \A i \in DOMAIN g.heap[h].slots :
    PointsToNursery(g, g.heap[h].slots[i].ptr) => h + i \in g.remembered

(* no mark outlives a collection in the nursery, *)
Fresh(g) ==
  "mark" \notin prog.ops /\ ~g.aborted => \A h \in Young(g) : ~g.heap[h].marked

(* and no slot refers to the unused part of the nursery, where the next    *)
(* objects go.                                                             *)
Aimed(g) ==
  Tracks => /\ \A h \in Young(g) : Len(g.heap[h].slots) # 0
            /\ \A h \in DOMAIN g.heap : \A i \in DOMAIN g.heap[h].slots :
                 Into(g.heap[h].slots[i].ptr) => g.heap[h].slots[i].ptr - 1 \in Young(g)

Ok(g) ==
  IsGc(g) /\ Spaces(g) /\ Listed(g) /\ (Tracks => Caught(g)) /\ Fresh(g) /\ Aimed(g)

LEMMA OldAre ==
  ASSUME prog \in Programs, NEW g, IsGc(g), Spaces(g)
  PROVE  /\ Old(g) \subseteq DOMAIN g.heap /\ Young(g) \subseteq DOMAIN g.heap
         /\ DOMAIN g.heap = Young(g) \cup Old(g) /\ DOMAIN g.heap \subseteq Nat
         /\ \A h \in Young(g) : 1 <= h /\ h < g.nursery_ptr /\ h < NurseryLimit
         /\ \A h \in Old(g) : NurseryLimit < h /\ h \notin Young(g)
         /\ g.nursery_ptr \in Nat /\ g.nursery_ptr <= NurseryLimit
<1>1. /\ NurseryLimit \in Nat /\ TenuredStart \in Nat /\ NurseryLimit < TenuredStart
      /\ NurseryStart = 1 /\ TenuredLimit \in Nat /\ TenuredStart <= TenuredLimit
      /\ \A a \in LargeAddrs : a \in Nat /\ TenuredLimit < a
  BY Limits
<1>2. /\ g.nursery_ptr \in Nat /\ g.nursery_ptr <= NurseryLimit
      /\ g.large \subseteq LargeAddrs /\ Young(g) \subseteq DOMAIN g.heap
      /\ \A h \in Young(g) : NurseryStart <= h /\ h < g.nursery_ptr
      /\ \A h \in Tenured(g) : TenuredStart <= h /\ h < g.tenured_free
  BY Where
<1>3. DOMAIN g.heap \subseteq Nat /\ DOMAIN g.heap = Young(g) \cup Old(g)
      /\ Old(g) = Tenured(g) \cup g.large
  BY DEF IsGc, Spaces, Old
<1>4. \A h \in Young(g) : 1 <= h /\ h < g.nursery_ptr /\ h < NurseryLimit
  BY <1>1, <1>2, <1>3
<1>5. ASSUME NEW h \in Old(g) PROVE NurseryLimit < h /\ h \notin Young(g)
  <2>1. h \in Nat
    BY <1>3
  <2>2. CASE h \in Tenured(g)
    BY <2>1, <2>2, <1>1, <1>2
  <2>3. CASE h \in g.large
    BY <2>1, <2>3, <1>1, <1>2
  <2> QED BY <2>2, <2>3, <1>3
<1> QED BY <1>2, <1>3, <1>4, <1>5

LEMMA SlotAddr ==
  ASSUME NEW g, IsGc(g), NEW h \in DOMAIN g.heap, NEW i \in DOMAIN g.heap[h].slots
  PROVE  Addr(<<h, i>>) = h + i /\ h \in Nat /\ i \in Nat /\ IsRef(g.heap[h].slots[i])
<1>1. h \in Nat /\ i \in Nat /\ IsRef(g.heap[h].slots[i])
  BY DEF IsGc, IsObj
<1>2. <<h, i>>[1] = h /\ <<h, i>>[2] = i
  OBVIOUS
<1> QED BY <1>1, <1>2 DEF Addr, Off

(* Rebuilding the remembered set makes it exact, whatever it was. *)
LEMMA RebuildCatches ==
  ASSUME prog \in Programs, NEW g, IsGc(g), Spaces(g), Fresh(g), Aimed(g),
         NEW n, n = RebuildRemembered(g)
  PROVE  Ok(n)
<1>1. /\ IsGc(n) /\ SameShape(g, n) /\ n.heap = g.heap
         /\ n.root = g.root /\ n.reg = g.reg /\ n.aborted = g.aborted
         /\ n.remembered = {Addr(s) : s \in {t \in Slots(g) : 
                              t[1] \in Old(g) /\ PointsToNursery(g, RefIn(g, t).ptr)}}
  BY RebuildFields
<1>2. Spaces(n)
  BY <1>1, SpacesSame
<1>3. Young(n) = Young(g) /\ Old(n) = Old(g) /\ DOMAIN n.heap = DOMAIN g.heap
  BY <1>1, SameUnits
<1>4. n.nursery_ptr = g.nursery_ptr
  BY <1>1 DEF SameShape
<1>5. Old(g) \subseteq DOMAIN g.heap
  BY OldAre
<1>6. Listed(n)
  <2> SUFFICES ASSUME NEW a \in n.remembered
               PROVE  \E h \in Old(n) : \E i \in DOMAIN n.heap[h].slots : a = h + i
    BY DEF Listed
  <2>1. PICK t \in Slots(g) : t[1] \in Old(g) /\ a = Addr(t)
    BY <1>1
  <2>4. PICK h \in DOMAIN g.heap : \E i \in DOMAIN g.heap[h].slots : t = <<h, i>>
    BY DEF Slots
  <2>2. PICK i \in DOMAIN g.heap[h].slots : t = <<h, i>>
    BY <2>4
  <2>3. h \in Old(g) /\ a = h + i
    BY <2>1, <2>2, SlotAddr
  <2> QED BY <2>3, <1>1, <1>3
<1>7. Caught(n)
  <2> SUFFICES ASSUME NEW h \in Old(n), NEW i \in DOMAIN n.heap[h].slots,
                      PointsToNursery(n, n.heap[h].slots[i].ptr)
               PROVE  h + i \in n.remembered
    BY DEF Caught
  <2> DEFINE s == <<h, i>>
  <2>1. h \in Old(g) /\ h \in DOMAIN g.heap /\ i \in DOMAIN g.heap[h].slots
    BY <1>1, <1>3, <1>5
  <2>2. s \in Slots(g)
    BY <2>1 DEF Slots
  <2>3. RefIn(g, s).ptr = n.heap[h].slots[i].ptr /\ s[1] = h
    BY <1>1 DEF RefIn
  <2>4. PointsToNursery(g, RefIn(g, s).ptr)
    BY <1>4, <2>3 DEF PointsToNursery
  <2>5. Addr(s) = h + i
    BY <2>1, SlotAddr
  <2> HIDE DEF s
  <2> QED BY <1>1, <2>1, <2>2, <2>3, <2>4, <2>5
<1>8. Fresh(n) /\ Aimed(n)
  BY <1>1, <1>3 DEF Fresh, Aimed
<1> QED BY <1>1, <1>2, <1>6, <1>7, <1>8 DEF Ok

(* Everything a promotion that finds room does *)
Promoted(g, n, fwd) ==
  /\ n.large = g.large /\ n.remembered = g.remembered
  /\ n.reg = g.reg /\ n.aborted = g.aborted
  /\ DOMAIN n.heap = Old(g) \cup {PromoteTo(g)[h] : h \in Live(g)}
  /\ Young(n) = {PromoteTo(g)[h] : h \in Stay(g)}
  /\ Tenured(n) = Tenured(g) \cup {PromoteTo(g)[h] : h \in Promo(g)}
  /\ \A r \in Roots : n.root[r] = ForwardTimes(fwd, g.root[r], g.reg[r])
  /\ \A h \in Live(g) :
       /\ n.heap[PromoteTo(g)[h]].marked = FALSE /\ n.heap[PromoteTo(g)[h]].id = g.heap[h].id
       /\ n.heap[PromoteTo(g)[h]].age = IF h \in Stay(g) THEN g.heap[h].age + 1 ELSE PromotionAge
       /\ Len(n.heap[PromoteTo(g)[h]].slots) = Len(g.heap[h].slots)
       /\ DOMAIN n.heap[PromoteTo(g)[h]].slots = DOMAIN g.heap[h].slots
       /\ \A i \in DOMAIN g.heap[h].slots :
            n.heap[PromoteTo(g)[h]].slots[i] = ForwardTimes(fwd, g.heap[h].slots[i],
              Times(g.remembered, PromoteTo(g)[h], i))
  /\ \A h \in Old(g) :
       /\ n.heap[h].marked = g.heap[h].marked /\ n.heap[h].id = g.heap[h].id
       /\ n.heap[h].age = g.heap[h].age
       /\ Len(n.heap[h].slots) = Len(g.heap[h].slots)
       /\ DOMAIN n.heap[h].slots = DOMAIN g.heap[h].slots
       /\ \A i \in DOMAIN g.heap[h].slots :
            n.heap[h].slots[i] = ForwardTimes(fwd, g.heap[h].slots[i],
              Times(g.remembered, h, i))

LEMMA PromoteRefs ==
  ASSUME prog \in Programs, NEW g, IsGc(g), Spaces(g), ~(PromoteFree(g) > TenuredLimit),
         NEW n, n = PromoteSurvivors(g), NEW fwd, fwd = Forwards(PromoteTo(g))
  PROVE  IsGc(n) /\ Spaces(n) /\ Promoted(g, n, fwd)
<1> DEFINE m == PromoteMoved(g)
<1>1. n = ApplyForwards(m, fwd)
  BY PromoteIs
<1>2. /\ IsGc(m) /\ Spaces(m)
      /\ m.large = g.large /\ m.remembered = g.remembered /\ m.root = g.root
      /\ m.reg = g.reg /\ m.aborted = g.aborted
      /\ DOMAIN m.heap = Old(g) \cup {PromoteTo(g)[h] : h \in Live(g)}
      /\ Young(m) = {PromoteTo(g)[h] : h \in Stay(g)}
      /\ Tenured(m) = Tenured(g) \cup {PromoteTo(g)[h] : h \in Promo(g)}
      /\ \A h \in Live(g) : m.heap[PromoteTo(g)[h]] = PromoteAs(g)[h]
      /\ \A a \in Old(g) : m.heap[a] = g.heap[a]
  BY PromoteState
<1> HIDE DEF m
<1>3. DOMAIN PromoteTo(g) \subseteq Nat /\ \A h \in DOMAIN PromoteTo(g) : PromoteTo(g)[h] \in Nat
  <2>1. DOMAIN PromoteTo(g) = Live(g)
    BY DEF PromoteTo
  <2>2. Live(g) \subseteq Nat
    BY DEF Live, Young, IsGc
  <2>3. Live(g) = Stay(g) \cup Promo(g)
    BY DEF Stay, Promo
  <2>4. (\A h \in Stay(g) : PromoteTo(g)[h] \in Nat) /\ (\A h \in Promo(g) : PromoteTo(g)[h] \in Nat)
    BY PromoteLayout
  <2> QED BY <2>1, <2>2, <2>3, <2>4
<1>4. \A p \in DOMAIN fwd : fwd[p] \in Nat
  BY <1>3, ForwardsAre
<1>5. /\ IsGc(n) /\ SameShape(m, n)
      /\ n.remembered = m.remembered /\ n.reg = m.reg /\ n.aborted = m.aborted
      /\ \A r \in Roots : n.root[r] = ForwardTimes(fwd, m.root[r], m.reg[r])
      /\ \A h \in DOMAIN m.heap :
           /\ n.heap[h].marked = m.heap[h].marked /\ n.heap[h].id = m.heap[h].id
           /\ DOMAIN n.heap[h].slots = DOMAIN m.heap[h].slots
           /\ \A i \in DOMAIN m.heap[h].slots :
                n.heap[h].slots[i] = ForwardTimes(fwd, m.heap[h].slots[i],
                  Times(m.remembered, h, i))
  BY <1>1, <1>2, <1>4, ApplyFields
<1>6. Spaces(n)
  BY <1>2, <1>5, SpacesSame
<1>7. DOMAIN n.heap = DOMAIN m.heap /\ Young(n) = Young(m) /\ Tenured(n) = Tenured(m)
  BY <1>5, SameUnits
<1>8. /\ n.large = m.large
      /\ \A h \in DOMAIN m.heap : /\ n.heap[h].age = m.heap[h].age
                                  /\ Len(n.heap[h].slots) = Len(m.heap[h].slots)
  BY <1>5 DEF SameShape
<1>9. ASSUME NEW h \in Live(g)
      PROVE  /\ n.heap[PromoteTo(g)[h]].marked = FALSE /\ n.heap[PromoteTo(g)[h]].id = g.heap[h].id
             /\ n.heap[PromoteTo(g)[h]].age = IF h \in Stay(g) THEN g.heap[h].age + 1 ELSE PromotionAge
             /\ Len(n.heap[PromoteTo(g)[h]].slots) = Len(g.heap[h].slots)
             /\ DOMAIN n.heap[PromoteTo(g)[h]].slots = DOMAIN g.heap[h].slots
             /\ \A i \in DOMAIN g.heap[h].slots :
                  n.heap[PromoteTo(g)[h]].slots[i] = ForwardTimes(fwd, g.heap[h].slots[i],
                    Times(g.remembered, PromoteTo(g)[h], i))
  <2> DEFINE a == PromoteTo(g)[h]
  <2>1. a \in DOMAIN m.heap /\ m.heap[a] = PromoteAs(g)[h]
    BY <1>2
  <2> HIDE DEF a
  <2>2. /\ PromoteAs(g)[h].slots = g.heap[h].slots /\ PromoteAs(g)[h].id = g.heap[h].id
        /\ PromoteAs(g)[h].marked = FALSE
        /\ PromoteAs(g)[h].age = IF h \in Stay(g) THEN g.heap[h].age + 1 ELSE PromotionAge
    BY PromotedObject
  <2>3. /\ n.heap[a].marked = FALSE /\ n.heap[a].id = g.heap[h].id
        /\ n.heap[a].age = IF h \in Stay(g) THEN g.heap[h].age + 1 ELSE PromotionAge
    BY <1>5, <1>8, <2>1, <2>2
  <2>4. /\ Len(n.heap[a].slots) = Len(g.heap[h].slots)
        /\ DOMAIN n.heap[a].slots = DOMAIN g.heap[h].slots
    BY <1>5, <1>8, <2>1, <2>2
  <2>5. \A i \in DOMAIN g.heap[h].slots :
          n.heap[a].slots[i] = ForwardTimes(fwd, g.heap[h].slots[i],
                    Times(g.remembered, a, i))
    BY <1>2, <1>5, <2>1, <2>2
  <2> QED BY <2>3, <2>4, <2>5 DEF a
<1>10. ASSUME NEW h \in Old(g)
       PROVE  /\ n.heap[h].marked = g.heap[h].marked /\ n.heap[h].id = g.heap[h].id
              /\ n.heap[h].age = g.heap[h].age
              /\ Len(n.heap[h].slots) = Len(g.heap[h].slots)
              /\ DOMAIN n.heap[h].slots = DOMAIN g.heap[h].slots
              /\ \A i \in DOMAIN g.heap[h].slots :
                   n.heap[h].slots[i] = ForwardTimes(fwd, g.heap[h].slots[i],
                     Times(g.remembered, h, i))
  <2>1. h \in DOMAIN m.heap /\ m.heap[h] = g.heap[h]
    BY <1>2
  <2>2. /\ n.heap[h].marked = g.heap[h].marked /\ n.heap[h].id = g.heap[h].id
        /\ n.heap[h].age = g.heap[h].age
        /\ Len(n.heap[h].slots) = Len(g.heap[h].slots)
        /\ DOMAIN n.heap[h].slots = DOMAIN g.heap[h].slots
    BY <1>5, <1>8, <2>1
  <2>3. \A i \in DOMAIN g.heap[h].slots :
          n.heap[h].slots[i] = ForwardTimes(fwd, g.heap[h].slots[i],
                     Times(g.remembered, h, i))
    BY <1>2, <1>5, <2>1
  <2> QED BY <2>2, <2>3
<1>11. \A r \in Roots : n.root[r] = ForwardTimes(fwd, g.root[r], g.reg[r])
  BY <1>2, <1>5
<1>12. /\ n.large = g.large /\ n.remembered = g.remembered
       /\ n.reg = g.reg /\ n.aborted = g.aborted
       /\ DOMAIN n.heap = Old(g) \cup {PromoteTo(g)[h] : h \in Live(g)}
       /\ Young(n) = {PromoteTo(g)[h] : h \in Stay(g)}
       /\ Tenured(n) = Tenured(g) \cup {PromoteTo(g)[h] : h \in Promo(g)}
  BY <1>2, <1>5, <1>7, <1>8
<1> QED BY <1>5, <1>6, <1>9, <1>10, <1>11, <1>12 DEF Promoted

(* Where promotion moves objects to, as a map of headers *)
LEMMA PromoteMap ==
  ASSUME prog \in Programs, NEW g, IsGc(g), Spaces(g)
  PROVE  /\ DOMAIN PromoteTo(g) = Live(g) /\ DOMAIN PromoteTo(g) \subseteq Nat
         /\ \A h \in DOMAIN PromoteTo(g) : PromoteTo(g)[h] \in Nat
         /\ Live(g) = Stay(g) \cup Promo(g) /\ Live(g) \subseteq Young(g)
         /\ Stay(g) \subseteq Live(g) /\ Promo(g) \subseteq Live(g)
         /\ \A h \in Promo(g) : NurseryLimit < PromoteTo(g)[h]
<1>1. DOMAIN PromoteTo(g) = Live(g)
  BY DEF PromoteTo
<1>2. Live(g) \subseteq Nat
  BY DEF Live, Young, IsGc
<1>3. Live(g) = Stay(g) \cup Promo(g) /\ Live(g) \subseteq Young(g)
      /\ Stay(g) \subseteq Live(g) /\ Promo(g) \subseteq Live(g)
  BY DEF Live, Stay, Promo
<1>4. (\A h \in Stay(g) : PromoteTo(g)[h] \in Nat)
      /\ (\A h \in Promo(g) : PromoteTo(g)[h] \in Nat /\ g.tenured_free <= PromoteTo(g)[h])
  BY PromoteLayout
<1>5. TenuredStart <= g.tenured_free /\ g.tenured_free \in Nat
  BY Where
<1>6. NurseryLimit < TenuredStart /\ NurseryLimit \in Nat /\ TenuredStart \in Nat
  BY Limits
<1>7. \A h \in Promo(g) : NurseryLimit < PromoteTo(g)[h]
  BY <1>4, <1>5, <1>6
<1> QED BY <1>1, <1>2, <1>3, <1>4, <1>7

(* A slot that refers to a live object, if it refers to the nursery at     *)
(* all, still does after it was forwarded, even twice.                     *)
LEMMA AimedTimes ==
  ASSUME prog \in Programs, NEW g, IsGc(g), Spaces(g), NEW fwd, fwd = Forwards(PromoteTo(g)),
         NEW ref, IsRef(ref), Into(ref.ptr) => ref.ptr - 1 \in Live(g), NEW k \in {1, 2},
         NEW x, x = ForwardTimes(fwd, ref, k), Into(x.ptr)
  PROVE  \E h \in Stay(g) : x.ptr = PromoteTo(g)[h] + 1
<1> DEFINE to == PromoteTo(g)
<1>1. /\ DOMAIN to = Live(g) /\ DOMAIN to \subseteq Nat
      /\ \A h \in DOMAIN to : to[h] \in Nat
      /\ Live(g) = Stay(g) \cup Promo(g)
      /\ \A h \in Promo(g) : NurseryLimit < to[h]
      /\ Live(g) \subseteq Young(g)
  BY PromoteMap
<1>2. fwd = Forwards(to)
  OBVIOUS
<1> HIDE DEF to
<1>3. NurseryLimit \in Nat /\ NurseryStart = 1 /\ Off = 1
  BY Limits
<1>4. k \in Nat \ {0}
  OBVIOUS
<1>5. CASE \E h \in Live(g) : ref.ptr = h + 1
  <2>1. PICK h \in Live(g) : ref.ptr = h + 1
    BY <1>5
  <2> DEFINE C == {y \in [ptr : Nat, id : {ref.id}] : \E l \in Live(g) : y.ptr = to[l] + 1}
  <2>2. Forward(fwd, ref) \in C
    <3>1. /\ IsRef(Forward(fwd, ref)) /\ Forward(fwd, ref).id = ref.id
          /\ Forward(fwd, ref).ptr = to[h] + 1
      BY <1>1, <1>2, <2>1, Followed
    <3> QED BY <3>1 DEF IsRef
  <2>3. ASSUME NEW y \in C PROVE Forward(fwd, y) \in C
    <3>1. IsRef(y) /\ y.id = ref.id
      BY DEF IsRef
    <3>2. CASE \E l \in Live(g) : y.ptr = l + 1
      <4>1. PICK l \in Live(g) : y.ptr = l + 1
        BY <3>2
      <4>2. /\ IsRef(Forward(fwd, y)) /\ Forward(fwd, y).id = y.id
            /\ Forward(fwd, y).ptr = to[l] + 1
        BY <1>1, <1>2, <3>1, <4>1, Followed
      <4> QED BY <3>1, <4>2 DEF IsRef
    <3>3. CASE ~ \E l \in Live(g) : y.ptr = l + 1
      <4>1. \A l \in DOMAIN to : y.ptr # l + 1
        BY <1>1, <3>3
      <4>2. Forward(fwd, y) = y
        BY <1>1, <1>2, <3>1, <4>1, Followed
      <4> QED BY <4>2
    <3> QED BY <3>2, <3>3
  <2>4. x \in C
    <3> HIDE DEF C
    <3> QED BY <1>4, <2>2, <2>3, TimesReach
  <2>5. PICK l \in Live(g) : x.ptr = to[l] + 1
    BY <2>4
  <2>6. l \notin Promo(g)
    BY <1>1, <1>3, <2>5 DEF Into
  <2> QED BY <1>1, <2>5, <2>6 DEF to
<1>6. CASE ~ \E h \in Live(g) : ref.ptr = h + 1
  <2>1. Forward(fwd, ref) = ref
    BY <1>1, <1>2, <1>6, Followed
  <2>2. x \in {ref}
    BY <1>4, <2>1, TimesStay
  <2>3. ref.ptr - 1 \in Live(g)
    BY <2>2
  <2>4. ref.ptr \in Nat
    BY DEF IsRef
  <2> QED BY <1>6, <2>3, <2>4
<1> QED BY <1>5, <1>6

LEMMA TimesRange ==
  ASSUME NEW rem, NEW h, NEW i
  PROVE  Times(rem, h, i) \in {1, 2} /\ (Addr(<<h, i>>) \notin rem => Times(rem, h, i) = 1)
BY DEF Times

(* The remembered set's invariant through a minor collection *)
LEMMA MinorOk ==
  ASSUME prog \in Programs, NEW g, Ok(g), ~g.aborted, NEW n, n = MinorCollect(g)
  PROVE  Ok(n)
<1> DEFINE t == Traced(g)
           p == PromoteSurvivors(t)
           fwd == Forwards(PromoteTo(t))
<1>1. IsGc(g) /\ Spaces(g) /\ Listed(g) /\ (Tracks => Caught(g)) /\ Fresh(g) /\ Aimed(g)
  BY DEF Ok
<1>2. /\ IsGc(t) /\ SameShape(g, t)
      /\ t.remembered = g.remembered /\ t.root = g.root
      /\ t.reg = g.reg /\ t.aborted = g.aborted
      /\ \A h \in DOMAIN g.heap :
           t.heap[h].slots = g.heap[h].slots /\ t.heap[h].id = g.heap[h].id
  BY <1>1, TracedFields
<1>3. /\ \A h \in DOMAIN g.heap : \A i \in DOMAIN g.heap[h].slots :
              h + i \in g.remembered /\ IsObject(g, g.heap[h].slots[i].ptr)
                => t.heap[g.heap[h].slots[i].ptr - 1].marked
      /\ \A h \in DOMAIN g.heap : \A i \in DOMAIN g.heap[h].slots :
              ~(g.heap[h].marked /\ h \notin g.large) /\ t.heap[h].marked
                /\ IsObject(g, g.heap[h].slots[i].ptr)
                => t.heap[g.heap[h].slots[i].ptr - 1].marked
  BY <1>1, TracedMarks
<1>4. n = IF p.aborted THEN p ELSE RebuildRemembered(p)
  BY DEF MinorCollect, Traced
<1> HIDE DEF t
<1>5. Spaces(t)
  BY <1>1, <1>2, SpacesSame
<1>6. DOMAIN t.heap = DOMAIN g.heap /\ Young(t) = Young(g) /\ Old(t) = Old(g)
  BY <1>2, SameUnits
<1>7. t.nursery_ptr = g.nursery_ptr
  BY <1>2 DEF SameShape
<1>8. /\ Old(g) \subseteq DOMAIN g.heap /\ Young(g) \subseteq DOMAIN g.heap
      /\ DOMAIN g.heap = Young(g) \cup Old(g) /\ DOMAIN g.heap \subseteq Nat
      /\ \A h \in Young(g) : 1 <= h /\ h < g.nursery_ptr /\ h < NurseryLimit
      /\ g.nursery_ptr \in Nat
  BY <1>1, OldAre
<1>9. NurseryStart = 1 /\ Off = 1 /\ NurseryLimit \in Nat
  BY Limits
<1>10. CASE PromoteFree(t) > TenuredLimit
  <2>1. p = [t EXCEPT !.aborted = TRUE]
    BY <1>10, PromoteIs
  <2>2. /\ IsGc(p) /\ SameShape(t, p) /\ p.aborted = TRUE
        /\ p.remembered = t.remembered /\ p.heap = t.heap
    BY <1>2, <2>1, AbortFields
  <2> HIDE DEF p
  <2>3. n = p
    BY <1>4, <2>2
  <2>4. Spaces(p)
    BY <1>5, <2>2, SpacesSame
  <2>5. Young(p) = Young(g) /\ Old(p) = Old(g) /\ DOMAIN p.heap = DOMAIN g.heap
    BY <1>6, <2>2, SameUnits
  <2>6. p.nursery_ptr = g.nursery_ptr
    BY <1>7, <2>2 DEF SameShape
  <2>7. \A h \in DOMAIN g.heap : p.heap[h].slots = g.heap[h].slots
    BY <1>2, <2>2
  <2>8. p.remembered = g.remembered
    BY <1>2, <2>2
  <2>9. Listed(p)
    BY <1>1, <1>8, <2>5, <2>7, <2>8 DEF Listed
  <2>10. Tracks => Caught(p)
    BY <1>1, <1>8, <2>5, <2>6, <2>7, <2>8 DEF Caught, PointsToNursery
  <2>11. Fresh(p)
    BY <2>2 DEF Fresh
  <2>12. Aimed(p)
    BY <1>1, <1>8, <2>5, <2>7 DEF Aimed
  <2> QED BY <2>2, <2>3, <2>4, <2>9, <2>10, <2>11, <2>12 DEF Ok
<1>11. CASE ~(PromoteFree(t) > TenuredLimit)
  <2>1. /\ IsGc(p) /\ Spaces(p) /\ p.aborted = t.aborted
        /\ DOMAIN p.heap = Old(t) \cup {PromoteTo(t)[h] : h \in Live(t)}
        /\ Young(p) = {PromoteTo(t)[h] : h \in Stay(t)}
        /\ \A h \in Live(t) :
              /\ p.heap[PromoteTo(t)[h]].marked = FALSE
              /\ Len(p.heap[PromoteTo(t)[h]].slots) = Len(t.heap[h].slots)
              /\ DOMAIN p.heap[PromoteTo(t)[h]].slots = DOMAIN t.heap[h].slots
              /\ \A i \in DOMAIN t.heap[h].slots :
                   p.heap[PromoteTo(t)[h]].slots[i] = ForwardTimes(fwd, t.heap[h].slots[i],
                     Times(t.remembered, PromoteTo(t)[h], i))
        /\ \A h \in Old(t) :
              /\ DOMAIN p.heap[h].slots = DOMAIN t.heap[h].slots
              /\ \A i \in DOMAIN t.heap[h].slots :
                   p.heap[h].slots[i] = ForwardTimes(fwd, t.heap[h].slots[i],
                     Times(t.remembered, h, i))
    <3>1. p = PromoteSurvivors(t) /\ fwd = Forwards(PromoteTo(t))
      OBVIOUS
    <3> HIDE DEF p, fwd
    <3>2. IsGc(p) /\ Spaces(p) /\ Promoted(t, p, fwd)
      BY <1>2, <1>5, <1>11, <3>1, PromoteRefs
    <3> QED BY <3>2 DEF Promoted
  <2>2. fwd = Forwards(PromoteTo(t))
    OBVIOUS
  <2> HIDE DEF p, fwd
  <2>3. n = RebuildRemembered(p)
    BY <1>2, <1>4, <2>1
  <2>4. Live(t) = {h \in Young(g) : t.heap[h].marked} /\ Stay(t) \subseteq Live(t)
    BY <1>6 DEF Live, Stay
  <2>5. Fresh(p)
    BY <2>1, <2>4 DEF Fresh
  <2>6. ASSUME Tracks, NEW h \in Young(p) PROVE Len(p.heap[h].slots) # 0
    <3>1. PICK k \in Stay(t) : h = PromoteTo(t)[k]
      BY <2>1
    <3>2. k \in Young(g) /\ k \in Live(t)
      BY <2>4, <3>1
    <3>3. Len(g.heap[k].slots) # 0
      BY <1>1, <2>6, <3>2 DEF Aimed
    <3> QED BY <1>2, <1>8, <2>1, <3>1, <3>2, <3>3
  <2>7. ASSUME Tracks, NEW h \in DOMAIN g.heap, h \in Old(t) \/ h \in Live(t),
               NEW i \in DOMAIN g.heap[h].slots, Into(g.heap[h].slots[i].ptr)
        PROVE  g.heap[h].slots[i].ptr - 1 \in Live(t)
    <3> DEFINE q == g.heap[h].slots[i].ptr
    <3>1. q - 1 \in Young(g) /\ q \in Nat
      BY <1>1, <2>7, SlotAddr DEF Aimed, IsRef
    <3>2. IsObject(g, q)
      BY <1>8, <1>9, <3>1, ObjectAt DEF IsObject
    <3>3. t.heap[q - 1].marked
      <4>1. CASE h \in Old(t)
        <5>1. PointsToNursery(g, q)
          BY <1>8, <1>9, <3>1 DEF PointsToNursery
        <5>2. h + i \in g.remembered
          BY <1>1, <1>6, <2>7, <4>1, <5>1 DEF Caught
        <5> QED BY <1>3, <3>2, <5>2
      <4>2. CASE h \in Live(t)
        <5>1. t.heap[h].marked /\ ~g.heap[h].marked
          BY <1>1, <2>4, <2>7, <4>2 DEF Fresh, Tracks
        <5> QED BY <1>3, <3>2, <5>1
      <4> QED BY <2>7, <4>1, <4>2
    <3> QED BY <2>4, <3>1, <3>3
  <2>8. ASSUME Tracks, NEW a \in DOMAIN p.heap, NEW i \in DOMAIN p.heap[a].slots,
               Into(p.heap[a].slots[i].ptr)
        PROVE  p.heap[a].slots[i].ptr - 1 \in Young(p)
    <3>1. PICK h \in DOMAIN g.heap :
             /\ h \in Old(t) \/ h \in Live(t)
             /\ i \in DOMAIN g.heap[h].slots
             /\ \E k \in {1, 2} : p.heap[a].slots[i] = ForwardTimes(fwd, g.heap[h].slots[i], k)
      <4>1. CASE a \in Old(t)
        <5>1. a \in DOMAIN g.heap /\ t.heap[a].slots = g.heap[a].slots
          BY <1>2, <1>6, <1>8, <4>1
        <5>2. p.heap[a].slots[i] = ForwardTimes(fwd, g.heap[a].slots[i], Times(t.remembered, a, i))
              /\ i \in DOMAIN g.heap[a].slots
          BY <2>1, <4>1, <5>1
        <5>3. Times(t.remembered, a, i) \in {1, 2}
          BY TimesRange
        <5> QED BY <4>1, <5>1, <5>2, <5>3
      <4>2. CASE a \notin Old(t)
        <5>1. PICK h \in Live(t) : a = PromoteTo(t)[h]
          BY <2>1, <4>2
        <5>2. h \in DOMAIN g.heap /\ t.heap[h].slots = g.heap[h].slots
          BY <1>2, <1>8, <2>4
        <5>3. p.heap[a].slots[i] = ForwardTimes(fwd, g.heap[h].slots[i], Times(t.remembered, a, i))
              /\ i \in DOMAIN g.heap[h].slots
          BY <2>1, <5>1, <5>2
        <5>4. Times(t.remembered, a, i) \in {1, 2}
          BY TimesRange
        <5> QED BY <5>2, <5>3, <5>4
      <4> QED BY <4>1, <4>2
    <3>2. PICK k \in {1, 2} : p.heap[a].slots[i] = ForwardTimes(fwd, g.heap[h].slots[i], k)
      BY <3>1
    <3>3. IsRef(g.heap[h].slots[i])
      BY <1>1, <3>1, SlotAddr
    <3>4. Into(g.heap[h].slots[i].ptr) => g.heap[h].slots[i].ptr - 1 \in Live(t)
      BY <2>7, <2>8, <3>1
    <3>5. PICK s \in Stay(t) : p.heap[a].slots[i].ptr = PromoteTo(t)[s] + 1
      BY <1>2, <1>5, <2>2, <2>8, <3>2, <3>3, <3>4, AimedTimes
    <3>6. PromoteTo(t)[s] \in Nat
      BY <1>2, <1>5, PromoteMap
    <3> QED BY <2>1, <3>5, <3>6
  <2>9. Aimed(p)
    BY <2>6, <2>8 DEF Aimed
  <2> QED BY <2>1, <2>3, <2>5, <2>9, RebuildCatches
<1> QED BY <1>10, <1>11

(* Everything the compaction of the tenured space does, but for the        *)
(* remembered set, which is rebuilt after it                               *)
Swept(g, n, fwd) ==
  /\ n.large = g.large /\ n.remembered = g.remembered
  /\ n.reg = g.reg /\ n.aborted = g.aborted
  /\ DOMAIN n.heap = Young(g) \cup g.large \cup {SweepTo(g)[h] : h \in SweepLive(g)}
  /\ Young(n) = Young(g)
  /\ \A r \in Roots : n.root[r] = ForwardTimes(fwd, g.root[r], g.reg[r])
  /\ \A h \in SweepLive(g) :
       /\ n.heap[SweepTo(g)[h]].id = g.heap[h].id
       /\ DOMAIN n.heap[SweepTo(g)[h]].slots = DOMAIN g.heap[h].slots
       /\ \A i \in DOMAIN g.heap[h].slots :
            n.heap[SweepTo(g)[h]].slots[i] = ForwardTimes(fwd, g.heap[h].slots[i],
              Times(g.remembered, SweepTo(g)[h], i))
  /\ \A h \in Young(g) \cup g.large :
       /\ n.heap[h].marked = g.heap[h].marked /\ n.heap[h].id = g.heap[h].id
       /\ Len(n.heap[h].slots) = Len(g.heap[h].slots)
       /\ DOMAIN n.heap[h].slots = DOMAIN g.heap[h].slots
       /\ \A i \in DOMAIN g.heap[h].slots :
            n.heap[h].slots[i] = ForwardTimes(fwd, g.heap[h].slots[i],
              Times(g.remembered, h, i))

LEMMA SweepMap ==
  ASSUME prog \in Programs, NEW g, IsGc(g), Spaces(g)
  PROVE  /\ DOMAIN SweepTo(g) = SweepLive(g) /\ DOMAIN SweepTo(g) \subseteq Nat
         /\ \A h \in DOMAIN SweepTo(g) : SweepTo(g)[h] \in Nat /\ TenuredStart <= SweepTo(g)[h] /\ TenuredStart <= h
         /\ SweepLive(g) \subseteq Tenured(g)
<1>1. DOMAIN SweepTo(g) = SweepLive(g)
  BY DEF SweepTo
<1>2. SweepLive(g) \subseteq Nat /\ SweepLive(g) \subseteq Tenured(g) /\ \A h \in SweepLive(g) : TenuredStart <= h
  BY DEF SweepLive, Tenured, IsGc
<1>3. \A h \in SweepLive(g) : SweepTo(g)[h] \in Nat /\ TenuredStart <= SweepTo(g)[h]
  BY SweepLayout
<1> QED BY <1>1, <1>2, <1>3

LEMMA SweepRefs ==
  ASSUME prog \in Programs, NEW g, IsGc(g), Spaces(g),
         NEW fwd, fwd = Forwards(SweepTo(g)), NEW n, n = ApplyForwards(SweepMoved(g), fwd)
  PROVE  IsGc(n) /\ Spaces(n) /\ Swept(g, n, fwd)
<1> DEFINE m == SweepMoved(g)
<1>1. n = ApplyForwards(m, fwd)
  OBVIOUS
<1>2. /\ IsGc(m) /\ Spaces(m)
      /\ m.large = g.large /\ m.remembered = g.remembered /\ m.root = g.root
      /\ m.reg = g.reg /\ m.aborted = g.aborted
      /\ DOMAIN m.heap = Young(g) \cup g.large \cup {SweepTo(g)[h] : h \in SweepLive(g)}
      /\ Young(m) = Young(g)
      /\ \A h \in SweepLive(g) : m.heap[SweepTo(g)[h]] = SweepAs(g)[h]
      /\ \A a \in Young(g) \cup g.large : m.heap[a] = g.heap[a]
  BY SweepState
<1> HIDE DEF m
<1>3. DOMAIN SweepTo(g) \subseteq Nat /\ \A h \in DOMAIN SweepTo(g) : SweepTo(g)[h] \in Nat
  BY SweepMap
<1>4. \A p \in DOMAIN fwd : fwd[p] \in Nat
  BY <1>3, ForwardsAre
<1>5. /\ IsGc(n) /\ SameShape(m, n)
      /\ n.remembered = m.remembered /\ n.reg = m.reg /\ n.aborted = m.aborted
      /\ \A r \in Roots : n.root[r] = ForwardTimes(fwd, m.root[r], m.reg[r])
      /\ \A h \in DOMAIN m.heap :
           /\ n.heap[h].marked = m.heap[h].marked /\ n.heap[h].id = m.heap[h].id
           /\ DOMAIN n.heap[h].slots = DOMAIN m.heap[h].slots
           /\ \A i \in DOMAIN m.heap[h].slots :
                n.heap[h].slots[i] = ForwardTimes(fwd, m.heap[h].slots[i],
                  Times(m.remembered, h, i))
  BY <1>1, <1>2, <1>4, ApplyFields
<1>6. Spaces(n)
  BY <1>2, <1>5, SpacesSame
<1>7. DOMAIN n.heap = DOMAIN m.heap /\ Young(n) = Young(m)
  BY <1>5, SameUnits
<1>8. /\ n.large = m.large
      /\ \A h \in DOMAIN m.heap : Len(n.heap[h].slots) = Len(m.heap[h].slots)
  BY <1>5 DEF SameShape
<1>9. ASSUME NEW h \in SweepLive(g)
      PROVE  /\ n.heap[SweepTo(g)[h]].id = g.heap[h].id
             /\ DOMAIN n.heap[SweepTo(g)[h]].slots = DOMAIN g.heap[h].slots
             /\ \A i \in DOMAIN g.heap[h].slots :
                  n.heap[SweepTo(g)[h]].slots[i] = ForwardTimes(fwd, g.heap[h].slots[i],
                    Times(g.remembered, SweepTo(g)[h], i))
  <2> DEFINE a == SweepTo(g)[h]
  <2>1. a \in DOMAIN m.heap /\ m.heap[a] = SweepAs(g)[h]
    BY <1>2
  <2> HIDE DEF a
  <2>2. SweepAs(g)[h].slots = g.heap[h].slots /\ SweepAs(g)[h].id = g.heap[h].id
    BY SweptObject
  <2>3. n.heap[a].id = g.heap[h].id /\ DOMAIN n.heap[a].slots = DOMAIN g.heap[h].slots
    BY <1>5, <2>1, <2>2
  <2>4. \A i \in DOMAIN g.heap[h].slots :
          n.heap[a].slots[i] = ForwardTimes(fwd, g.heap[h].slots[i], Times(g.remembered, a, i))
    BY <1>2, <1>5, <2>1, <2>2
  <2> QED BY <2>3, <2>4 DEF a
<1>10. ASSUME NEW h \in Young(g) \cup g.large
       PROVE  /\ n.heap[h].marked = g.heap[h].marked /\ n.heap[h].id = g.heap[h].id
              /\ Len(n.heap[h].slots) = Len(g.heap[h].slots)
              /\ DOMAIN n.heap[h].slots = DOMAIN g.heap[h].slots
              /\ \A i \in DOMAIN g.heap[h].slots :
                   n.heap[h].slots[i] = ForwardTimes(fwd, g.heap[h].slots[i],
                     Times(g.remembered, h, i))
  <2>1. h \in DOMAIN m.heap /\ m.heap[h] = g.heap[h]
    BY <1>2
  <2>2. /\ n.heap[h].marked = g.heap[h].marked /\ n.heap[h].id = g.heap[h].id
        /\ Len(n.heap[h].slots) = Len(g.heap[h].slots)
        /\ DOMAIN n.heap[h].slots = DOMAIN g.heap[h].slots
    BY <1>5, <1>8, <2>1
  <2>3. \A i \in DOMAIN g.heap[h].slots :
          n.heap[h].slots[i] = ForwardTimes(fwd, g.heap[h].slots[i], Times(g.remembered, h, i))
    BY <1>2, <1>5, <2>1
  <2> QED BY <2>2, <2>3
<1>11. \A r \in Roots : n.root[r] = ForwardTimes(fwd, g.root[r], g.reg[r])
  BY <1>2, <1>5
<1>12. /\ n.large = g.large /\ n.remembered = g.remembered
       /\ n.reg = g.reg /\ n.aborted = g.aborted
       /\ DOMAIN n.heap = Young(g) \cup g.large \cup {SweepTo(g)[h] : h \in SweepLive(g)}
       /\ Young(n) = Young(g)
  BY <1>2, <1>5, <1>7, <1>8
<1> QED BY <1>5, <1>6, <1>9, <1>10, <1>11, <1>12 DEF Swept

(* Compaction moves nothing into or out of the nursery. *)
LEMMA SweptTimes ==
  ASSUME prog \in Programs, NEW g, IsGc(g), Spaces(g), NEW ref, IsRef(ref), NEW k \in Nat
  PROVE  Into(ForwardTimes(Forwards(SweepTo(g)), ref, k).ptr)
           => ForwardTimes(Forwards(SweepTo(g)), ref, k) = ref
<1> DEFINE to == SweepTo(g)
           fwd == Forwards(to)
           x == ForwardTimes(fwd, ref, k)
<1>1. /\ DOMAIN to \subseteq Nat
      /\ \A h \in DOMAIN to : to[h] \in Nat /\ TenuredStart <= to[h] /\ TenuredStart <= h
  BY SweepMap
<1> HIDE DEF to
<1>2. \A p \in DOMAIN fwd : \E h \in DOMAIN to : fwd[p] = to[h] + 1 /\ p = h + 1
  BY <1>1, ForwardsAre
<1>3. NurseryLimit \in Nat /\ TenuredStart \in Nat /\ NurseryLimit < TenuredStart /\ Off = 1
  BY Limits
<1>8. (\A h \in DOMAIN to : ref.ptr # h + 1) => Forward(fwd, ref) = ref
  BY <1>1, Followed
<1> HIDE DEF fwd
<1>4. \A p \in DOMAIN fwd : fwd[p] \in Nat /\ NurseryLimit + 1 < fwd[p]
  BY <1>1, <1>2, <1>3
<1>5. x.ptr \in Nat /\ (x.ptr = ref.ptr \/ NurseryLimit + 1 < x.ptr)
  <2> DEFINE C == {y \in [ptr : Nat, id : {ref.id}] : y.ptr = ref.ptr \/ NurseryLimit + 1 < y.ptr}
  <2>1. ref \in C
    BY DEF IsRef
  <2>2. ASSUME NEW y \in C PROVE Forward(fwd, y) \in C
    <3>1. CASE y.ptr \in DOMAIN fwd
      <4>1. Forward(fwd, y) = [y EXCEPT !.ptr = fwd[y.ptr]]
        BY <3>1 DEF Forward
      <4> QED BY <1>4, <3>1, <4>1
    <3>2. CASE y.ptr \notin DOMAIN fwd
      BY <3>2 DEF Forward
    <3> QED BY <3>1, <3>2
  <2>3. x \in C
    <3> HIDE DEF C
    <3> QED BY <2>1, <2>2, TimesStay
  <2> QED BY <2>3
<1>9. Forward(fwd, ref) = ref => x \in {ref}
  BY TimesStay
<1> HIDE DEF x
<1> SUFFICES ASSUME Into(x.ptr) PROVE x = ref
  BY DEF x, fwd, to
<1>6. x.ptr = ref.ptr
  BY <1>3, <1>4, <1>5 DEF Into
<1>7. \A h \in DOMAIN to : ref.ptr # h + 1
  BY <1>1, <1>3, <1>6 DEF Into
<1> QED BY <1>7, <1>8, <1>9

LEMMA SweepOk ==
  ASSUME prog \in Programs, NEW g, Ok(g), NEW n, n = SweepTenured(g)
  PROVE  Ok(n)
<1> DEFINE fwd == Forwards(SweepTo(g))
           a == ApplyForwards(SweepMoved(g), fwd)
<1>1. IsGc(g) /\ Spaces(g) /\ Fresh(g) /\ Aimed(g)
  BY DEF Ok
<1>2. n = RebuildRemembered(a)
  BY SweepIs
<1>3. IsGc(a) /\ Spaces(a) /\ Swept(g, a, fwd)
  BY <1>1, SweepRefs
<1>4. fwd = Forwards(SweepTo(g))
  OBVIOUS
<1> HIDE DEF a, fwd
<1>5. Young(a) = Young(g) /\ a.aborted = g.aborted
  BY <1>3 DEF Swept
<1>6. Fresh(a)
  BY <1>1, <1>3, <1>5 DEF Swept, Fresh
<1>7. /\ g.large \subseteq DOMAIN g.heap /\ Young(g) \subseteq DOMAIN g.heap
      /\ Tenured(g) \subseteq DOMAIN g.heap
  BY <1>1, Where
<1>8. SweepLive(g) \subseteq Tenured(g)
  BY DEF SweepLive
<1>9. ASSUME Tracks, NEW c \in DOMAIN a.heap, NEW i \in DOMAIN a.heap[c].slots,
             Into(a.heap[c].slots[i].ptr)
      PROVE  a.heap[c].slots[i].ptr - 1 \in Young(a)
  <2>1. PICK h \in DOMAIN g.heap :
             /\ i \in DOMAIN g.heap[h].slots
             /\ \E k \in {1, 2} : a.heap[c].slots[i] = ForwardTimes(fwd, g.heap[h].slots[i], k)
    <3>1. CASE c \in Young(g) \cup g.large
      <4>1. a.heap[c].slots[i] = ForwardTimes(fwd, g.heap[c].slots[i], Times(g.remembered, c, i))
            /\ i \in DOMAIN g.heap[c].slots
        BY <1>3, <3>1 DEF Swept
      <4>2. Times(g.remembered, c, i) \in {1, 2}
        BY TimesRange
      <4> QED BY <1>7, <3>1, <4>1, <4>2
    <3>2. CASE c \notin Young(g) \cup g.large
      <4>1. PICK h \in SweepLive(g) : c = SweepTo(g)[h]
        BY <1>3, <3>2 DEF Swept
      <4>2. a.heap[c].slots[i] = ForwardTimes(fwd, g.heap[h].slots[i], Times(g.remembered, c, i))
            /\ i \in DOMAIN g.heap[h].slots
        BY <1>3, <4>1 DEF Swept
      <4>3. Times(g.remembered, c, i) \in {1, 2}
        BY TimesRange
      <4> QED BY <1>7, <1>8, <4>2, <4>3
    <3> QED BY <3>1, <3>2
  <2>2. PICK k \in {1, 2} : a.heap[c].slots[i] = ForwardTimes(fwd, g.heap[h].slots[i], k)
    BY <2>1
  <2>3. IsRef(g.heap[h].slots[i])
    BY <1>1, <2>1, SlotAddr
  <2>4. k \in Nat
    OBVIOUS
  <2>5. a.heap[c].slots[i] = g.heap[h].slots[i]
    BY <1>1, <1>4, <1>9, <2>2, <2>3, <2>4, SweptTimes, Zenon
  <2> QED BY <1>1, <1>5, <1>9, <2>1, <2>5 DEF Aimed
<1>10. Aimed(a)
  <2>1. \A h \in Young(g) : Len(a.heap[h].slots) = Len(g.heap[h].slots)
    BY <1>3 DEF Swept
  <2> QED BY <1>1, <1>5, <1>9, <2>1 DEF Aimed
<1> QED BY <1>2, <1>3, <1>6, <1>10, RebuildCatches

LEMMA MajorOk ==
  ASSUME prog \in Programs, NEW g, Ok(g), ~g.aborted, NEW n, n = MajorCollect(g)
  PROVE  Ok(n)
<1> DEFINE m == MinorCollect(g)
           s == SweepTenured(m)
           l == SweepLarge(s)
<1>1. n = IF m.aborted THEN m ELSE RebuildRemembered(l)
  BY DEF MajorCollect
<1>2. Ok(m)
  BY MinorOk
<1> HIDE DEF m
<1>3. Ok(s)
  BY <1>2, SweepOk
<1> HIDE DEF s
<1>4. IsGc(s) /\ Spaces(s) /\ Fresh(s) /\ Aimed(s)
  BY <1>3 DEF Ok
<1>5. /\ IsGc(l) /\ Spaces(l) /\ Young(l) = Young(s) /\ l.aborted = s.aborted
      /\ DOMAIN l.heap = DOMAIN s.heap \ {h \in s.large : ~s.heap[h].marked}
      /\ \A h \in DOMAIN l.heap :
           /\ l.heap[h].slots = s.heap[h].slots
           /\ l.heap[h].marked <=> (s.heap[h].marked /\ h \notin s.large)
  BY <1>4, SweepLargeFields
<1> HIDE DEF l
<1>6. Young(l) \subseteq DOMAIN l.heap /\ DOMAIN l.heap \subseteq DOMAIN s.heap
  BY <1>5 DEF Young
<1>7. Fresh(l)
  BY <1>4, <1>5, <1>6 DEF Fresh
<1>8. Aimed(l)
  BY <1>4, <1>5, <1>6 DEF Aimed
<1>9. Ok(RebuildRemembered(l))
  BY <1>5, <1>7, <1>8, RebuildCatches
<1> QED BY <1>1, <1>2, <1>9

-----------------------------------------------------------------------------
(* The inductive invariant *)

(* A slot the program took off the root table is empty. *)
Unused(g) == \A r \in Roots : g.reg[r] = 0 => g.root[r].ptr = 0

Inv(g) == Ok(g) /\ Unused(g)

(* A new object keeps the invariant. *)

LEMMA GrownOk ==
  ASSUME prog \in Programs, NEW g, Ok(g), NEW n, IsGc(n), Spaces(n),
         NEW h, NEW k \in prog.sizes, NEW age, Grown(g, n, h, k, age),
         Young(g) \subseteq Young(n), Young(n) \subseteq Young(g) \cup {h},
         Old(g) \subseteq Old(n), Old(n) \subseteq Old(g) \cup {h}
  PROVE  Ok(n)
<1>1. IsGc(g) /\ Spaces(g) /\ Listed(g) /\ (Tracks => Caught(g)) /\ Fresh(g) /\ Aimed(g)
  BY DEF Ok
<1>2. /\ h \notin DOMAIN g.heap /\ DOMAIN n.heap = DOMAIN g.heap \cup {h}
      /\ \A a \in DOMAIN g.heap : n.heap[a] = g.heap[a]
      /\ n.heap[h].marked = FALSE
      /\ Len(n.heap[h].slots) = k /\ DOMAIN n.heap[h].slots = 1..k
      /\ \A i \in 1..k : n.heap[h].slots[i] = Null
      /\ n.remembered = g.remembered /\ n.aborted = g.aborted
  BY DEF Grown
<1>3. /\ Old(g) \subseteq DOMAIN g.heap /\ Young(g) \subseteq DOMAIN g.heap
      /\ DOMAIN g.heap \subseteq Nat
      /\ \A a \in Young(g) : 1 <= a /\ a < g.nursery_ptr
      /\ g.nursery_ptr \in Nat
  BY <1>1, OldAre
<1>4. n.nursery_ptr \in Nat /\ n.nursery_ptr <= NurseryLimit
  BY OldAre
<1>5. NurseryStart = 1 /\ Off = 1 /\ NurseryLimit \in Nat
  BY Limits
<1>6. Null.ptr = 0
  BY DEF Null
<1>7. Listed(n)
  BY <1>1, <1>2, <1>3 DEF Listed
<1>8. ASSUME Tracks, NEW a \in Old(n), NEW i \in DOMAIN n.heap[a].slots,
             PointsToNursery(n, n.heap[a].slots[i].ptr)
      PROVE  a + i \in n.remembered
  <2>1. CASE a = h
    BY <2>1, <1>2, <1>5, <1>6, <1>8 DEF PointsToNursery
  <2>2. CASE a # h
    <3>1. a \in Old(g) /\ a \in DOMAIN g.heap /\ n.heap[a] = g.heap[a]
      BY <2>2, <1>2, <1>3
    <3> DEFINE p == g.heap[a].slots[i].ptr
    <3>2. PointsToNursery(n, p) /\ i \in DOMAIN g.heap[a].slots
      BY <1>8, <3>1
    <3>3. p \in Nat
      BY <1>1, <3>1, <3>2, SlotAddr DEF IsRef
    <3>4. Into(p)
      BY <1>4, <1>5, <3>2, <3>3 DEF Into, PointsToNursery
    <3>5. p - 1 \in Young(g)
      BY <1>1, <1>8, <3>1, <3>2, <3>4 DEF Aimed
    <3>6. PointsToNursery(g, p)
      BY <1>3, <1>5, <3>3, <3>5 DEF PointsToNursery
    <3> QED BY <1>1, <1>2, <1>8, <3>1, <3>2, <3>6 DEF Caught
  <2> QED BY <2>1, <2>2
<1>9. Fresh(n)
  BY <1>1, <1>2, <1>3 DEF Fresh
<1>10. Aimed(n)
  <2>1. ASSUME Tracks, NEW a \in Young(n) PROVE Len(n.heap[a].slots) # 0
    <3>1. CASE a = h
      BY <1>2, <2>1, <3>1 DEF Tracks
    <3>2. CASE a # h
      BY <1>1, <1>2, <1>3, <2>1, <3>2 DEF Aimed
    <3> QED BY <3>1, <3>2
  <2>2. ASSUME Tracks, NEW a \in DOMAIN n.heap, NEW i \in DOMAIN n.heap[a].slots,
               Into(n.heap[a].slots[i].ptr)
        PROVE  n.heap[a].slots[i].ptr - 1 \in Young(n)
    <3>1. CASE a = h
      BY <1>2, <1>5, <1>6, <2>2, <3>1 DEF Into
    <3>2. CASE a # h
      BY <1>1, <1>2, <2>2, <3>2 DEF Aimed
    <3> QED BY <3>1, <3>2
  <2> QED BY <2>1, <2>2 DEF Aimed
<1> QED BY <1>7, <1>8, <1>9, <1>10 DEF Ok, Caught

-----------------------------------------------------------------------------
(* Collections and allocations keep the invariant *)

LEMMA MinorReg ==
  ASSUME prog \in Programs, NEW g, IsGc(g), Spaces(g), NEW n, n = MinorCollect(g)
  PROVE  n.reg = g.reg /\ (Unused(g) => Unused(n))
<1> DEFINE t == Traced(g)
           p == PromoteSurvivors(t)
           fwd == Forwards(PromoteTo(t))
<1>1. IsGc(t) /\ SameShape(g, t) /\ t.reg = g.reg /\ t.root = g.root
  BY TracedFields
<1>2. n = IF p.aborted THEN p ELSE RebuildRemembered(p)
  BY DEF MinorCollect, Traced
<1> HIDE DEF t
<1>3. Spaces(t)
  BY <1>1, SpacesSame
<1>4. p = PromoteSurvivors(t) /\ fwd = Forwards(PromoteTo(t))
  OBVIOUS
<1> HIDE DEF p, fwd
<1>5. IsGc(p)
  BY <1>1, <1>3, <1>4, PromoteSpaces
<1>6. p.reg = t.reg /\ \A r \in Roots : t.reg[r] = 0 => p.root[r] = t.root[r]
  <2>1. CASE PromoteFree(t) > TenuredLimit
    <3>1. p = [t EXCEPT !.aborted = TRUE]
      BY <1>4, <2>1, PromoteIs
    <3> QED BY <1>1, <3>1, AbortFields
  <2>2. CASE ~(PromoteFree(t) > TenuredLimit)
    <3>1. Promoted(t, p, fwd)
      BY <1>1, <1>3, <1>4, <2>2, PromoteRefs
    <3> QED BY <3>1, TimesOnce DEF Promoted
  <2> QED BY <2>1, <2>2
<1>7. RebuildRemembered(p).reg = p.reg /\ RebuildRemembered(p).root = p.root
  BY <1>5, RebuildFields
<1>8. n.reg = g.reg /\ \A r \in Roots : g.reg[r] = 0 => n.root[r] = g.root[r]
  BY <1>1, <1>2, <1>6, <1>7
<1> QED BY <1>8 DEF Unused

LEMMA MajorReg ==
  ASSUME prog \in Programs, NEW g, IsGc(g), Spaces(g), NEW n, n = MajorCollect(g)
  PROVE  n.reg = g.reg /\ (Unused(g) => Unused(n))
<1> DEFINE m == MinorCollect(g)
           s == SweepTenured(m)
           l == SweepLarge(s)
<1>1. n = IF m.aborted THEN m ELSE RebuildRemembered(l)
  BY DEF MajorCollect
<1>2. IsGc(m) /\ Spaces(m) /\ m.reg = g.reg /\ (Unused(g) => Unused(m))
  BY MinorSpaces, MinorReg
<1> HIDE DEF m
<1>3. IsGc(s) /\ Spaces(s)
  BY <1>2, SweepSpaces
<1>4. s.reg = m.reg /\ \A r \in Roots : m.reg[r] = 0 => s.root[r] = m.root[r]
  <2> DEFINE fwd == Forwards(SweepTo(m))
             a == ApplyForwards(SweepMoved(m), fwd)
  <2>1. s = RebuildRemembered(a)
    BY SweepIs
  <2>2. IsGc(a) /\ Swept(m, a, fwd)
    BY <1>2, SweepRefs
  <2> HIDE DEF a, fwd, s
  <2>3. s.reg = a.reg /\ s.root = a.root
    BY <2>1, <2>2, RebuildFields
  <2> QED BY <2>2, <2>3, TimesOnce DEF Swept
<1> HIDE DEF s
<1>5. IsGc(l) /\ l.reg = s.reg /\ l.root = s.root
  BY <1>3, SweepLargeFields
<1> HIDE DEF l
<1>6. RebuildRemembered(l).reg = l.reg /\ RebuildRemembered(l).root = l.root
  BY <1>5, RebuildFields
<1>7. n.reg = m.reg /\ \A r \in Roots : m.reg[r] = 0 => n.root[r] = m.root[r]
  BY <1>1, <1>2, <1>4, <1>5, <1>6
<1> QED BY <1>2, <1>7 DEF Unused

LEMMA MinorKeeps ==
  ASSUME prog \in Programs, NEW g, Inv(g), ~g.aborted, NEW n, n = MinorCollect(g)
  PROVE  Inv(n) /\ n.reg = g.reg
<1>1. Ok(g) /\ Unused(g) /\ IsGc(g) /\ Spaces(g)
  BY DEF Inv, Ok
<1>2. Ok(n)
  BY <1>1, MinorOk
<1>3. n.reg = g.reg /\ Unused(n)
  BY <1>1, MinorReg
<1> QED BY <1>2, <1>3 DEF Inv

LEMMA MajorKeeps ==
  ASSUME prog \in Programs, NEW g, Inv(g), ~g.aborted, NEW n, n = MajorCollect(g)
  PROVE  Inv(n) /\ n.reg = g.reg
<1>1. Ok(g) /\ Unused(g) /\ IsGc(g) /\ Spaces(g)
  BY DEF Inv, Ok
<1>2. Ok(n)
  BY <1>1, MajorOk
<1>3. n.reg = g.reg /\ Unused(n)
  BY <1>1, MajorReg
<1> QED BY <1>2, <1>3 DEF Inv

(* An allocator's result *)
ResOk(g, res) ==
  /\ Inv(res.gc) /\ res.gc.reg = g.reg
  /\ res.obj = 0 \/ (res.obj \in Nat /\ res.obj - 1 \in DOMAIN res.gc.heap)

LEMMA FailedOk ==
  ASSUME NEW g, NEW n, Inv(n), n.reg = g.reg
  PROVE  ResOk(g, Failed(n)) /\ Failed(n).obj = 0 /\ Failed(n).gc = n
<1>1. Failed(n).gc = n /\ Failed(n).obj = 0
  BY DEF Failed
<1> QED BY <1>1 DEF ResOk

LEMMA AllocatedOk ==
  ASSUME prog \in Programs, NEW g, Inv(g), NEW k \in prog.sizes, NEW res, NEW h, NEW age,
         Allocated(g, res, h, k, age),
         Young(g) \subseteq Young(res.gc), Young(res.gc) \subseteq Young(g) \cup {h},
         Old(g) \subseteq Old(res.gc), Old(res.gc) \subseteq Old(g) \cup {h}
  PROVE  ResOk(g, res)
<1> DEFINE n == res.gc
<1>1. Ok(g) /\ Unused(g)
  BY DEF Inv
<1>2. res.obj = h + 1 /\ IsGc(n) /\ Spaces(n) /\ Grown(g, n, h, k, age) /\ h \in Nat
  BY DEF Allocated
<1>3. /\ Young(g) \subseteq Young(n) /\ Young(n) \subseteq Young(g) \cup {h}
      /\ Old(g) \subseteq Old(n) /\ Old(n) \subseteq Old(g) \cup {h}
  OBVIOUS
<1> HIDE DEF n
<1>4. Ok(n)
  BY <1>1, <1>2, <1>3, GrownOk
<1>5. n.reg = g.reg /\ n.root = g.root /\ h \in DOMAIN n.heap
  BY <1>2 DEF Grown
<1>6. Inv(n)
  BY <1>1, <1>4, <1>5 DEF Inv, Unused
<1>7. res.obj \in Nat /\ res.obj - 1 = h
  BY <1>2
<1> QED BY <1>5, <1>6, <1>7 DEF ResOk, n

LEMMA FastOk ==
  ASSUME prog \in Programs, NEW g, Inv(g), NEW k \in prog.sizes,
         NEW res, res = AllocFastUnlocked(g, k)
  PROVE  ResOk(g, res)
<1>1. IsGc(g) /\ Spaces(g)
  BY DEF Inv, Ok
<1>2. CASE res = Failed(g) /\ res.gc = g /\ res.obj = 0
  BY <1>2, FailedOk
<1>3. CASE /\ Allocated(g, res, g.nursery_ptr, k, 0)
           /\ Young(res.gc) = Young(g) \cup {g.nursery_ptr}
           /\ Old(res.gc) = Old(g)
  BY <1>3, AllocatedOk
<1> QED BY <1>1, <1>2, <1>3, FastAllocates

LEMMA TenuredOk ==
  ASSUME prog \in Programs, NEW g, Inv(g), NEW k \in prog.sizes,
         NEW res, res = AllocTenured(g, k)
  PROVE  ResOk(g, res)
<1>1. IsGc(g) /\ Spaces(g)
  BY DEF Inv, Ok
<1>2. CASE res = Failed(g) /\ res.gc = g /\ res.obj = 0
  BY <1>2, FailedOk
<1>3. CASE /\ Allocated(g, res, g.tenured_free, k, PromotionAge)
           /\ Young(res.gc) = Young(g)
           /\ Old(res.gc) = Old(g) \cup {g.tenured_free}
  BY <1>3, AllocatedOk
<1> QED BY <1>1, <1>2, <1>3, TenuredAllocates

LEMMA LargeOk ==
  ASSUME prog \in Programs, NEW g, Inv(g), NEW k \in prog.sizes,
         NEW res, res = AllocLarge(g, k)
  PROVE  ResOk(g, res)
<1>1. IsGc(g) /\ Spaces(g)
  BY DEF Inv, Ok
<1>2. CASE res = Failed(g) /\ res.gc = g /\ res.obj = 0
  BY <1>2, FailedOk
<1>3. ASSUME NEW h \in LargeAddrs, Allocated(g, res, h, k, PromotionAge),
             Young(res.gc) = Young(g), Old(res.gc) = Old(g) \cup {h}
      PROVE  ResOk(g, res)
  BY <1>3, AllocatedOk
<1> QED BY <1>1, <1>2, <1>3, LargeAllocates

(* The entry points that may collect *)
LEMMA TenuredOrMajorOk ==
  ASSUME prog \in Programs, NEW g, Inv(g), ~g.aborted, NEW k \in prog.sizes
  PROVE  ResOk(g, TenuredOrMajor(g, k))
<1> DEFINE first == AllocTenured(g, k)
           major == MajorCollect(g)
           second == AllocTenured(major, k)
           res == TenuredOrMajor(g, k)
<1>1. /\ first.obj # 0 => res = first
      /\ first.obj = 0 /\ major.aborted => res = Failed(major)
      /\ first.obj = 0 /\ ~major.aborted => res = second
  BY DEF TenuredOrMajor
<1>2. ResOk(g, first)
  BY TenuredOk
<1>3. Inv(major) /\ major.reg = g.reg
  BY MajorKeeps
<1> HIDE DEF first, res
<1>4. ResOk(g, Failed(major))
  <2> HIDE DEF major
  <2> QED BY <1>3, FailedOk
<1>5. ResOk(g, second)
  <2> HIDE DEF major
  <2>1. ResOk(major, second)
    BY <1>3, TenuredOk
  <2> QED BY <1>3, <2>1 DEF ResOk
<1> HIDE DEF major, second
<1> QED BY <1>1, <1>2, <1>4, <1>5 DEF res

LEMMA SlowOk ==
  ASSUME prog \in Programs, NEW g, Inv(g), ~g.aborted, NEW k \in prog.sizes
  PROVE  ResOk(g, AllocSlow(g, k))
<1> DEFINE minor == MinorCollect(g)
           young == AllocFastUnlocked(minor, k)
           res == AllocSlow(g, k)
<1>1. /\ minor.aborted => res = Failed(minor)
      /\ ~minor.aborted /\ young.obj # 0 => res = young
      /\ ~minor.aborted /\ young.obj = 0 => res = TenuredOrMajor(minor, k)
  BY DEF AllocSlow
<1>2. Inv(minor) /\ minor.reg = g.reg
  BY MinorKeeps
<1> HIDE DEF minor, res
<1>3. ResOk(g, Failed(minor))
  BY <1>2, FailedOk
<1>4. ResOk(minor, young)
  BY <1>2, FastOk
<1>5. ~minor.aborted => ResOk(minor, TenuredOrMajor(minor, k))
  BY <1>2, TenuredOrMajorOk
<1> HIDE DEF young
<1>6. \A x : ResOk(minor, x) => ResOk(g, x)
  BY <1>2 DEF ResOk
<1> QED BY <1>1, <1>3, <1>4, <1>5, <1>6 DEF res

LEMMA AnyOk ==
  ASSUME prog \in Programs, NEW g, Inv(g), ~g.aborted, NEW k \in prog.sizes
  PROVE  ResOk(g, AllocAny(g, k))
<1> DEFINE first == AllocFastUnlocked(g, k)
<1>1. AllocAny(g, k) = IF first.obj # 0 THEN first ELSE AllocSlow(g, k)
  BY DEF AllocAny
<1>2. ResOk(g, first)
  BY FastOk
<1> HIDE DEF first
<1> QED BY <1>1, <1>2, SlowOk

-----------------------------------------------------------------------------
(* The program's operations keep the invariant *)

(* Root slots and their registrations change, nothing else does. *)
LEMMA RootsChange ==
  ASSUME NEW g, Inv(g), NEW n, IsGc(n), n.heap = g.heap, n.nursery_ptr = g.nursery_ptr,
         n.tenured_free = g.tenured_free, n.large = g.large, n.remembered = g.remembered,
         n.aborted = g.aborted, Unused(n)
  PROVE  Inv(n)
<1>1. SameShape(g, n)
  BY DEF SameShape
<1>2. /\ DOMAIN n.heap = DOMAIN g.heap /\ Young(n) = Young(g) /\ Old(n) = Old(g)
  BY <1>1, SameUnits
<1>3. Spaces(n)
  BY <1>1, SpacesSame DEF Inv, Ok
<1>4. Listed(g) /\ (Tracks => Caught(g)) /\ Fresh(g) /\ Aimed(g)
  BY DEF Inv, Ok
<1>5. Listed(n) /\ (Tracks => Caught(n)) /\ Fresh(n) /\ Aimed(n)
  BY <1>2, <1>4 DEF Listed, Caught, Fresh, Aimed, PointsToNursery
<1> QED BY <1>3, <1>5 DEF Inv, Ok

(* One registered root slot, or one that is cleared, gets a new value. *)
RootIs(g, n, r, ref) ==
  /\ n.heap = g.heap /\ n.reg = g.reg
  /\ \A q \in Roots : n.root[q] = IF q = r THEN ref ELSE g.root[q]

LEMMA RootSet ==
  ASSUME NEW g, Inv(g), NEW r \in Roots, NEW ref, IsRef(ref), g.reg[r] > 0 \/ ref.ptr = 0,
         NEW n, n = [g EXCEPT !.root[r] = ref]
  PROVE  Inv(n) /\ RootIs(g, n, r, ref)
<1>1. IsGc(g) /\ Unused(g)
  BY DEF Inv, Ok
<1> DEFINE y == [g.root EXCEPT ![r] = ref]
<1>2. n = [g EXCEPT !.root = y]
  OBVIOUS
<1>3. DOMAIN y = Roots /\ \A q \in Roots : y[q] = IF q = r THEN ref ELSE g.root[q]
  BY <1>1 DEF IsGc
<1> HIDE DEF y
<1>4. /\ n.root = y /\ n.heap = g.heap /\ n.nursery_ptr = g.nursery_ptr
      /\ n.tenured_free = g.tenured_free /\ n.large = g.large /\ n.remembered = g.remembered
      /\ n.reg = g.reg /\ n.aborted = g.aborted
  BY <1>1, <1>2 DEF IsGc
<1>5. n \in [heap : {g.heap}, nursery_ptr : Nat, tenured_free : Nat, large : SUBSET LargeAddrs,
             remembered : {g.remembered}, root : {y}, reg : [Roots -> 0..MaxReg],
             aborted : BOOLEAN]
  BY <1>1, <1>2 DEF IsGc
<1>6. IsGc(n)
  BY <1>1, <1>3, <1>4, <1>5 DEF IsGc
<1>7. Unused(n)
  BY <1>1, <1>3, <1>4 DEF Unused
<1>8. Inv(n)
  BY <1>4, <1>6, <1>7, RootsChange
<1> QED BY <1>3, <1>4, <1>8 DEF RootIs

LEMMA NullRef == IsRef(Null) /\ Null.ptr = 0
BY DEF IsRef, Null

(* The reference that an allocation delivers *)
Result(res) ==
  IF res.obj = 0 THEN Null ELSE [ptr |-> res.obj, id |-> res.gc.heap[Header(res.obj)].id]

LEMMA DeliverKeeps ==
  ASSUME NEW g, NEW res, ResOk(g, res), NEW r \in Roots, g.reg[r] > 0, Deliver(res, r)
  PROVE  Inv(gc') /\ RootIs(res.gc, gc', r, Result(res)) /\ IsRef(Result(res))
<1>1. gc' = [res.gc EXCEPT !.root[r] = Result(res)]
  BY DEF Deliver, Result
<1>2. Inv(res.gc) /\ res.gc.reg[r] > 0 /\ (res.obj = 0 \/ res.obj \in Nat)
  BY DEF ResOk
<1>3. IsRef(Result(res))
  BY <1>2, NullRef DEF IsRef, Result
<1> QED BY <1>1, <1>2, <1>3, RootSet

(* The write barrier tells the slots of old objects by their address. *)
LEMMA OldSlot ==
  ASSUME prog \in Programs, NEW g, IsGc(g), Spaces(g), NEW h \in DOMAIN g.heap,
         NEW i \in DOMAIN g.heap[h].slots
  PROVE  InOld(g, h + i) <=> h \in Old(g)
<1>1. /\ h \in Nat /\ i \in Nat /\ 1 <= i /\ i <= Len(g.heap[h].slots)
      /\ Len(g.heap[h].slots) \in Nat
  BY DEF IsGc, IsObj
<1>2. Units(g, h) = 1 + Len(g.heap[h].slots)
  BY UnitsOf
<1>3. h + i \in Nat /\ h < h + i /\ h + i < h + Units(g, h)
  BY <1>1, <1>2
<1>4. /\ Apart(g, Young(g), g.nursery_ptr) /\ Apart(g, Tenured(g), g.tenured_free)
      /\ g.nursery_ptr <= NurseryLimit /\ g.nursery_ptr \in Nat /\ g.tenured_free \in Nat
      /\ g.large \subseteq LargeAddrs
      /\ \A k \in Tenured(g) : TenuredStart <= k
  BY Where
<1>5. /\ NurseryLimit \in Nat /\ TenuredStart \in Nat /\ NurseryLimit < TenuredStart
      /\ TenuredLimit \in Nat /\ TenuredStart <= TenuredLimit
      /\ \A a \in LargeAddrs : a \in Nat /\ TenuredLimit < a
  BY Limits
<1>6. DOMAIN g.heap = Young(g) \cup Old(g) /\ Old(g) = Tenured(g) \cup g.large
  BY DEF Spaces, Old
<1>7. Units(g, h) \in Nat
  BY <1>1, <1>2
<1>8. CASE h \in Young(g)
  <2>1. h + Units(g, h) <= g.nursery_ptr
    BY <1>4, <1>8 DEF Apart
  <2>2. h + i < TenuredStart
    BY <1>1, <1>3, <1>4, <1>5, <1>7, <2>1
  <2>3. ~InLarge(g, h + i)
    BY <1>3, <1>4, <1>5, <2>2 DEF InLarge
  <2>4. ~InOld(g, h + i)
    BY <1>3, <1>5, <2>2, <2>3 DEF InOld
  <2>5. h \notin Old(g)
    BY <1>8, OldAre
  <2> QED BY <2>4, <2>5
<1>9. CASE h \in Tenured(g)
  <2>1. h + Units(g, h) <= g.tenured_free /\ TenuredStart <= h
    BY <1>4, <1>9 DEF Apart
  <2>2. TenuredStart <= h + i /\ h + i < g.tenured_free
    BY <1>1, <1>3, <1>4, <1>5, <1>7, <2>1
  <2> QED BY <1>6, <1>9, <2>2 DEF InOld
<1>10. CASE h \in g.large
  <2>1. InLarge(g, h + i)
    BY <1>1, <1>3, <1>10 DEF InLarge
  <2> QED BY <1>6, <1>10, <2>1 DEF InOld
<1> QED BY <1>6, <1>8, <1>9, <1>10

(* A store into the slot i of the object h, after its barrier *)
Stored(g, n, h, i, ref, rem) ==
  /\ IsGc(n) /\ SameShape(g, n) /\ n.remembered = rem
  /\ n.root = g.root /\ n.reg = g.reg /\ n.aborted = g.aborted
  /\ \A k \in DOMAIN g.heap :
       /\ n.heap[k].marked = g.heap[k].marked /\ n.heap[k].id = g.heap[k].id
       /\ DOMAIN n.heap[k].slots = DOMAIN g.heap[k].slots
       /\ \A j \in DOMAIN g.heap[k].slots :
            n.heap[k].slots[j] = IF k = h /\ j = i THEN ref ELSE g.heap[k].slots[j]

LEMMA SetSlot ==
  ASSUME NEW g, IsGc(g), NEW h \in DOMAIN g.heap, NEW i \in DOMAIN g.heap[h].slots,
         NEW ref, IsRef(ref), NEW n, n = [g EXCEPT !.heap[h].slots[i] = ref]
  PROVE  Stored(g, n, h, i, ref, g.remembered)
<1> DEFINE s == [g.heap[h].slots EXCEPT ![i] = ref]
           o == [g.heap[h] EXCEPT !.slots = s]
           f == [g.heap EXCEPT ![h] = o]
           l == Len(g.heap[h].slots)
<1>4. n = [g EXCEPT !.heap = f]
  OBVIOUS
<1>5. IsObj(g.heap[h]) /\ l \in Nat /\ DOMAIN g.heap[h].slots = 1..l
  BY DEF IsGc, IsObj
<1>6. DOMAIN s = 1..l /\ s = [j \in 1..l |-> s[j]]
      /\ \A j \in 1..l : s[j] = IF j = i THEN ref ELSE g.heap[h].slots[j]
  BY <1>5
<1> HIDE DEF s, l
<1>7. Len(s) = l
  BY <1>5, <1>6, LenOf
<1>8. /\ o \in [id : {g.heap[h].id}, marked : BOOLEAN, age : Nat, slots : {s}]
      /\ o.id = g.heap[h].id /\ o.marked = g.heap[h].marked /\ o.age = g.heap[h].age
      /\ o.slots = s
  BY <1>5 DEF IsObj
<1> HIDE DEF o
<1>9. \A j \in 1..l : IsRef(s[j])
  BY <1>5, <1>6 DEF IsObj
<1>10. IsObj(o)
  BY <1>5, <1>6, <1>7, <1>8, <1>9 DEF IsObj
<1>11. DOMAIN f = DOMAIN g.heap /\ f[h] = o /\ \A k \in DOMAIN g.heap : k # h => f[k] = g.heap[k]
  OBVIOUS
<1> HIDE DEF f
<1>12. DOMAIN f \subseteq Nat /\ \A k \in DOMAIN f : IsObj(f[k])
  BY <1>10, <1>11 DEF IsGc
<1>13. /\ n.heap = f /\ n.nursery_ptr = g.nursery_ptr /\ n.tenured_free = g.tenured_free
       /\ n.large = g.large /\ n.remembered = g.remembered /\ n.root = g.root
       /\ n.reg = g.reg /\ n.aborted = g.aborted
  BY <1>4 DEF IsGc
<1>16. n \in [heap : {f}, nursery_ptr : Nat, tenured_free : Nat, large : SUBSET LargeAddrs,
              remembered : {g.remembered}, root : {g.root}, reg : [Roots -> 0..MaxReg],
              aborted : BOOLEAN]
  BY <1>4 DEF IsGc
<1>17. IsGc(n)
  BY <1>12, <1>13, <1>16 DEF IsGc
<1>14. ASSUME NEW k \in DOMAIN g.heap
       PROVE  /\ n.heap[k].marked = g.heap[k].marked /\ n.heap[k].id = g.heap[k].id
              /\ n.heap[k].age = g.heap[k].age /\ Len(n.heap[k].slots) = Len(g.heap[k].slots)
              /\ DOMAIN n.heap[k].slots = DOMAIN g.heap[k].slots
              /\ \A j \in DOMAIN g.heap[k].slots :
                   n.heap[k].slots[j] = IF k = h /\ j = i THEN ref ELSE g.heap[k].slots[j]
  <2>1. CASE k = h
    BY <1>5, <1>6, <1>7, <1>8, <1>11, <1>13, <2>1 DEF l
  <2>2. CASE k # h
    BY <1>11, <1>13, <2>2
  <2> QED BY <2>1, <2>2
<1>15. SameShape(g, n)
  BY <1>11, <1>13, <1>14 DEF SameShape
<1> QED BY <1>13, <1>14, <1>15, <1>17 DEF Stored

LEMMA SetRemembered ==
  ASSUME NEW g, IsGc(g), NEW rem, NEW n, n = [g EXCEPT !.remembered = rem]
  PROVE  /\ IsGc(n) /\ n.heap = g.heap /\ n.nursery_ptr = g.nursery_ptr
         /\ n.tenured_free = g.tenured_free /\ n.large = g.large /\ n.remembered = rem
         /\ n.root = g.root /\ n.reg = g.reg /\ n.aborted = g.aborted
<1>1. /\ n.heap = g.heap /\ n.nursery_ptr = g.nursery_ptr /\ n.tenured_free = g.tenured_free
      /\ n.large = g.large /\ n.remembered = rem /\ n.root = g.root
      /\ n.reg = g.reg /\ n.aborted = g.aborted
  BY DEF IsGc
<1>2. n \in [heap : {g.heap}, nursery_ptr : Nat, tenured_free : Nat, large : SUBSET LargeAddrs,
             remembered : {rem}, root : {g.root}, reg : [Roots -> 0..MaxReg], aborted : BOOLEAN]
  BY DEF IsGc
<1> QED BY <1>1, <1>2 DEF IsGc

LEMMA StoreFields ==
  ASSUME NEW g, IsGc(g), NEW h \in DOMAIN g.heap, NEW i \in DOMAIN g.heap[h].slots,
         NEW ref, IsRef(ref), NEW rem
  PROVE  Stored(g, [[g EXCEPT !.remembered = rem] EXCEPT !.heap[h].slots[i] = ref], h, i, ref, rem)
<1> DEFINE b == [g EXCEPT !.remembered = rem]
           n == [b EXCEPT !.heap[h].slots[i] = ref]
<1>1. /\ IsGc(b) /\ b.heap = g.heap /\ b.nursery_ptr = g.nursery_ptr
      /\ b.tenured_free = g.tenured_free /\ b.large = g.large /\ b.remembered = rem
      /\ b.root = g.root /\ b.reg = g.reg /\ b.aborted = g.aborted
  BY SetRemembered
<1> HIDE DEF b
<1>2. h \in DOMAIN b.heap /\ i \in DOMAIN b.heap[h].slots
  BY <1>1
<1>3. Stored(b, n, h, i, ref, b.remembered)
  BY <1>1, <1>2, SetSlot
<1> HIDE DEF n
<1>4. Stored(g, n, h, i, ref, rem)
  BY <1>1, <1>3 DEF Stored, SameShape
<1> QED BY <1>4 DEF n, b

(* The store of a reference that the program holds into an object that it  *)
(* holds                                                                   *)
LEMMA StoreKeeps ==
  ASSUME prog \in Programs, NEW g, Inv(g), NEW h \in DOMAIN g.heap,
         NEW i \in DOMAIN g.heap[h].slots,
         NEW ref, IsRef(ref), ref.ptr # 0, ref.ptr - 1 \in DOMAIN g.heap,
         NEW n, n = [Barrier(g, h + i, ref) EXCEPT !.heap[h].slots[i] = ref]
  PROVE  Inv(n) /\ \E rem : Stored(g, n, h, i, ref, rem)
<1> DEFINE caught == ref.ptr # 0 /\ InOld(g, h + i) /\ NurseryStart <= ref.ptr
                       /\ ref.ptr < g.nursery_ptr
           rem == IF caught THEN g.remembered \cup {h + i} ELSE g.remembered
           q == ref.ptr - 1
<1>1. Ok(g) /\ IsGc(g) /\ Spaces(g) /\ Listed(g) /\ (Tracks => Caught(g)) /\ Fresh(g) /\ Aimed(g)
  BY DEF Inv, Ok
<1>2. Barrier(g, h + i, ref) = [g EXCEPT !.remembered = rem]
  <2>1. CASE caught
    BY <2>1 DEF Barrier
  <2>2. CASE ~caught
    <3>1. Barrier(g, h + i, ref) = g /\ rem = g.remembered
      BY <2>2 DEF Barrier
    <3>2. g = [g EXCEPT !.remembered = g.remembered]
      BY <1>1 DEF IsGc
    <3> QED BY <3>1, <3>2
  <2> QED BY <2>1, <2>2
<1>3. InOld(g, h + i) <=> h \in Old(g)
  BY <1>1, OldSlot
<1>4. caught <=> h \in Old(g) /\ NurseryStart <= ref.ptr /\ ref.ptr < g.nursery_ptr
  BY <1>3
<1>5. rem = IF caught THEN g.remembered \cup {h + i} ELSE g.remembered
  OBVIOUS
<1> HIDE DEF caught, rem
<1>6. Stored(g, n, h, i, ref, rem)
  BY <1>1, <1>2, StoreFields
<1>7. /\ IsGc(n) /\ SameShape(g, n) /\ n.remembered = rem
      /\ n.root = g.root /\ n.reg = g.reg /\ n.aborted = g.aborted
      /\ \A k \in DOMAIN g.heap :
           /\ n.heap[k].marked = g.heap[k].marked /\ n.heap[k].id = g.heap[k].id
           /\ DOMAIN n.heap[k].slots = DOMAIN g.heap[k].slots
           /\ \A j \in DOMAIN g.heap[k].slots :
                n.heap[k].slots[j] = IF k = h /\ j = i THEN ref ELSE g.heap[k].slots[j]
  BY <1>6 DEF Stored
<1>8. /\ DOMAIN n.heap = DOMAIN g.heap /\ Young(n) = Young(g) /\ Old(n) = Old(g)
      /\ n.nursery_ptr = g.nursery_ptr
      /\ \A k \in DOMAIN g.heap : /\ n.heap[k].age = g.heap[k].age
                                  /\ Len(n.heap[k].slots) = Len(g.heap[k].slots)
  BY <1>7, SameUnits DEF SameShape
<1>9. Spaces(n)
  BY <1>1, <1>7, SpacesSame
<1>10. /\ Old(g) \subseteq DOMAIN g.heap /\ Young(g) \subseteq DOMAIN g.heap
       /\ DOMAIN g.heap = Young(g) \cup Old(g) /\ DOMAIN g.heap \subseteq Nat
       /\ \A k \in Young(g) : 1 <= k /\ k < g.nursery_ptr /\ k < NurseryLimit
       /\ \A k \in Old(g) : NurseryLimit < k /\ k \notin Young(g)
       /\ g.nursery_ptr \in Nat /\ g.nursery_ptr <= NurseryLimit
  BY <1>1, OldAre
<1>11. NurseryStart = 1 /\ Off = 1 /\ NurseryLimit \in Nat /\ PromotionAge \in Nat
  BY Limits
<1>12. ref.ptr \in Nat
  BY DEF IsRef
<1>13. q \in Old(g) \/ q \in Young(g)
  BY <1>10
<1>14. ref.ptr < NurseryLimit + 1 => q \in Young(g)
  BY <1>10, <1>11, <1>12, <1>13
<1>15. Listed(n)
  <2> SUFFICES ASSUME NEW a \in n.remembered
               PROVE  \E k \in Old(n) : \E j \in DOMAIN n.heap[k].slots : a = k + j
    BY DEF Listed
  <2>1. CASE a \in g.remembered
    <3>1. PICK k \in Old(g) : \E j \in DOMAIN g.heap[k].slots : a = k + j
      BY <1>1, <2>1 DEF Listed
    <3>2. DOMAIN n.heap[k].slots = DOMAIN g.heap[k].slots
      BY <1>7, <1>10
    <3> QED BY <1>8, <3>1, <3>2
  <2>2. CASE a \notin g.remembered
    <3>1. caught /\ a = h + i
      BY <1>5, <1>7, <2>2
    <3>2. h \in Old(n) /\ i \in DOMAIN n.heap[h].slots
      BY <1>4, <1>7, <1>8, <3>1
    <3> QED BY <3>1, <3>2
  <2> QED BY <2>1, <2>2
<1>16. ASSUME Tracks PROVE Caught(n)
  <2> SUFFICES ASSUME NEW k \in Old(n), NEW j \in DOMAIN n.heap[k].slots,
                      PointsToNursery(n, n.heap[k].slots[j].ptr)
               PROVE  k + j \in n.remembered
    BY DEF Caught
  <2>1. k \in Old(g) /\ k \in DOMAIN g.heap /\ j \in DOMAIN g.heap[k].slots
    BY <1>7, <1>8, <1>10
  <2>2. g.remembered \subseteq n.remembered
    BY <1>5, <1>7
  <2>3. CASE k = h /\ j = i
    <3>1. n.heap[k].slots[j] = ref
      BY <1>7, <2>1, <2>3
    <3>2. 2 <= ref.ptr /\ ref.ptr < g.nursery_ptr + 1
      BY <1>8, <1>10, <1>11, <1>12, <3>1 DEF PointsToNursery
    <3>3. q \in Young(g)
      BY <1>10, <1>11, <1>12, <1>14, <3>2
    <3>4. Len(g.heap[q].slots) # 0 /\ Len(g.heap[q].slots) \in Nat
      BY <1>1, <1>10, <1>16, <3>3 DEF Aimed, IsGc, IsObj
    <3>5. Units(g, q) = 1 + Len(g.heap[q].slots)
      BY <1>1, <1>10, <3>3, UnitsOf
    <3>6. q + Units(g, q) <= g.nursery_ptr
      BY <1>1, <3>3, Where DEF Apart
    <3>7. ref.ptr < g.nursery_ptr
      BY <1>10, <1>12, <3>4, <3>5, <3>6
    <3>8. caught
      BY <1>4, <1>11, <1>12, <2>1, <2>3, <3>2, <3>7
    <3> QED BY <1>5, <1>7, <2>3, <3>8
  <2>4. CASE ~(k = h /\ j = i)
    <3>1. n.heap[k].slots[j] = g.heap[k].slots[j]
      BY <1>7, <2>1, <2>4
    <3>2. PointsToNursery(g, g.heap[k].slots[j].ptr)
      BY <1>8, <3>1 DEF PointsToNursery
    <3> QED BY <1>1, <1>16, <2>1, <2>2, <3>2 DEF Caught
  <2> QED BY <2>3, <2>4
<1>17. Fresh(n)
  BY <1>1, <1>7, <1>8, <1>10 DEF Fresh
<1>18. Aimed(n)
  <2>1. Tracks => \A k \in Young(n) : Len(n.heap[k].slots) # 0
    BY <1>1, <1>8, <1>10 DEF Aimed
  <2>2. ASSUME Tracks, NEW k \in DOMAIN n.heap, NEW j \in DOMAIN n.heap[k].slots,
               Into(n.heap[k].slots[j].ptr)
        PROVE  n.heap[k].slots[j].ptr - 1 \in Young(n)
    <3>1. k \in DOMAIN g.heap /\ j \in DOMAIN g.heap[k].slots
      BY <1>7, <1>8
    <3>2. CASE k = h /\ j = i
      <4>1. n.heap[k].slots[j] = ref
        BY <1>7, <3>1, <3>2
      <4>2. ref.ptr < NurseryLimit + 1
        BY <1>11, <2>2, <4>1 DEF Into
      <4> QED BY <1>8, <1>14, <4>1, <4>2
    <3>3. CASE ~(k = h /\ j = i)
      <4>1. n.heap[k].slots[j] = g.heap[k].slots[j]
        BY <1>7, <3>1, <3>3
      <4> QED BY <1>1, <1>8, <2>2, <3>1, <4>1 DEF Aimed
    <3> QED BY <3>2, <3>3
  <2> QED BY <2>1, <2>2 DEF Aimed
<1>19. Ok(n)
  BY <1>7, <1>9, <1>15, <1>16, <1>17, <1>18 DEF Ok
<1>20. Unused(n)
  BY <1>7 DEF Inv, Unused
<1> QED BY <1>6, <1>19, <1>20 DEF Inv

(* A program that marks objects itself keeps what does not depend on       *)
(* marks.                                                                  *)
LEMMA MarkKeeps ==
  ASSUME prog \in Programs, "mark" \in prog.ops, NEW g, Inv(g), NEW ps, NEW n, n = Mark(g, ps)
  PROVE  Inv(n)
<1>1. IsGc(g) /\ Spaces(g) /\ Listed(g)
  BY DEF Inv, Ok
<1>2. /\ IsGc(n) /\ SameShape(g, n) /\ n.remembered = g.remembered
      /\ n.root = g.root /\ n.reg = g.reg
      /\ \A h \in DOMAIN g.heap : n.heap[h].slots = g.heap[h].slots
  BY <1>1, MarkFields
<1>3. Spaces(n) /\ Old(n) = Old(g) /\ Old(g) \subseteq DOMAIN g.heap
  BY <1>1, <1>2, SpacesSame, SameUnits, OldAre
<1>4. Listed(n)
  BY <1>1, <1>2, <1>3 DEF Listed
<1>5. ~Tracks /\ Unused(n)
  BY <1>2 DEF Tracks, Inv, Unused
<1>6. Fresh(n) /\ Aimed(n)
  BY <1>5 DEF Fresh, Aimed
<1> QED BY <1>2, <1>3, <1>4, <1>5, <1>6 DEF Inv, Ok

-----------------------------------------------------------------------------
(* The specification's invariant *)

GcInv == prog \in Programs /\ Inv(gc)

LEMMA HoldsIs ==
  ASSUME NEW r \in Roots, IsGc(gc), Holds(r)
  PROVE  /\ gc.reg[r] > 0 /\ gc.root[r].ptr # 0 /\ gc.root[r].ptr - 1 \in DOMAIN gc.heap
         /\ Header(gc.root[r].ptr) = gc.root[r].ptr - 1
         /\ Held(r) = gc.heap[gc.root[r].ptr - 1] /\ IsRef(gc.root[r])
<1>1. Header(gc.root[r].ptr) = gc.root[r].ptr - 1
  BY ObjectAt
<1>2. IsRef(gc.root[r])
  BY DEF IsGc
<1> QED BY <1>1, <1>2 DEF Holds, IsObject, Held

LEMMA AllocateIs ==
  ASSUME NEW op \in {"alloc", "fast", "slow"}, NEW r, NEW k, Allocate(op, r, k)
  PROVE  \E res : /\ Deliver(res, r) /\ op \in prog.ops /\ ~gc.aborted /\ gc.reg[r] > 0
                  /\ Large(k) => res = AllocLarge(gc, k)
                  /\ ~Large(k) /\ op = "fast" => res = AllocFastUnlocked(gc, k)
                  /\ ~Large(k) /\ op = "slow" => res = AllocSlow(gc, k)
                  /\ ~Large(k) /\ op = "alloc" => res = AllocAny(gc, k)
<1> DEFINE res == CASE Large(k) -> AllocLarge(gc, k)
                    [] ~Large(k) /\ op = "fast" -> AllocFastUnlocked(gc, k)
                    [] ~Large(k) /\ op = "slow" -> AllocSlow(gc, k)
                    [] ~Large(k) /\ op = "alloc" -> AllocAny(gc, k)
<1>1. op \in prog.ops /\ ~gc.aborted /\ gc.reg[r] > 0 /\ Deliver(res, r)
  BY DEF Allocate, Calls
<1>2. /\ Large(k) => res = AllocLarge(gc, k)
      /\ ~Large(k) /\ op = "fast" => res = AllocFastUnlocked(gc, k)
      /\ ~Large(k) /\ op = "slow" => res = AllocSlow(gc, k)
      /\ ~Large(k) /\ op = "alloc" => res = AllocAny(gc, k)
  OBVIOUS
<1> HIDE DEF res
<1> QED BY <1>1, <1>2

LEMMA AllocateKeeps ==
  ASSUME GcInv, NEW op \in {"alloc", "fast", "slow"}, NEW r \in Roots, NEW k \in prog.sizes,
         Allocate(op, r, k)
  PROVE  Inv(gc')
<1>1. prog \in Programs /\ Inv(gc)
  BY DEF GcInv
<1>2. PICK res : /\ Deliver(res, r) /\ ~gc.aborted /\ gc.reg[r] > 0
                 /\ Large(k) => res = AllocLarge(gc, k)
                 /\ ~Large(k) /\ op = "fast" => res = AllocFastUnlocked(gc, k)
                 /\ ~Large(k) /\ op = "slow" => res = AllocSlow(gc, k)
                 /\ ~Large(k) /\ op = "alloc" => res = AllocAny(gc, k)
  BY AllocateIs
<1>3. ResOk(gc, res)
  <2>1. CASE Large(k)
    BY <1>1, <1>2, <2>1, LargeOk
  <2>2. CASE ~Large(k) /\ op = "fast"
    BY <1>1, <1>2, <2>2, FastOk
  <2>3. CASE ~Large(k) /\ op = "slow"
    BY <1>1, <1>2, <2>3, SlowOk
  <2>4. CASE ~Large(k) /\ op = "alloc"
    BY <1>1, <1>2, <2>4, AnyOk
  <2> QED BY <2>1, <2>2, <2>3, <2>4
<1> QED BY <1>2, <1>3, DeliverKeeps

LEMMA StoreStep ==
  ASSUME GcInv, NEW r \in Roots, NEW q \in Roots, NEW i, Store(r, i, q)
  PROVE  /\ Inv(gc') /\ gc.reg[q] > 0
         /\ \E rem : Stored(gc, gc', gc.root[r].ptr - 1, i, gc.root[q], rem)
<1> DEFINE h == gc.root[r].ptr - 1
           ref == gc.root[q]
<1>1. prog \in Programs /\ Inv(gc) /\ IsGc(gc)
  BY DEF GcInv, Inv, Ok
<1>2. /\ Calls("store") /\ Holds(r) /\ i \in DOMAIN Held(r).slots /\ Holds(q)
      /\ prog.backward \/ Held(q).age >= Held(r).age
      /\ gc' = [Barrier(gc, Addr(<<Header(gc.root[r].ptr), i>>), gc.root[q])
                  EXCEPT !.heap[Header(gc.root[r].ptr)].slots[i] = gc.root[q]]
  BY DEF Store
<1>3. /\ h \in DOMAIN gc.heap /\ Header(gc.root[r].ptr) = h /\ Held(r) = gc.heap[h]
  BY <1>1, <1>2, HoldsIs
<1>4. /\ ref.ptr # 0 /\ ref.ptr - 1 \in DOMAIN gc.heap /\ IsRef(ref)
      /\ Held(q) = gc.heap[ref.ptr - 1]
  BY <1>1, <1>2, HoldsIs
<1>5. gc' = [Barrier(gc, Addr(<<h, i>>), ref) EXCEPT !.heap[h].slots[i] = ref]
  BY <1>2, <1>3
<1>6. i \in DOMAIN gc.heap[h].slots
  BY <1>2, <1>3
<1> HIDE DEF h, ref
<1>9. Addr(<<h, i>>) = h + i
  BY <1>1, <1>3, <1>6, SlotAddr
<1>10. gc' = [Barrier(gc, h + i, ref) EXCEPT !.heap[h].slots[i] = ref]
  BY <1>5, <1>9
<1>11. Inv(gc') /\ \E rem : Stored(gc, gc', h, i, ref, rem)
  BY <1>1, <1>3, <1>4, <1>6, <1>10, StoreKeeps
<1> QED BY <1>2, <1>11 DEF h, ref, Holds

LEMMA LoadStep ==
  ASSUME GcInv, NEW r \in Roots, NEW q \in Roots, NEW i, Load(r, i, q)
  PROVE  /\ Inv(gc') /\ RootIs(gc, gc', q, gc.heap[gc.root[r].ptr - 1].slots[i])
         /\ gc.reg[r] > 0 /\ gc.root[r].ptr # 0
         /\ i \in DOMAIN gc.heap[gc.root[r].ptr - 1].slots
<1> DEFINE h == gc.root[r].ptr - 1
           ref == gc.heap[h].slots[i]
<1>1. prog \in Programs /\ Inv(gc) /\ IsGc(gc)
  BY DEF GcInv, Inv, Ok
<1>2. /\ Holds(r) /\ i \in DOMAIN Held(r).slots /\ gc.reg[q] > 0
      /\ gc' = [gc EXCEPT !.root[q] = Held(r).slots[i]]
  BY DEF Load
<1>3. h \in DOMAIN gc.heap /\ Held(r) = gc.heap[h]
  BY <1>1, <1>2, HoldsIs
<1>4. i \in DOMAIN gc.heap[h].slots /\ gc' = [gc EXCEPT !.root[q] = ref]
  BY <1>2, <1>3
<1>5. gc.reg[r] > 0 /\ gc.root[r].ptr # 0
  BY <1>1, <1>2, HoldsIs
<1> HIDE DEF h
<1>6. IsRef(ref)
  BY <1>1, <1>3, <1>4, SlotAddr
<1> HIDE DEF ref
<1>7. Inv(gc') /\ RootIs(gc, gc', q, ref)
  BY <1>1, <1>2, <1>4, <1>6, RootSet
<1> QED BY <1>4, <1>5, <1>7 DEF h, ref

LEMMA ClearStep ==
  ASSUME GcInv, NEW r \in Roots, Clear(r)
  PROVE  Inv(gc') /\ RootIs(gc, gc', r, Null)
<1>1. Inv(gc) /\ gc' = [gc EXCEPT !.root[r] = Null]
  BY DEF GcInv, Clear
<1> QED BY <1>1, NullRef, RootSet

LEMMA AddRootStep ==
  ASSUME GcInv, NEW r \in Roots, AddRoot(r)
  PROVE  Inv(gc') /\ gc'.heap = gc.heap /\ gc'.root = gc.root
<1> DEFINE x == [gc.reg EXCEPT ![r] = gc.reg[r] + 1]
<1>1. prog \in Programs /\ Inv(gc) /\ IsGc(gc)
  BY DEF GcInv, Inv, Ok
<1>2. "root" \in prog.ops /\ gc.reg[r] < MaxReg /\ gc' = [gc EXCEPT !.reg = x]
  BY DEF AddRoot, Calls
<1>3. MaxReg \in Nat /\ gc.reg \in [Roots -> 0..MaxReg]
  BY <1>1, ClientAssumption DEF IsGc
<1>4. x \in [Roots -> 0..MaxReg] /\ \A q \in Roots : x[q] = IF q = r THEN gc.reg[q] + 1 ELSE gc.reg[q]
  BY <1>2, <1>3
<1> HIDE DEF x
<1>5. /\ gc'.reg = x /\ gc'.heap = gc.heap /\ gc'.nursery_ptr = gc.nursery_ptr
      /\ gc'.tenured_free = gc.tenured_free /\ gc'.large = gc.large
      /\ gc'.remembered = gc.remembered /\ gc'.root = gc.root /\ gc'.aborted = gc.aborted
  BY <1>1, <1>2 DEF IsGc
<1>6. gc' \in [heap : {gc.heap}, nursery_ptr : Nat, tenured_free : Nat, large : SUBSET LargeAddrs,
               remembered : {gc.remembered}, root : {gc.root}, reg : [Roots -> 0..MaxReg],
               aborted : BOOLEAN]
  BY <1>1, <1>2, <1>4 DEF IsGc
<1>7. IsGc(gc')
  BY <1>1, <1>5, <1>6 DEF IsGc
<1>8. Unused(gc')
  BY <1>1, <1>3, <1>4, <1>5 DEF Inv, Unused
<1>9. Inv(gc')
  BY <1>1, <1>5, <1>7, <1>8, RootsChange
<1> QED BY <1>5, <1>9

LEMMA RemoveRootStep ==
  ASSUME GcInv, NEW r \in Roots, RemoveRoot(r)
  PROVE  /\ Inv(gc') /\ gc'.heap = gc.heap
         /\ \A q \in Roots : gc'.reg[q] > 0 =>
              gc.reg[q] > 0 /\ (gc'.root[q] = gc.root[q] \/ gc'.root[q].ptr = 0)
<1> DEFINE x == [gc.reg EXCEPT ![r] = gc.reg[r] - 1]
           y == [gc.root EXCEPT ![r] = IF gc.reg[r] = 1 THEN Null ELSE gc.root[r]]
<1>1. prog \in Programs /\ Inv(gc) /\ IsGc(gc)
  BY DEF GcInv, Inv, Ok
<1>2. "unroot" \in prog.ops /\ gc.reg[r] > 0 /\ gc' = [gc EXCEPT !.reg = x, !.root = y]
  BY DEF RemoveRoot, Calls
<1>3. MaxReg \in Nat /\ gc.reg \in [Roots -> 0..MaxReg] /\ DOMAIN gc.root = Roots
  BY <1>1, ClientAssumption DEF IsGc
<1>4. x \in [Roots -> 0..MaxReg] /\ \A q \in Roots : x[q] = IF q = r THEN gc.reg[q] - 1 ELSE gc.reg[q]
  BY <1>2, <1>3
<1>5. DOMAIN y = Roots /\ \A q \in Roots : y[q] = IF q = r /\ gc.reg[q] = 1 THEN Null ELSE gc.root[q]
  BY <1>3
<1> HIDE DEF x, y
<1>6. /\ gc'.reg = x /\ gc'.heap = gc.heap /\ gc'.nursery_ptr = gc.nursery_ptr
      /\ gc'.tenured_free = gc.tenured_free /\ gc'.large = gc.large
      /\ gc'.remembered = gc.remembered /\ gc'.root = y /\ gc'.aborted = gc.aborted
  BY <1>1, <1>2 DEF IsGc
<1>7. gc' \in [heap : {gc.heap}, nursery_ptr : Nat, tenured_free : Nat, large : SUBSET LargeAddrs,
               remembered : {gc.remembered}, root : {y}, reg : [Roots -> 0..MaxReg],
               aborted : BOOLEAN]
  BY <1>1, <1>2, <1>4 DEF IsGc
<1>8. \A q \in Roots : IsRef(y[q])
  BY <1>1, <1>5, NullRef DEF IsGc
<1>9. IsGc(gc')
  BY <1>1, <1>5, <1>6, <1>7, <1>8 DEF IsGc
<1>10. Unused(gc')
  <2> SUFFICES ASSUME NEW q \in Roots, x[q] = 0 PROVE y[q].ptr = 0
    BY <1>6 DEF Unused
  <2>1. CASE q = r
    <3>1. gc.reg[q] = 1
      BY <1>2, <1>3, <1>4, <2>1
    <3> QED BY <1>5, <2>1, <3>1, NullRef
  <2>2. CASE q # r
    BY <1>1, <1>4, <1>5, <2>2 DEF Inv, Unused
  <2> QED BY <2>1, <2>2
<1>11. Inv(gc')
  BY <1>1, <1>6, <1>9, <1>10, RootsChange
<1>12. ASSUME NEW q \in Roots, gc'.reg[q] > 0
       PROVE  gc.reg[q] > 0 /\ (gc'.root[q] = gc.root[q] \/ gc'.root[q].ptr = 0)
  <2>1. gc.reg[q] \in Nat /\ x[q] > 0
    BY <1>3, <1>6, <1>12
  <2> QED BY <1>4, <1>5, <1>6, <2>1, NullRef
<1> QED BY <1>6, <1>11, <1>12

LEMMA MarkStep ==
  ASSUME GcInv, NEW r \in Roots, MarkObject(r)
  PROVE  Inv(gc')
<1>1. prog \in Programs /\ Inv(gc) /\ "mark" \in prog.ops /\ gc' = Mark(gc, {gc.root[r].ptr})
  BY DEF GcInv, MarkObject, Calls
<1> QED BY <1>1, MarkKeeps

LEMMA TriggerStep ==
  ASSUME GcInv, TriggerMinor \/ TriggerMajor
  PROVE  Inv(gc')
<1>1. prog \in Programs /\ Inv(gc)
  BY DEF GcInv
<1>2. CASE TriggerMinor
  <2>1. ~gc.aborted /\ gc' = MinorCollect(gc)
    BY <1>2 DEF TriggerMinor, Calls
  <2> QED BY <1>1, <2>1, MinorKeeps
<1>3. CASE TriggerMajor
  <2>1. ~gc.aborted /\ gc' = MajorCollect(gc)
    BY <1>3 DEF TriggerMajor, Calls
  <2> QED BY <1>1, <2>1, MajorKeeps
<1> QED BY <1>2, <1>3

LEMMA InvInit ==
  ASSUME Init
  PROVE  GcInv
<1>1. /\ prog \in Programs
      /\ gc = [heap |-> [h \in {} |-> Null], nursery_ptr |-> NurseryStart,
               tenured_free |-> TenuredStart, large |-> {}, remembered |-> {},
               root |-> [r \in Roots |-> Null], reg |-> [r \in Roots |-> 1],
               aborted |-> FALSE]
  BY DEF Init
<1>2. /\ DOMAIN gc.heap = {} /\ gc.nursery_ptr = NurseryStart /\ gc.tenured_free = TenuredStart
      /\ gc.large = {} /\ gc.remembered = {} /\ gc.root = [r \in Roots |-> Null]
      /\ gc.reg = [r \in Roots |-> 1]
  BY <1>1
<1>3. /\ NurseryStart = 1 /\ NurseryStart <= NurseryLimit /\ TenuredStart <= TenuredLimit
      /\ NurseryLimit \in Nat /\ TenuredStart \in Nat /\ TenuredLimit \in Nat
  BY <1>1, Limits
<1>4. MaxReg \in Nat \ {0}
  BY ClientAssumption
<1>5. IsGc(gc)
  <2>1. gc \in [heap : {gc.heap}, nursery_ptr : Nat, tenured_free : Nat, large : SUBSET LargeAddrs,
                remembered : {gc.remembered}, root : {gc.root}, reg : [Roots -> 0..MaxReg],
                aborted : BOOLEAN]
    BY <1>1, <1>3, <1>4
  <2> QED BY <1>2, <2>1, NullRef DEF IsGc
<1>6. Young(gc) = {} /\ Tenured(gc) = {} /\ Old(gc) = {}
  BY <1>2 DEF Young, Tenured, Old
<1>7. Spaces(gc)
  BY <1>2, <1>3, <1>6 DEF Spaces, Packed
<1>8. Ok(gc)
  BY <1>2, <1>5, <1>6, <1>7 DEF Ok, Listed, Caught, Fresh, Aimed
<1>9. Unused(gc)
  BY <1>2 DEF Unused
<1> QED BY <1>1, <1>8, <1>9 DEF GcInv, Inv

(* The program's kind is fixed: what holds of the next state of the        *)
(* collector now holds then.                                               *)
LEMMA SameProgram ==
  ASSUME prog' = prog, prog \in Programs, Inv(gc')
  PROVE  GcInv'
<1>1. /\ NurseryLimit' = NurseryLimit /\ TenuredStart' = TenuredStart
      /\ TenuredLimit' = TenuredLimit /\ Tracks' = Tracks
  BY DEF NurseryLimit, TenuredStart, TenuredLimit, Tracks
<1>2. /\ Young(gc)' = Young(gc') /\ Tenured(gc)' = Tenured(gc') /\ Old(gc)' = Old(gc')
  BY <1>1 DEF Young, Tenured, Old
<1>3. /\ IsGc(gc') /\ Spaces(gc') /\ Listed(gc') /\ (Tracks => Caught(gc')) /\ Fresh(gc')
      /\ Aimed(gc') /\ Unused(gc')
  BY DEF Inv, Ok
<1>4. IsGc(gc)'
  BY <1>3 DEF IsGc
<1>5. Spaces(gc)'
  BY <1>1, <1>2, <1>3 DEF Spaces, Packed
<1>6. Listed(gc)'
  BY <1>2, <1>3 DEF Listed
<1>7. (Tracks => Caught(gc))'
  BY <1>1, <1>2, <1>3 DEF Caught, PointsToNursery
<1>8. Fresh(gc)'
  BY <1>2, <1>3 DEF Fresh
<1>9. Aimed(gc)'
  BY <1>1, <1>2, <1>3 DEF Aimed, Into
<1>10. Unused(gc)'
  BY <1>3 DEF Unused
<1> QED BY <1>4, <1>5, <1>6, <1>7, <1>8, <1>9, <1>10 DEF GcInv, Inv, Ok

LEMMA InvNext ==
  ASSUME GcInv, [Next]_vars
  PROVE  GcInv'
<1>1. prog \in Programs /\ Inv(gc)
  BY DEF GcInv
<1>2. CASE Next
  <2>1. Step /\ prog' = prog
    BY <1>2 DEF Next
  <2>2. ASSUME NEW op \in {"alloc", "fast", "slow"}, NEW r \in Roots, NEW n \in prog.sizes,
               Allocate(op, r, n)
        PROVE  Inv(gc')
    BY <2>2, AllocateKeeps
  <2>3. ASSUME NEW r \in Roots, NEW q \in Roots, NEW i, Store(r, i, q)
        PROVE  Inv(gc')
    BY <2>3, StoreStep
  <2>4. ASSUME NEW r \in Roots, NEW q \in Roots, NEW i, Load(r, i, q)
        PROVE  Inv(gc')
    BY <2>4, LoadStep
  <2>5. ASSUME NEW r \in Roots, Clear(r) PROVE Inv(gc')
    BY <2>5, ClearStep
  <2>6. ASSUME NEW r \in Roots, AddRoot(r) PROVE Inv(gc')
    BY <2>6, AddRootStep
  <2>7. ASSUME NEW r \in Roots, RemoveRoot(r) PROVE Inv(gc')
    BY <2>7, RemoveRootStep
  <2>8. ASSUME NEW r \in Roots, MarkObject(r) PROVE Inv(gc')
    BY <2>8, MarkStep
  <2>9. TriggerMinor \/ TriggerMajor => Inv(gc')
    BY TriggerStep
  <2>10. Inv(gc')
    BY <2>1, <2>2, <2>3, <2>4, <2>5, <2>6, <2>7, <2>8, <2>9 DEF Step
  <2> QED BY <1>1, <2>1, <2>10, SameProgram
<1>3. CASE UNCHANGED vars
  <2>1. gc' = gc /\ prog' = prog
    BY <1>3 DEF vars
  <2>2. Inv(gc')
    BY <1>1, <2>1
  <2> QED BY <1>1, <2>1, <2>2, SameProgram
<1> QED BY <1>2, <1>3

LEMMA Invariant == Spec => []GcInv
<1>1. Init => GcInv
  BY InvInit
<1>2. GcInv /\ [Next]_vars => GcInv'
  BY InvNext
<1> QED BY <1>1, <1>2, PTL DEF Spec

-----------------------------------------------------------------------------
(* References: the objects they lead to *)

Leads(g, ref, S) ==
  ref.ptr = 0 \/ (ref.ptr - 1 \in S /\ g.heap[ref.ptr - 1].id = ref.id)

(* Every reference of a registered root or of an object of S leads into S, *)
(* to the object it was made for.                                          *)
Sound(g, S) ==
  /\ S \subseteq DOMAIN g.heap
  /\ \A r \in Roots : g.reg[r] > 0 => Leads(g, g.root[r], S)
  /\ \A h \in S : \A i \in DOMAIN g.heap[h].slots : Leads(g, g.heap[h].slots[i], S)

(* RefsIntact, of any state *)
Intact(g) ==
  /\ \A r \in Roots : g.reg[r] > 0 => Denotes(g, g.root[r])
  /\ \A h \in Reachable(g) : \A i \in DOMAIN g.heap[h].slots : Denotes(g, g.heap[h].slots[i])

LEMMA DenotesIs ==
  ASSUME NEW g, NEW ref
  PROVE  Denotes(g, ref)
           <=> ref.ptr = 0 \/ (ref.ptr - 1 \in DOMAIN g.heap /\ g.heap[ref.ptr - 1].id = ref.id)
BY ObjectAt DEF Denotes, IsObject

(* Reachable is closed under references, *)
LEMMA ReachableClosed ==
  ASSUME NEW g
  PROVE  /\ Reachable(g) \subseteq DOMAIN g.heap
         /\ \A p \in Rooted(g) : IsObject(g, p) => Header(p) \in Reachable(g)
         /\ \A h \in Reachable(g) : \A p \in Refs(g, h) :
              IsObject(g, p) => Header(p) \in Reachable(g)
<1> DEFINE met(S) == Rooted(g) \cup UNION {Refs(g, h) : h \in S}
           closed == {S \in SUBSET DOMAIN g.heap :
                        \A p \in met(S) : IsObject(g, p) => Header(p) \in S}
<1>1. Reachable(g) = {h \in DOMAIN g.heap : \A S \in closed : h \in S}
  BY DEF Reachable
<1>2. ASSUME NEW p, IsObject(g, p), \A S \in closed : p \in met(S)
      PROVE  Header(p) \in Reachable(g)
  <2>1. Header(p) \in DOMAIN g.heap
    BY <1>2 DEF IsObject
  <2>2. \A S \in closed : Header(p) \in S
    BY <1>2
  <2> QED BY <1>1, <2>1, <2>2
<1>3. ASSUME NEW h \in Reachable(g), NEW p \in Refs(g, h), NEW S \in closed
      PROVE  p \in met(S)
  BY <1>1
<1>4. \A p \in Rooted(g) : \A S \in closed : p \in met(S)
  OBVIOUS
<1>5. Reachable(g) \subseteq DOMAIN g.heap
  BY <1>1
<1>6. \A p \in Rooted(g) : IsObject(g, p) => Header(p) \in Reachable(g)
  BY <1>2, <1>4
<1>7. ASSUME NEW h \in Reachable(g), NEW p \in Refs(g, h), IsObject(g, p)
      PROVE  Header(p) \in Reachable(g)
  BY <1>2, <1>3, <1>7
<1> QED BY <1>5, <1>6, <1>7

(* and within any other set that is. *)
LEMMA ReachableLeast ==
  ASSUME NEW g, NEW S, S \subseteq DOMAIN g.heap,
         \A p \in Rooted(g) : IsObject(g, p) => Header(p) \in S,
         \A h \in S : \A p \in Refs(g, h) : IsObject(g, p) => Header(p) \in S
  PROVE  Reachable(g) \subseteq S
<1> DEFINE met(T) == Rooted(g) \cup UNION {Refs(g, h) : h \in T}
           closed == {T \in SUBSET DOMAIN g.heap :
                        \A p \in met(T) : IsObject(g, p) => Header(p) \in T}
<1>1. Reachable(g) = {h \in DOMAIN g.heap : \A T \in closed : h \in T}
  BY DEF Reachable
<1>2. S \in closed
  OBVIOUS
<1> QED BY <1>1, <1>2

LEMMA SoundReachable ==
  ASSUME NEW g, Intact(g)
  PROVE  Sound(g, Reachable(g))
<1> DEFINE S == Reachable(g)
<1>1. /\ S \subseteq DOMAIN g.heap
      /\ \A p \in Rooted(g) : IsObject(g, p) => p - 1 \in S
      /\ \A h \in S : \A p \in Refs(g, h) : IsObject(g, p) => p - 1 \in S
  BY ReachableClosed, ObjectAt
<1>2. /\ \A r \in Roots : g.reg[r] > 0 => Denotes(g, g.root[r])
      /\ \A h \in S : \A i \in DOMAIN g.heap[h].slots : Denotes(g, g.heap[h].slots[i])
  BY DEF Intact
<1> HIDE DEF S
<1>3. ASSUME NEW ref, Denotes(g, ref), IsObject(g, ref.ptr) => ref.ptr - 1 \in S
      PROVE  Leads(g, ref, S)
  BY <1>3, ObjectAt DEF Denotes, IsObject, Leads
<1>4. ASSUME NEW r \in Roots, g.reg[r] > 0 PROVE Leads(g, g.root[r], S)
  <2>1. g.root[r].ptr \in Rooted(g)
    BY <1>4 DEF Rooted
  <2> QED BY <1>1, <1>2, <1>3, <1>4, <2>1
<1>5. ASSUME NEW h \in S, NEW i \in DOMAIN g.heap[h].slots PROVE Leads(g, g.heap[h].slots[i], S)
  <2>1. g.heap[h].slots[i].ptr \in Refs(g, h)
    BY DEF Refs
  <2> QED BY <1>1, <1>2, <1>3, <2>1
<1>6. Sound(g, S)
  BY <1>1, <1>4, <1>5 DEF Sound
<1> QED BY <1>6 DEF S

LEMMA SoundIntact ==
  ASSUME NEW g, NEW S, Sound(g, S)
  PROVE  Intact(g)
<1>1. /\ S \subseteq DOMAIN g.heap
      /\ \A r \in Roots : g.reg[r] > 0 => Leads(g, g.root[r], S)
      /\ \A h \in S : \A i \in DOMAIN g.heap[h].slots : Leads(g, g.heap[h].slots[i], S)
  BY DEF Sound
<1>2. ASSUME NEW ref, Leads(g, ref, S)
      PROVE  Denotes(g, ref) /\ (IsObject(g, ref.ptr) => Header(ref.ptr) \in S)
  BY <1>1, <1>2, DenotesIs, ObjectAt DEF Leads, IsObject
<1>3. \A p \in Rooted(g) : IsObject(g, p) => Header(p) \in S
  BY <1>1, <1>2 DEF Rooted
<1>4. \A h \in S : \A p \in Refs(g, h) : IsObject(g, p) => Header(p) \in S
  BY <1>1, <1>2 DEF Refs
<1>5. Reachable(g) \subseteq S
  BY <1>1, <1>3, <1>4, ReachableLeast
<1> QED BY <1>1, <1>2, <1>5 DEF Intact

(* What Sound looks at *)
LEMMA SoundSame ==
  ASSUME NEW g, NEW S, Sound(g, S), NEW n, S \subseteq DOMAIN n.heap,
         n.root = g.root, n.reg = g.reg,
         \A h \in S : n.heap[h].slots = g.heap[h].slots /\ n.heap[h].id = g.heap[h].id
  PROVE  Sound(n, S)
BY DEF Sound, Leads

-----------------------------------------------------------------------------
(* References and moves *)

(* Where an object lands *)
Lands(to, h) == IF h \in DOMAIN to THEN to[h] ELSE h

(* A reference that follows no chain of moves is forwarded once. *)
LEMMA OnceEnough ==
  ASSUME NEW fwd, \A p \in DOMAIN fwd : fwd[p] \in Nat, NEW ref, IsRef(ref),
         NEW k \in Nat \ {0},
         k = 1 \/ ~(ref.ptr \in DOMAIN fwd /\ fwd[ref.ptr] \in DOMAIN fwd)
  PROVE  ForwardTimes(fwd, ref, k) = Forward(fwd, ref)
<1>1. CASE k = 1
  BY <1>1, TimesOnce
<1>2. CASE ~(ref.ptr \in DOMAIN fwd /\ fwd[ref.ptr] \in DOMAIN fwd)
  <2> DEFINE x == Forward(fwd, ref)
             C == {x}
  <2>1. x.ptr \notin DOMAIN fwd
    BY <1>2 DEF Forward, IsRef
  <2>2. Forward(fwd, x) = x
    <3> HIDE DEF x
    <3> QED BY <2>1 DEF Forward
  <2>3. ForwardTimes(fwd, ref, k) \in C
    <3>1. Forward(fwd, ref) \in C /\ \A y \in C : Forward(fwd, y) \in C
      BY <2>2
    <3> HIDE DEF C
    <3> QED BY <3>1, TimesReach
  <2> QED BY <2>3
<1> QED BY <1>1, <1>2

LEMMA NotTwice ==
  ASSUME NEW u, IsGc(u), NEW fwd, \A p \in DOMAIN fwd : fwd[p] \in Nat, ~Twice(u, fwd)
  PROVE  /\ \A r \in Roots : u.reg[r] > 0 =>
              ForwardTimes(fwd, u.root[r], u.reg[r]) = Forward(fwd, u.root[r])
         /\ \A h \in DOMAIN u.heap : \A i \in DOMAIN u.heap[h].slots :
              ForwardTimes(fwd, u.heap[h].slots[i], Times(u.remembered, h, i))
                = Forward(fwd, u.heap[h].slots[i])
<1> DEFINE chained(ref) == ref.ptr \in DOMAIN fwd /\ fwd[ref.ptr] \in DOMAIN fwd
<1>1. /\ \A r \in Roots : u.reg[r] > 1 => ~chained(u.root[r])
      /\ \A s \in Slots(u) : Addr(s) \in u.remembered => ~chained(RefIn(u, s))
  BY DEF Twice
<1>2. ASSUME NEW r \in Roots, u.reg[r] > 0
      PROVE  ForwardTimes(fwd, u.root[r], u.reg[r]) = Forward(fwd, u.root[r])
  <2> DEFINE ref == u.root[r]
             k == u.reg[r]
  <2>1. IsRef(ref) /\ k \in 0..MaxReg /\ MaxReg \in Nat
    BY ClientAssumption DEF IsGc
  <2>2. k \in Nat \ {0} /\ (k = 1 \/ ~chained(ref))
    BY <1>1, <1>2, <2>1
  <2> HIDE DEF ref, k
  <2>3. ForwardTimes(fwd, ref, k) = Forward(fwd, ref)
    BY <2>1, <2>2, OnceEnough
  <2> QED BY <2>3 DEF ref, k
<1>3. ASSUME NEW h \in DOMAIN u.heap, NEW i \in DOMAIN u.heap[h].slots
      PROVE  ForwardTimes(fwd, u.heap[h].slots[i], Times(u.remembered, h, i))
               = Forward(fwd, u.heap[h].slots[i])
  <2> DEFINE ref == u.heap[h].slots[i]
             s == <<h, i>>
             k == Times(u.remembered, h, i)
  <2>1. s \in Slots(u) /\ RefIn(u, s) = ref
    BY DEF Slots, RefIn
  <2>2. k = IF Addr(s) \in u.remembered THEN 2 ELSE 1
    BY DEF Times
  <2>3. IsRef(ref)
    BY SlotAddr
  <2> HIDE DEF ref, s, k
  <2>4. k \in Nat \ {0} /\ (k = 1 \/ ~chained(ref))
    BY <1>1, <2>1, <2>2
  <2>5. ForwardTimes(fwd, ref, k) = Forward(fwd, ref)
    BY <2>3, <2>4, OnceEnough
  <2> QED BY <2>5 DEF ref, k
<1> QED BY <1>2, <1>3

(* Moved and forwarded, a sound set is sound where its objects land. *)
LEMMA AppliedSound ==
  ASSUME NEW g, IsGc(g), NEW S, Sound(g, S),
         NEW to, DOMAIN to \subseteq Nat, \A h \in DOMAIN to : to[h] \in Nat,
         NEW fwd, fwd = Forwards(to),
         NEW u, IsGc(u), u.root = g.root, u.reg = g.reg,
         \A h \in S : /\ Lands(to, h) \in DOMAIN u.heap
                      /\ u.heap[Lands(to, h)].id = g.heap[h].id
                      /\ u.heap[Lands(to, h)].slots = g.heap[h].slots,
         ~Twice(u, fwd), NEW n, n = ApplyForwards(u, fwd)
  PROVE  Sound(n, {Lands(to, h) : h \in S})
<1> DEFINE T == {Lands(to, h) : h \in S}
<1>1. \A p \in DOMAIN fwd : fwd[p] \in Nat
  BY ForwardsAre
<1>2. /\ SameShape(u, n) /\ n.reg = u.reg
      /\ \A r \in Roots : n.root[r] = ForwardTimes(fwd, u.root[r], u.reg[r])
      /\ \A h \in DOMAIN u.heap :
           /\ n.heap[h].id = u.heap[h].id
           /\ DOMAIN n.heap[h].slots = DOMAIN u.heap[h].slots
           /\ \A i \in DOMAIN u.heap[h].slots :
                n.heap[h].slots[i] = ForwardTimes(fwd, u.heap[h].slots[i],
                                                  Times(u.remembered, h, i))
  BY <1>1, ApplyFields
<1>3. /\ \A r \in Roots : u.reg[r] > 0 => n.root[r] = Forward(fwd, u.root[r])
      /\ \A h \in DOMAIN u.heap : \A i \in DOMAIN u.heap[h].slots :
           n.heap[h].slots[i] = Forward(fwd, u.heap[h].slots[i])
  BY <1>1, <1>2, NotTwice
<1>4. DOMAIN n.heap = DOMAIN u.heap
  BY <1>2 DEF SameShape
<1>5. S \subseteq DOMAIN g.heap /\ DOMAIN g.heap \subseteq Nat
  BY DEF Sound, IsGc
<1>6. ASSUME NEW ref, IsRef(ref), Leads(g, ref, S)
      PROVE  Leads(n, Forward(fwd, ref), T)
  <2> DEFINE k == ref.ptr - 1
             x == Forward(fwd, ref)
  <2>1. ref.ptr \in Nat
    BY <1>6 DEF IsRef
  <2>2. CASE ref.ptr = 0
    <3>1. \A h \in DOMAIN to : ref.ptr # h + 1
      BY <2>2
    <3>2. x = ref
      BY <1>6, <3>1, Followed
    <3> QED BY <2>2, <3>2 DEF Leads
  <2>3. CASE ref.ptr # 0 /\ k \in DOMAIN to
    <3>1. ref.ptr = k + 1 /\ k \in S /\ g.heap[k].id = ref.id
      BY <1>6, <2>1, <2>3 DEF Leads
    <3>2. x.id = ref.id /\ x.ptr = to[k] + 1
      BY <1>6, <2>3, <3>1, Followed
    <3>3. Lands(to, k) = to[k] /\ to[k] \in Nat
      BY <2>3 DEF Lands
    <3>4. x.ptr - 1 = to[k]
      BY <3>2, <3>3
    <3>5. to[k] \in T /\ n.heap[to[k]].id = ref.id
      BY <1>2, <3>1, <3>3
    <3> HIDE DEF x, k, T
    <3> QED BY <3>2, <3>4, <3>5 DEF Leads, x
  <2>4. CASE ref.ptr # 0 /\ k \notin DOMAIN to
    <3>1. k \in S /\ g.heap[k].id = ref.id
      BY <1>6, <2>1, <2>4 DEF Leads
    <3>2. \A h \in DOMAIN to : ref.ptr # h + 1
      BY <2>4
    <3>3. x = ref
      BY <1>6, <3>2, Followed
    <3>4. Lands(to, k) = k
      BY <2>4 DEF Lands
    <3>5. k \in T /\ n.heap[k].id = ref.id
      BY <1>2, <3>1, <3>4
    <3> HIDE DEF x, T
    <3> QED BY <3>3, <3>5 DEF Leads, x
  <2> QED BY <2>2, <2>3, <2>4
<1>7. T \subseteq DOMAIN n.heap
  BY <1>4
<1>8. ASSUME NEW r \in Roots, n.reg[r] > 0 PROVE Leads(n, n.root[r], T)
  <2>1. IsRef(g.root[r]) /\ Leads(g, g.root[r], S)
    BY <1>2, <1>8 DEF Sound, IsGc
  <2>2. n.root[r] = Forward(fwd, g.root[r])
    BY <1>2, <1>3, <1>8
  <2> QED BY <1>6, <2>1, <2>2
<1>9. ASSUME NEW a \in T, NEW i \in DOMAIN n.heap[a].slots PROVE Leads(n, n.heap[a].slots[i], T)
  <2>1. PICK h \in S : a = Lands(to, h)
    OBVIOUS
  <2>2. a \in DOMAIN u.heap /\ u.heap[a].slots = g.heap[h].slots
    BY <2>1
  <2>3. i \in DOMAIN g.heap[h].slots /\ n.heap[a].slots[i] = Forward(fwd, g.heap[h].slots[i])
    BY <1>2, <1>3, <2>2
  <2>4. IsRef(g.heap[h].slots[i]) /\ Leads(g, g.heap[h].slots[i], S)
    BY <1>5, <2>3, SlotAddr DEF Sound
  <2> QED BY <1>6, <2>3, <2>4
<1>10. Sound(n, T)
  <2> HIDE DEF T
  <2> QED BY <1>7, <1>8, <1>9 DEF Sound
<1> QED BY <1>10

LEMMA PromoteSound ==
  ASSUME prog \in Programs, NEW t, IsGc(t), Spaces(t), ~(PromoteFree(t) > TenuredLimit),
         NEW fwd, fwd = Forwards(PromoteTo(t)), ~Twice(PromoteMoved(t), fwd),
         NEW S, Sound(t, S), S \subseteq Old(t) \cup Live(t), NEW n, n = PromoteSurvivors(t)
  PROVE  Sound(n, {Lands(PromoteTo(t), h) : h \in S})
<1> DEFINE to == PromoteTo(t)
           u == PromoteMoved(t)
<1>1. DOMAIN to = Live(t) /\ DOMAIN to \subseteq Nat /\ \A h \in DOMAIN to : to[h] \in Nat
  BY PromoteMap
<1>2. /\ IsGc(u) /\ u.root = t.root /\ u.reg = t.reg
      /\ DOMAIN u.heap = Old(t) \cup {to[h] : h \in Live(t)}
      /\ \A h \in Live(t) : u.heap[to[h]] = PromoteAs(t)[h]
      /\ \A a \in Old(t) : u.heap[a] = t.heap[a]
  BY PromoteState
<1>3. \A h \in Live(t) : /\ PromoteAs(t)[h].slots = t.heap[h].slots
                         /\ PromoteAs(t)[h].id = t.heap[h].id
  BY PromotedObject
<1>4. n = ApplyForwards(u, fwd)
  BY PromoteIs
<1> HIDE DEF to, u
<1>5. ASSUME NEW h \in S
      PROVE  /\ Lands(to, h) \in DOMAIN u.heap
             /\ u.heap[Lands(to, h)].id = t.heap[h].id
             /\ u.heap[Lands(to, h)].slots = t.heap[h].slots
  <2>1. CASE h \in Live(t)
    BY <1>1, <1>2, <1>3, <2>1 DEF Lands
  <2>2. CASE h \notin Live(t)
    BY <1>1, <1>2, <2>2 DEF Lands
  <2> QED BY <2>1, <2>2
<1>6. fwd = Forwards(to) /\ ~Twice(u, fwd)
  BY DEF to, u
<1>7. Sound(n, {Lands(to, h) : h \in S})
  BY <1>1, <1>2, <1>4, <1>5, <1>6, AppliedSound
<1> QED BY <1>7 DEF to

LEMMA SweepSound ==
  ASSUME prog \in Programs, NEW g, IsGc(g), Spaces(g),
         NEW fwd, fwd = Forwards(SweepTo(g)), ~Twice(SweepMoved(g), fwd),
         NEW S, Sound(g, S), S \subseteq Young(g) \cup g.large \cup SweepLive(g),
         NEW n, n = ApplyForwards(SweepMoved(g), fwd)
  PROVE  Sound(n, {Lands(SweepTo(g), h) : h \in S})
<1> DEFINE to == SweepTo(g)
           u == SweepMoved(g)
<1>1. DOMAIN to = SweepLive(g) /\ DOMAIN to \subseteq Nat /\ \A h \in DOMAIN to : to[h] \in Nat
  BY SweepMap
<1>2. /\ IsGc(u) /\ u.root = g.root /\ u.reg = g.reg
      /\ DOMAIN u.heap = Young(g) \cup g.large \cup {to[h] : h \in SweepLive(g)}
      /\ \A h \in SweepLive(g) : u.heap[to[h]] = SweepAs(g)[h]
      /\ \A a \in Young(g) \cup g.large : u.heap[a] = g.heap[a]
  BY SweepState
<1>3. \A h \in SweepLive(g) : /\ SweepAs(g)[h].slots = g.heap[h].slots
                              /\ SweepAs(g)[h].id = g.heap[h].id
  BY SweptObject
<1>4. n = ApplyForwards(u, fwd)
  OBVIOUS
<1> HIDE DEF to, u
<1>5. ASSUME NEW h \in S
      PROVE  /\ Lands(to, h) \in DOMAIN u.heap
             /\ u.heap[Lands(to, h)].id = g.heap[h].id
             /\ u.heap[Lands(to, h)].slots = g.heap[h].slots
  <2>1. CASE h \in SweepLive(g)
    BY <1>1, <1>2, <1>3, <2>1 DEF Lands
  <2>2. CASE h \notin SweepLive(g)
    BY <1>1, <1>2, <2>2 DEF Lands
  <2> QED BY <2>1, <2>2
<1>6. fwd = Forwards(to) /\ ~Twice(u, fwd)
  BY DEF to, u
<1>7. Sound(n, {Lands(to, h) : h \in S})
  BY <1>1, <1>2, <1>4, <1>5, <1>6, AppliedSound
<1> QED BY <1>7 DEF to

-----------------------------------------------------------------------------
(* References and collections *)

(* Marking leaves references alone. *)
LEMMA TracedIntact ==
  ASSUME prog \in Programs, NEW g, IsGc(g), Intact(g), NEW t, t = Traced(g)
  PROVE  Sound(t, Reachable(t))
<1> DEFINE R == Reachable(g)
<1>1. Sound(g, R)
  BY SoundReachable
<1>2. /\ SameShape(g, t) /\ t.root = g.root /\ t.reg = g.reg
      /\ \A h \in DOMAIN g.heap :
           t.heap[h].slots = g.heap[h].slots /\ t.heap[h].id = g.heap[h].id
  BY TracedFields
<1> HIDE DEF R
<1>3. R \subseteq DOMAIN g.heap /\ DOMAIN t.heap = DOMAIN g.heap
  BY <1>1, <1>2 DEF Sound, SameShape
<1>4. Sound(t, R)
  BY <1>1, <1>2, <1>3, SoundSame
<1> QED BY <1>4, SoundIntact, SoundReachable

(* What the root slots refer to is marked, *)
LEMMA RootsMarked ==
  ASSUME prog \in Programs, NEW g, IsGc(g), NEW t, t = Traced(g), NEW S, Sound(t, S),
         NEW r \in Roots, t.reg[r] > 0, t.root[r].ptr # 0
  PROVE  t.heap[t.root[r].ptr - 1].marked
<1>1. SameShape(g, t) /\ t.root = g.root /\ t.reg = g.reg
  BY TracedFields
<1>2. t.root[r].ptr - 1 \in S /\ S \subseteq DOMAIN t.heap
  BY DEF Sound, Leads
<1>3. IsObject(g, g.root[r].ptr)
  BY <1>1, <1>2, ObjectAt DEF IsObject, SameShape
<1> QED BY <1>1, <1>3, TracedMarks

(* and so is what the old objects refer to in the nursery, and what is     *)
(* reached from there: what can be reached and is old or marked is sound.  *)
LEMMA TracedSound ==
  ASSUME prog \in Programs, Tracks, NEW g, Ok(g), ~g.aborted, NEW t, t = Traced(g),
         NEW R, Sound(t, R)
  PROVE  Sound(t, {h \in R : h \in Old(t) \/ t.heap[h].marked})
<1> DEFINE S == {h \in R : h \in Old(t) \/ t.heap[h].marked}
<1>1. IsGc(g) /\ Spaces(g) /\ Caught(g) /\ Fresh(g)
  BY DEF Ok
<1>2. /\ IsGc(t) /\ SameShape(g, t) /\ t.remembered = g.remembered
      /\ \A h \in DOMAIN g.heap :
           t.heap[h].slots = g.heap[h].slots /\ t.heap[h].id = g.heap[h].id
  BY <1>1, TracedFields
<1>3. DOMAIN t.heap = DOMAIN g.heap /\ Young(t) = Young(g) /\ Old(t) = Old(g)
  BY <1>2, SameUnits
<1>4. R \subseteq DOMAIN t.heap
  BY DEF Sound
<1>5. /\ DOMAIN g.heap = Young(g) \cup Old(g) /\ DOMAIN g.heap \subseteq Nat
      /\ \A h \in Young(g) : 1 <= h /\ h < g.nursery_ptr
      /\ g.nursery_ptr \in Nat
  BY <1>1, OldAre
<1>6. \A h \in Young(g) : ~g.heap[h].marked
  BY <1>1 DEF Fresh, Tracks
<1>7. ASSUME NEW ref, Leads(t, ref, R),
             ref.ptr # 0 => ref.ptr - 1 \in Old(t) \/ t.heap[ref.ptr - 1].marked
      PROVE  Leads(t, ref, S)
  BY <1>7 DEF Leads
<1>8. ASSUME NEW r \in Roots, t.reg[r] > 0 PROVE Leads(t, t.root[r], S)
  <2>1. Leads(t, t.root[r], R)
    BY <1>8 DEF Sound
  <2>2. t.root[r].ptr # 0 => t.heap[t.root[r].ptr - 1].marked
    BY <1>1, <1>8, RootsMarked
  <2> QED BY <1>7, <2>1, <2>2
<1>9. ASSUME NEW h \in S, NEW i \in DOMAIN t.heap[h].slots PROVE Leads(t, t.heap[h].slots[i], S)
  <2> DEFINE ref == t.heap[h].slots[i]
             k == ref.ptr - 1
  <2>1. h \in R /\ h \in DOMAIN g.heap /\ (h \in Old(g) \/ t.heap[h].marked)
    BY <1>3, <1>4
  <2>2. Leads(t, ref, R)
    BY <2>1 DEF Sound
  <2>3. i \in DOMAIN g.heap[h].slots /\ ref = g.heap[h].slots[i] /\ IsRef(ref)
    BY <1>1, <1>2, <2>1, SlotAddr
  <2> HIDE DEF S
  <2>4. ASSUME ref.ptr # 0 PROVE k \in Old(t) \/ t.heap[k].marked
    <3>1. k \in DOMAIN g.heap /\ ref.ptr \in Nat
      BY <1>3, <1>4, <2>2, <2>3, <2>4 DEF Leads, IsRef
    <3>2. IsObject(g, ref.ptr)
      BY <2>4, <3>1, ObjectAt DEF IsObject
    <3>3. CASE k \in Old(g)
      BY <1>3, <3>3
    <3>4. CASE k \in Young(g) /\ h \in Old(g)
      <4>1. PointsToNursery(g, ref.ptr)
        BY <1>5, <3>1, <3>4 DEF PointsToNursery, NurseryStart, Off
      <4>2. h + i \in g.remembered
        BY <1>1, <2>3, <3>4, <4>1 DEF Caught
      <4> QED BY <1>1, <2>1, <2>3, <3>2, <4>2, TracedMarks
    <3>5. CASE h \notin Old(g)
      <4>1. ~g.heap[h].marked /\ t.heap[h].marked
        BY <1>5, <1>6, <2>1, <3>5
      <4> QED BY <1>1, <2>1, <2>3, <3>2, <4>1, TracedMarks
    <3> QED BY <1>5, <3>1, <3>3, <3>4, <3>5
  <2> QED BY <1>7, <2>2, <2>4
<1>10. Sound(t, S)
  <2>1. S \subseteq DOMAIN t.heap
    BY <1>4
  <2> HIDE DEF S
  <2> QED BY <1>8, <1>9, <2>1 DEF Sound
<1> QED BY <1>10

(* What a minor collection makes of a sound set *)
LEMMA MinorMoves ==
  ASSUME prog \in Programs, NEW g, IsGc(g), Spaces(g), ~g.aborted, ~MinorFault(g),
         NEW t, t = Traced(g), NEW S, Sound(t, S), S \subseteq Old(t) \cup Live(t),
         NEW n, n = MinorCollect(g)
  PROVE  \/ n.aborted /\ Sound(n, S)
         \/ /\ ~n.aborted /\ ~(PromoteFree(t) > TenuredLimit)
            /\ Sound(n, {Lands(PromoteTo(t), h) : h \in S})
            /\ \A h \in Stay(t) : PromoteTo(t)[h] \in Young(n)
            /\ \A h \in Old(t) : n.heap[h].marked = t.heap[h].marked
<1> DEFINE p == PromoteSurvivors(t)
           fwd == Forwards(PromoteTo(t))
<1>1. IsGc(t) /\ SameShape(g, t) /\ t.aborted = g.aborted
  BY TracedFields
<1>2. Spaces(t)
  BY <1>1, SpacesSame
<1>3. n = IF p.aborted THEN p ELSE RebuildRemembered(p)
  BY DEF MinorCollect
<1>4. PromoteFree(t) \in Nat /\ TenuredLimit \in Nat
  BY <1>1, <1>2, PromoteLayout, Limits
<1>5. CASE PromoteFree(t) > TenuredLimit
  <2>1. p = [t EXCEPT !.aborted = TRUE]
    BY <1>5, PromoteIs
  <2>2. p.aborted = TRUE /\ p.heap = t.heap /\ p.root = t.root /\ p.reg = t.reg
    BY <1>1, <2>1, AbortFields
  <2> HIDE DEF p
  <2>3. S \subseteq DOMAIN t.heap
    BY DEF Sound
  <2>4. Sound(p, S)
    BY <2>2, <2>3, SoundSame
  <2> QED BY <1>3, <2>2, <2>4
<1>6. CASE ~(PromoteFree(t) > TenuredLimit)
  <2>1. ~Twice(PromoteMoved(t), fwd)
    BY <1>4, <1>6 DEF MinorFault
  <2>2. p = PromoteSurvivors(t) /\ fwd = Forwards(PromoteTo(t))
    OBVIOUS
  <2> HIDE DEF p, fwd
  <2> DEFINE T == {Lands(PromoteTo(t), h) : h \in S}
  <2>3. Sound(p, T)
    BY <1>1, <1>2, <1>6, <2>1, <2>2, PromoteSound
  <2>4. IsGc(p) /\ Promoted(t, p, fwd)
    BY <1>1, <1>2, <1>6, <2>2, PromoteRefs
  <2>5. ~p.aborted /\ n = RebuildRemembered(p)
    BY <1>1, <1>3, <2>4 DEF Promoted
  <2>6. SameShape(p, n) /\ n.heap = p.heap /\ n.root = p.root /\ n.reg = p.reg
        /\ n.aborted = p.aborted
    BY <2>4, <2>5, RebuildFields
  <2> HIDE DEF T
  <2>7. Sound(n, T)
    <3>1. T \subseteq DOMAIN p.heap
      BY <2>3 DEF Sound
    <3> QED BY <2>3, <2>6, <3>1, SoundSame
  <2>8. Young(n) = Young(p)
    BY <2>6, SameUnits
  <2>9. /\ \A h \in Stay(t) : PromoteTo(t)[h] \in Young(n)
        /\ \A h \in Old(t) : n.heap[h].marked = t.heap[h].marked
    BY <2>4, <2>6, <2>8 DEF Promoted
  <2> QED BY <1>6, <2>5, <2>6, <2>7, <2>9 DEF T
<1> QED BY <1>5, <1>6

LEMMA MarkedAre ==
  ASSUME prog \in Programs, NEW t, IsGc(t), Spaces(t), NEW S, S \subseteq DOMAIN t.heap,
         \A h \in S : h \in Old(t) \/ t.heap[h].marked
  PROVE  S \subseteq Old(t) \cup Live(t)
<1>1. DOMAIN t.heap = Young(t) \cup Old(t)
  BY OldAre
<1> QED BY <1>1 DEF Live

LEMMA MinorIntact ==
  ASSUME prog \in Programs, Tracks, NEW g, Inv(g), ~g.aborted, Intact(g), ~MinorFault(g),
         NEW n, n = MinorCollect(g)
  PROVE  Intact(n)
<1> DEFINE t == Traced(g)
           R == Reachable(t)
           S == {h \in R : h \in Old(t) \/ t.heap[h].marked}
<1>1. Ok(g) /\ IsGc(g) /\ Spaces(g)
  BY DEF Inv, Ok
<1>2. Sound(t, R)
  BY <1>1, TracedIntact
<1>3. IsGc(t) /\ SameShape(g, t) /\ t = Traced(g)
  BY <1>1, TracedFields
<1> HIDE DEF t, R
<1>4. Spaces(t)
  BY <1>1, <1>3, SpacesSame
<1>5. Sound(t, S)
  BY <1>1, <1>2, <1>3, TracedSound
<1>6. S \subseteq DOMAIN t.heap /\ \A h \in S : h \in Old(t) \/ t.heap[h].marked
  BY <1>2 DEF Sound
<1> HIDE DEF S
<1>7. S \subseteq Old(t) \cup Live(t)
  BY <1>3, <1>4, <1>6, MarkedAre
<1>8. Sound(n, S) \/ Sound(n, {Lands(PromoteTo(t), h) : h \in S})
  BY <1>1, <1>3, <1>5, <1>7, MinorMoves
<1> QED BY <1>8, SoundIntact

(* What a major collection is to sweep: objects it can reach have a mark   *)
(* if no old mark hid them.                                                *)
LEMMA SweepableSound ==
  ASSUME prog \in Programs, NEW g, IsGc(g), NEW t, t = Traced(g),
         Sound(t, Reachable(t)), ~StaleMark(t)
  PROVE  Sound(t, {h \in Reachable(t) : t.heap[h].marked})
<1> DEFINE R == Reachable(t)
           S == {h \in R : t.heap[h].marked}
<1>1. \A h \in R : t.heap[h].marked => Unmarked(t, Refs(t, h)) = {}
  BY DEF StaleMark
<1>2. R \subseteq DOMAIN t.heap /\ Sound(t, R)
  BY DEF Sound
<1> HIDE DEF R
<1>3. ASSUME NEW ref, Leads(t, ref, R), ref.ptr # 0 => t.heap[ref.ptr - 1].marked
      PROVE  Leads(t, ref, S)
  BY <1>3 DEF Leads
<1>4. ASSUME NEW r \in Roots, t.reg[r] > 0 PROVE Leads(t, t.root[r], S)
  <2>1. Leads(t, t.root[r], R)
    BY <1>2, <1>4 DEF Sound
  <2>2. t.root[r].ptr # 0 => t.heap[t.root[r].ptr - 1].marked
    BY <1>2, <1>4, RootsMarked
  <2> QED BY <1>3, <2>1, <2>2
<1>5. ASSUME NEW h \in S, NEW i \in DOMAIN t.heap[h].slots PROVE Leads(t, t.heap[h].slots[i], S)
  <2> DEFINE ref == t.heap[h].slots[i]
  <2>1. h \in R /\ t.heap[h].marked
    OBVIOUS
  <2>2. Leads(t, ref, R)
    BY <1>2, <2>1 DEF Sound
  <2>3. ref.ptr \in Refs(t, h)
    BY DEF Refs
  <2> HIDE DEF ref, S
  <2>4. ASSUME ref.ptr # 0, ~t.heap[ref.ptr - 1].marked PROVE FALSE
    <3>1. ref.ptr - 1 \in DOMAIN t.heap
      BY <1>2, <2>2, <2>4 DEF Leads
    <3>2. ref.ptr - 1 \in Unmarked(t, Refs(t, h))
      BY <2>3, <2>4, <3>1, UnmarkedAre
    <3> QED BY <1>1, <2>1, <3>2
  <2>5. Leads(t, ref, S)
    BY <1>3, <2>2, <2>4
  <2> QED BY <2>5 DEF ref
<1>6. Sound(t, S)
  <2>1. S \subseteq DOMAIN t.heap
    BY <1>2
  <2> HIDE DEF S
  <2> QED BY <1>4, <1>5, <2>1 DEF Sound
<1> QED BY <1>6 DEF R

(* Compaction and the freeing of large objects keep a sound set whose old  *)
(* objects are all marked.                                                 *)
LEMMA SweptIntact ==
  ASSUME prog \in Programs, NEW m, IsGc(m), Spaces(m),
         ~Twice(SweepMoved(m), Forwards(SweepTo(m))),
         NEW S, Sound(m, S), \A h \in S : h \in Young(m) \/ m.heap[h].marked,
         NEW n, n = RebuildRemembered(SweepLarge(SweepTenured(m)))
  PROVE  Intact(n)
<1> DEFINE fwd == Forwards(SweepTo(m))
           a == ApplyForwards(SweepMoved(m), fwd)
           s == SweepTenured(m)
           l == SweepLarge(s)
           T == {Lands(SweepTo(m), h) : h \in S}
<1>1. s = RebuildRemembered(a)
  BY SweepIs
<1>2. IsGc(a) /\ Spaces(a) /\ Swept(m, a, fwd)
  BY SweepRefs
<1>3. IsGc(s) /\ Spaces(s)
  BY SweepSpaces
<1>4. S \subseteq Young(m) \cup m.large \cup SweepLive(m)
  <2>1. S \subseteq DOMAIN m.heap
    BY DEF Sound
  <2>2. DOMAIN m.heap = Young(m) \cup Tenured(m) \cup m.large
    BY OldAre DEF Old
  <2> QED BY <2>1, <2>2 DEF SweepLive
<1>5. Sound(a, T)
  BY <1>4, SweepSound
<1>6. /\ DOMAIN SweepTo(m) = SweepLive(m)
      /\ \A h \in SweepLive(m) : SweepTo(m)[h] < SweepFree(m) /\ SweepTo(m)[h] \in Nat
      /\ SweepFree(m) <= m.tenured_free /\ m.tenured_free <= TenuredLimit
      /\ SweepFree(m) \in Nat /\ m.tenured_free \in Nat /\ TenuredLimit \in Nat
      /\ \A k \in m.large : TenuredLimit < k /\ k \in Nat /\ k \notin Young(m)
  BY SweepMap, SweepLayout, Where, Limits, OldAre DEF Old
<1>7. /\ a.large = m.large /\ \A h \in m.large : a.heap[h].marked = m.heap[h].marked
  BY <1>2 DEF Swept
<1> HIDE DEF a, fwd
<1>8. s.heap = a.heap /\ s.root = a.root /\ s.reg = a.reg /\ s.large = a.large
  BY <1>1, <1>2, RebuildFields DEF SameShape
<1> HIDE DEF s
<1>9. /\ IsGc(l) /\ l.root = s.root /\ l.reg = s.reg
      /\ DOMAIN l.heap = DOMAIN s.heap \ {h \in s.large : ~s.heap[h].marked}
      /\ \A h \in DOMAIN l.heap :
           l.heap[h].slots = s.heap[h].slots /\ l.heap[h].id = s.heap[h].id
  BY <1>3, SweepLargeFields
<1> HIDE DEF l
<1>10. ASSUME NEW b \in T, b \in m.large PROVE m.heap[b].marked
  <2>1. PICK h \in S : b = Lands(SweepTo(m), h)
    BY <1>10
  <2>2. h \notin SweepLive(m)
    BY <1>6, <1>10, <2>1 DEF Lands
  <2>3. b = h
    BY <1>6, <2>1, <2>2 DEF Lands
  <2>4. h \notin Young(m)
    BY <1>6, <1>10, <2>3
  <2> QED BY <2>3, <2>4
<1> HIDE DEF T
<1>11. T \subseteq DOMAIN l.heap
  <2>1. T \subseteq DOMAIN a.heap
    BY <1>5 DEF Sound
  <2> QED BY <1>7, <1>8, <1>9, <1>10, <2>1
<1>12. Sound(l, T)
  BY <1>5, <1>8, <1>9, <1>11, SoundSame
<1>13. n = RebuildRemembered(l)
  BY DEF l, s
<1>14. n.heap = l.heap /\ n.root = l.root /\ n.reg = l.reg
  BY <1>9, <1>13, RebuildFields
<1>15. Sound(n, T)
  BY <1>11, <1>12, <1>14, SoundSame
<1> QED BY <1>15, SoundIntact

LEMMA MajorIntact ==
  ASSUME prog \in Programs, NEW g, Inv(g), ~g.aborted, Intact(g), ~MajorFault(g),
         NEW n, n = MajorCollect(g)
  PROVE  Intact(n)
<1> DEFINE t == Traced(g)
           m == MinorCollect(g)
           S == {h \in Reachable(t) : t.heap[h].marked}
           T == {Lands(PromoteTo(t), h) : h \in S}
<1>1. IsGc(g) /\ Spaces(g)
  BY DEF Inv, Ok
<1>2. Sound(t, Reachable(t))
  BY <1>1, TracedIntact
<1>3. IsGc(t) /\ SameShape(g, t) /\ t = Traced(g)
  BY <1>1, TracedFields
<1>4. /\ ~MinorFault(g) /\ ~StaleMark(t) /\ Promo(t) \cap Reachable(t) = {}
      /\ ~Twice(SweepMoved(m), Forwards(SweepTo(m)))
  BY DEF MajorFault
<1>5. n = IF m.aborted THEN m ELSE RebuildRemembered(SweepLarge(SweepTenured(m)))
  BY DEF MajorCollect
<1>6. IsGc(m) /\ Spaces(m) /\ m = MinorCollect(g)
  BY <1>1, MinorSpaces
<1> HIDE DEF t, m
<1>7. Spaces(t)
  BY <1>1, <1>3, SpacesSame
<1>8. Sound(t, S)
  BY <1>1, <1>2, <1>3, <1>4, SweepableSound
<1>9. /\ S \subseteq DOMAIN t.heap /\ \A h \in S : h \in Old(t) \/ t.heap[h].marked
      /\ \A h \in S : h \notin Promo(t) /\ t.heap[h].marked
  BY <1>2, <1>4 DEF Sound
<1> HIDE DEF S
<1>10. S \subseteq Old(t) \cup Live(t)
  BY <1>3, <1>7, <1>9, MarkedAre
<1>11. \/ m.aborted /\ Sound(m, S)
       \/ /\ ~m.aborted /\ Sound(m, T)
          /\ \A h \in Stay(t) : PromoteTo(t)[h] \in Young(m)
          /\ \A h \in Old(t) : m.heap[h].marked = t.heap[h].marked
  BY <1>1, <1>3, <1>4, <1>6, <1>8, <1>10, MinorMoves
<1>12. CASE m.aborted /\ Sound(m, S)
  BY <1>5, <1>12, SoundIntact
<1>13. CASE /\ ~m.aborted /\ Sound(m, T)
            /\ \A h \in Stay(t) : PromoteTo(t)[h] \in Young(m)
            /\ \A h \in Old(t) : m.heap[h].marked = t.heap[h].marked
  <2>1. DOMAIN PromoteTo(t) = Live(t) /\ Live(t) = Stay(t) \cup Promo(t)
    BY <1>3, <1>7, PromoteMap
  <2>2. ASSUME NEW b \in T PROVE b \in Young(m) \/ m.heap[b].marked
    <3>1. PICK h \in S : b = Lands(PromoteTo(t), h)
      OBVIOUS
    <3>2. CASE h \in Live(t)
      BY <1>9, <1>13, <2>1, <3>1, <3>2 DEF Lands
    <3>3. CASE h \notin Live(t)
      BY <1>9, <1>10, <1>13, <2>1, <3>1, <3>3 DEF Lands
    <3> QED BY <3>2, <3>3
  <2> HIDE DEF T
  <2> QED BY <1>4, <1>5, <1>6, <1>13, <2>2, SweptIntact
<1> QED BY <1>11, <1>12, <1>13

-----------------------------------------------------------------------------
(* References and allocation *)

ResSound(res) == \E S : Sound(res.gc, S) /\ (res.obj = 0 \/ res.obj - 1 \in S)

LEMMA FailedSound ==
  ASSUME NEW res, res.obj = 0, Intact(res.gc)
  PROVE  ResSound(res)
BY SoundReachable DEF ResSound

(* A new object refers to nothing. *)
LEMMA AllocatedSound ==
  ASSUME NEW g, Intact(g), NEW res, NEW h, NEW k, NEW age, Allocated(g, res, h, k, age)
  PROVE  ResSound(res)
<1> DEFINE n == res.gc
           R == Reachable(g)
           S == R \cup {h}
<1>1. Sound(g, R)
  BY SoundReachable
<1>2. res.obj = h + 1 /\ Grown(g, n, h, k, age) /\ h \in Nat
  BY DEF Allocated
<1> HIDE DEF n, R
<1>3. /\ h \notin DOMAIN g.heap /\ DOMAIN n.heap = DOMAIN g.heap \cup {h}
      /\ \A b \in DOMAIN g.heap : n.heap[b] = g.heap[b]
      /\ DOMAIN n.heap[h].slots = 1..k /\ \A i \in 1..k : n.heap[h].slots[i] = Null
      /\ n.root = g.root /\ n.reg = g.reg
  BY <1>2 DEF Grown
<1>4. /\ R \subseteq DOMAIN g.heap
      /\ \A r \in Roots : g.reg[r] > 0 => Leads(g, g.root[r], R)
      /\ \A b \in R : \A i \in DOMAIN g.heap[b].slots : Leads(g, g.heap[b].slots[i], R)
  BY <1>1 DEF Sound
<1>5. \A ref : Leads(g, ref, R) => Leads(n, ref, S)
  BY <1>3, <1>4 DEF Leads
<1>6. \A i \in DOMAIN n.heap[h].slots : Leads(n, n.heap[h].slots[i], S)
  BY <1>3, NullRef DEF Leads
<1>7. \A b \in R : \A i \in DOMAIN n.heap[b].slots : Leads(n, n.heap[b].slots[i], S)
  BY <1>3, <1>4, <1>5
<1>8. Sound(n, S)
  BY <1>3, <1>4, <1>5, <1>6, <1>7 DEF Sound
<1>9. res.obj - 1 \in S
  BY <1>2
<1> HIDE DEF S
<1> QED BY <1>8, <1>9 DEF ResSound, n

LEMMA FastSound ==
  ASSUME prog \in Programs, NEW g, Inv(g), Intact(g), NEW k \in prog.sizes,
         NEW res, res = AllocFastUnlocked(g, k)
  PROVE  ResSound(res)
<1>1. IsGc(g) /\ Spaces(g)
  BY DEF Inv, Ok
<1>2. \/ res.gc = g /\ res.obj = 0
      \/ Allocated(g, res, g.nursery_ptr, k, 0)
  BY <1>1, FastAllocates
<1> QED BY <1>2, FailedSound, AllocatedSound

LEMMA TenuredSound ==
  ASSUME prog \in Programs, NEW g, Inv(g), Intact(g), NEW k \in prog.sizes,
         NEW res, res = AllocTenured(g, k)
  PROVE  ResSound(res)
<1>1. IsGc(g) /\ Spaces(g)
  BY DEF Inv, Ok
<1>2. \/ res.gc = g /\ res.obj = 0
      \/ Allocated(g, res, g.tenured_free, k, PromotionAge)
  BY <1>1, TenuredAllocates
<1> QED BY <1>2, FailedSound, AllocatedSound

LEMMA LargeSound ==
  ASSUME prog \in Programs, NEW g, Inv(g), Intact(g), NEW k \in prog.sizes,
         NEW res, res = AllocLarge(g, k)
  PROVE  ResSound(res)
<1>1. IsGc(g) /\ Spaces(g)
  BY DEF Inv, Ok
<1>2. \/ res.gc = g /\ res.obj = 0
      \/ \E h \in LargeAddrs : Allocated(g, res, h, k, PromotionAge)
  BY <1>1, LargeAllocates
<1> QED BY <1>2, FailedSound, AllocatedSound

LEMMA SlowSound ==
  ASSUME prog \in Programs, Tracks, NEW g, Inv(g), ~g.aborted, Intact(g),
         NEW k \in prog.sizes, ~SlowFault(g, k), NEW res, res = AllocSlow(g, k)
  PROVE  ResSound(res)
<1> DEFINE minor == MinorCollect(g)
           young == AllocFastUnlocked(minor, k)
           first == AllocTenured(minor, k)
           major == MajorCollect(minor)
           second == AllocTenured(major, k)
<1>1. /\ minor.aborted => res = Failed(minor)
      /\ ~minor.aborted /\ young.obj # 0 => res = young
      /\ ~minor.aborted /\ young.obj = 0 /\ first.obj # 0 => res = first
      /\ ~minor.aborted /\ young.obj = 0 /\ first.obj = 0 /\ major.aborted => res = Failed(major)
      /\ ~minor.aborted /\ young.obj = 0 /\ first.obj = 0 /\ ~major.aborted => res = second
  BY DEF AllocSlow, TenuredOrMajor
<1>2. /\ ~MinorFault(g)
      /\ ~minor.aborted /\ young.obj = 0 /\ first.obj = 0 => ~MajorFault(minor)
  BY DEF SlowFault
<1>3. Inv(minor) /\ Intact(minor)
  BY <1>2, MinorKeeps, MinorIntact
<1> HIDE DEF minor
<1>4. ResSound(young) /\ ResSound(first)
  BY <1>3, FastSound, TenuredSound
<1>5. ~minor.aborted => Inv(major)
  BY <1>3, MajorKeeps
<1>6. ~minor.aborted /\ young.obj = 0 /\ first.obj = 0 => Intact(major)
  BY <1>2, <1>3, MajorIntact
<1> HIDE DEF young, first, major
<1>7. ~minor.aborted /\ young.obj = 0 /\ first.obj = 0 => ResSound(second)
  BY <1>5, <1>6, TenuredSound
<1>8. ASSUME NEW x, Intact(x) PROVE ResSound(Failed(x))
  <2>1. Failed(x).gc = x /\ Failed(x).obj = 0
    BY DEF Failed
  <2> QED BY <1>8, <2>1, FailedSound
<1> HIDE DEF second
<1> QED BY <1>1, <1>3, <1>4, <1>6, <1>7, <1>8

-----------------------------------------------------------------------------
(* References and the program's operations *)

(* A root slot gets a reference that leads into the set. *)
LEMMA RootSound ==
  ASSUME NEW g, NEW S, Sound(g, S), NEW r \in Roots, NEW ref, Leads(g, ref, S),
         NEW n, RootIs(g, n, r, ref)
  PROVE  Intact(n)
<1>1. Sound(n, S)
  BY DEF Sound, RootIs, Leads
<1> QED BY <1>1, SoundIntact

LEMMA AllocateIntact ==
  ASSUME GcInv, Tracks, Intact(gc), ~Faulty, NEW op \in {"alloc", "fast", "slow"},
         NEW r \in Roots, NEW k \in prog.sizes, Allocate(op, r, k)
  PROVE  Intact(gc')
<1>1. prog \in Programs /\ Inv(gc)
  BY DEF GcInv
<1>2. PICK res : /\ Deliver(res, r) /\ ~gc.aborted /\ gc.reg[r] > 0
                 /\ Large(k) => res = AllocLarge(gc, k)
                 /\ ~Large(k) /\ op = "fast" => res = AllocFastUnlocked(gc, k)
                 /\ ~Large(k) /\ op = "slow" => res = AllocSlow(gc, k)
                 /\ ~Large(k) /\ op = "alloc" => res = AllocAny(gc, k)
  BY AllocateIs
<1>3. /\ ~Large(k) /\ op = "slow" => ~SlowFault(gc, k)
      /\ ~Large(k) /\ op = "alloc" /\ AllocFastUnlocked(gc, k).obj = 0 => ~SlowFault(gc, k)
  BY DEF Faulty
<1>4. ResOk(gc, res) /\ ResSound(res)
  <2>1. CASE Large(k)
    BY <1>1, <1>2, <2>1, LargeOk, LargeSound
  <2>2. CASE ~Large(k) /\ op = "fast"
    BY <1>1, <1>2, <2>2, FastOk, FastSound
  <2>3. CASE ~Large(k) /\ op = "slow"
    BY <1>1, <1>2, <1>3, <2>3, SlowOk, SlowSound
  <2>4. CASE ~Large(k) /\ op = "alloc"
    <3> DEFINE first == AllocFastUnlocked(gc, k)
               slow == AllocSlow(gc, k)
    <3>1. res = IF first.obj # 0 THEN first ELSE slow
      BY <1>2, <2>4 DEF AllocAny
    <3>2. ResSound(first)
      BY <1>1, FastSound
    <3>3. first.obj = 0 => ResSound(slow)
      BY <1>1, <1>2, <1>3, <2>4, SlowSound
    <3> HIDE DEF first, slow
    <3>4. ResSound(res)
      BY <3>1, <3>2, <3>3
    <3> QED BY <1>1, <1>2, <2>4, <3>4, AnyOk
  <2> QED BY <2>1, <2>2, <2>3, <2>4
<1>5. PICK S : Sound(res.gc, S) /\ (res.obj = 0 \/ res.obj - 1 \in S)
  BY <1>4 DEF ResSound
<1>6. Leads(res.gc, Result(res), S)
  BY <1>5, NullRef, ObjectAt DEF Leads, Result
<1>7. RootIs(res.gc, gc', r, Result(res))
  BY <1>2, <1>4, DeliverKeeps
<1> DEFINE g == res.gc
           ref == Result(res)
           n == gc'
<1>8. Sound(g, S) /\ Leads(g, ref, S) /\ RootIs(g, n, r, ref)
  BY <1>5, <1>6, <1>7
<1> HIDE DEF g, ref, n
<1>9. Intact(n)
  BY <1>8, RootSound
<1> QED BY <1>9 DEF n

LEMMA StoreIntact ==
  ASSUME GcInv, Intact(gc), NEW r \in Roots, NEW q \in Roots, NEW i, Store(r, i, q)
  PROVE  Intact(gc')
<1> DEFINE S == Reachable(gc)
           ref == gc.root[q]
           h == gc.root[r].ptr - 1
<1>1. Sound(gc, S)
  BY SoundReachable
<1>2. gc.reg[q] > 0 /\ \E rem : Stored(gc, gc', h, i, ref, rem)
  BY StoreStep
<1> HIDE DEF S, h
<1>3. PICK rem : Stored(gc, gc', h, i, ref, rem)
  BY <1>2
<1>4. Leads(gc, ref, S) /\ S \subseteq DOMAIN gc.heap
  BY <1>1, <1>2 DEF Sound
<1> HIDE DEF ref
<1>5. /\ DOMAIN gc'.heap = DOMAIN gc.heap /\ gc'.root = gc.root /\ gc'.reg = gc.reg
      /\ \A k \in DOMAIN gc.heap :
           /\ gc'.heap[k].id = gc.heap[k].id
           /\ DOMAIN gc'.heap[k].slots = DOMAIN gc.heap[k].slots
           /\ \A j \in DOMAIN gc.heap[k].slots :
                gc'.heap[k].slots[j] = IF k = h /\ j = i THEN ref ELSE gc.heap[k].slots[j]
  BY <1>3 DEF Stored, SameShape
<1>6. \A x : Leads(gc, x, S) => Leads(gc', x, S)
  BY <1>4, <1>5 DEF Leads
<1>7. Sound(gc', S)
  <2>1. S \subseteq DOMAIN gc'.heap
    BY <1>4, <1>5
  <2>2. \A p \in Roots : gc'.reg[p] > 0 => Leads(gc', gc'.root[p], S)
    BY <1>1, <1>5, <1>6 DEF Sound
  <2>3. ASSUME NEW k \in S, NEW j \in DOMAIN gc'.heap[k].slots
        PROVE  Leads(gc', gc'.heap[k].slots[j], S)
    <3>1. /\ j \in DOMAIN gc.heap[k].slots
          /\ gc'.heap[k].slots[j] = IF k = h /\ j = i THEN ref ELSE gc.heap[k].slots[j]
      BY <1>4, <1>5
    <3>2. Leads(gc, gc.heap[k].slots[j], S)
      BY <1>1, <3>1 DEF Sound
    <3> QED BY <1>4, <1>6, <3>1, <3>2
  <2> QED BY <2>1, <2>2, <2>3 DEF Sound
<1> QED BY <1>7, SoundIntact

LEMMA LoadIntact ==
  ASSUME GcInv, Intact(gc), NEW r \in Roots, NEW q \in Roots, NEW i, Load(r, i, q)
  PROVE  Intact(gc')
<1> DEFINE S == Reachable(gc)
           h == gc.root[r].ptr - 1
           ref == gc.heap[h].slots[i]
<1>1. Sound(gc, S)
  BY SoundReachable
<1>2. /\ RootIs(gc, gc', q, ref) /\ gc.reg[r] > 0 /\ gc.root[r].ptr # 0
      /\ i \in DOMAIN gc.heap[h].slots
  BY LoadStep
<1> HIDE DEF S
<1>3. h \in S
  BY <1>1, <1>2 DEF Sound, Leads
<1>4. Leads(gc, ref, S)
  BY <1>1, <1>2, <1>3 DEF Sound
<1> HIDE DEF ref, h
<1> QED BY <1>1, <1>2, <1>4, RootSound

LEMMA RootsIntact ==
  ASSUME GcInv, Intact(gc), NEW r \in Roots, Clear(r) \/ AddRoot(r) \/ RemoveRoot(r)
  PROVE  Intact(gc')
<1> DEFINE S == Reachable(gc)
<1>1. Sound(gc, S)
  BY SoundReachable
<1> HIDE DEF S
<1>2. CASE Clear(r)
  <2>1. RootIs(gc, gc', r, Null)
    BY <1>2, ClearStep
  <2>2. Leads(gc, Null, S)
    BY NullRef DEF Leads
  <2> QED BY <1>1, <2>1, <2>2, RootSound
<1>3. ASSUME gc'.heap = gc.heap,
             \A q \in Roots : gc'.reg[q] > 0 => Leads(gc, gc'.root[q], S)
      PROVE  Intact(gc')
  <2>1. Sound(gc', S)
    BY <1>1, <1>3 DEF Sound, Leads
  <2> QED BY <2>1, SoundIntact
<1>4. \A q \in Roots : gc.reg[q] > 0 => Leads(gc, gc.root[q], S)
  BY <1>1 DEF Sound
<1>5. CASE AddRoot(r)
  <2>1. gc'.heap = gc.heap /\ gc'.root = gc.root
    BY <1>5, AddRootStep
  <2>2. \A q \in Roots : gc.reg[q] \in 0..MaxReg /\ (gc.reg[q] = 0 => gc.root[q].ptr = 0)
    BY DEF GcInv, Inv, Ok, IsGc, Unused
  <2>3. MaxReg \in Nat
    BY ClientAssumption
  <2>4. \A q \in Roots : Leads(gc, gc.root[q], S)
    BY <1>4, <2>2, <2>3 DEF Leads
  <2> QED BY <1>3, <2>1, <2>4
<1>6. CASE RemoveRoot(r)
  <2>1. /\ gc'.heap = gc.heap
        /\ \A q \in Roots : gc'.reg[q] > 0 =>
             gc.reg[q] > 0 /\ (gc'.root[q] = gc.root[q] \/ gc'.root[q].ptr = 0)
    BY <1>6, RemoveRootStep
  <2>2. \A q \in Roots : gc'.reg[q] > 0 => Leads(gc, gc'.root[q], S)
    BY <1>4, <2>1 DEF Leads
  <2> QED BY <1>3, <2>1, <2>2
<1> QED BY <1>2, <1>5, <1>6

LEMMA TriggerIntact ==
  ASSUME GcInv, Tracks, Intact(gc), ~Faulty, TriggerMinor \/ TriggerMajor
  PROVE  Intact(gc')
<1>1. prog \in Programs /\ Inv(gc)
  BY DEF GcInv
<1>2. CASE TriggerMinor
  <2>1. ~gc.aborted /\ gc' = MinorCollect(gc) /\ ~MinorFault(gc)
    BY <1>2 DEF TriggerMinor, Calls, Faulty
  <2> QED BY <1>1, <2>1, MinorIntact
<1>3. CASE TriggerMajor
  <2>1. ~gc.aborted /\ gc' = MajorCollect(gc) /\ ~MajorFault(gc)
    BY <1>3 DEF TriggerMajor, Calls, Faulty
  <2> QED BY <1>1, <2>1, MajorIntact
<1> QED BY <1>2, <1>3

LEMMA IntactNext ==
  ASSUME GcInv, Tracks, RefsIntact, ~Faulty, Next
  PROVE  RefsIntact'
<1>1. Intact(gc)
  BY DEF RefsIntact, Intact
<1>2. Step
  BY DEF Next
<1>3. ASSUME NEW op \in {"alloc", "fast", "slow"}, NEW r \in Roots, NEW n \in prog.sizes,
             Allocate(op, r, n)
      PROVE  Intact(gc')
  BY <1>1, <1>3, AllocateIntact
<1>4. ASSUME NEW r \in Roots, NEW q \in Roots, NEW i, Store(r, i, q) PROVE Intact(gc')
  BY <1>1, <1>4, StoreIntact
<1>5. ASSUME NEW r \in Roots, NEW q \in Roots, NEW i, Load(r, i, q) PROVE Intact(gc')
  BY <1>1, <1>5, LoadIntact
<1>6. ASSUME NEW r \in Roots, Clear(r) \/ AddRoot(r) \/ RemoveRoot(r) PROVE Intact(gc')
  BY <1>1, <1>6, RootsIntact
<1>7. \A r \in Roots : ~MarkObject(r)
  BY DEF MarkObject, Calls, Tracks
<1>8. TriggerMinor \/ TriggerMajor => Intact(gc')
  BY <1>1, TriggerIntact
<1>9. Intact(gc')
  BY <1>2, <1>3, <1>4, <1>5, <1>6, <1>7, <1>8 DEF Step
<1> QED BY <1>9 DEF RefsIntact, Intact, Reachable, Rooted, Refs, Denotes, IsObject, Header, Off

-----------------------------------------------------------------------------
(* The theorems *)

(* nyGcValidateSpace, for every size of the spaces, of the objects and of  *)
(* the promotion age, whatever the program does: after every allocation,   *)
(* promotion, sliding and compaction, walking a space from header to       *)
(* header ends at its allocation pointer, inside the space, nothing        *)
(* overlaps, and an object is old exactly if its age says so.              *)
THEOREM SpacesStayPacked == Spec => []SpacesPacked
<1>1. GcInv => SpacesPacked
  BY DEF GcInv, Inv, Ok, Spaces, SpacesPacked
<1> QED BY <1>1, Invariant, PTL

(* nyGcValidateUnlocked: a remembered address is always a slot of an old   *)
(* object, and for every program that leaves marking to the collector and  *)
(* has no empty objects, the remembered set holds every slot of an old     *)
(* object that refers to the nursery: nyGcWriteBarrier and the rebuilding  *)
(* after each collection miss none.                                        *)
THEOREM RememberedSetIsExact == Spec => []RememberedExact
<1>1. ASSUME GcInv PROVE RememberedExact
  <2> DEFINE old == {s \in Slots(gc) : s[1] \in Old(gc)}
  <2>1. /\ prog \in Programs /\ IsGc(gc) /\ Spaces(gc) /\ Listed(gc) /\ (Tracks => Caught(gc))
    BY <1>1 DEF GcInv, Inv, Ok
  <2>2. Old(gc) \subseteq DOMAIN gc.heap
    BY <2>1, OldAre
  <2>3. ASSUME NEW a \in gc.remembered PROVE a \in {Addr(s) : s \in old}
    <3>1. PICK h \in Old(gc) : \E i \in DOMAIN gc.heap[h].slots : a = h + i
      BY <2>1 DEF Listed
    <3>2. PICK i \in DOMAIN gc.heap[h].slots : a = h + i
      BY <3>1
    <3>3. h \in DOMAIN gc.heap
      BY <2>2
    <3> DEFINE s == <<h, i>>
    <3>4. Addr(s) = a
      BY <2>1, <3>2, <3>3, SlotAddr
    <3>5. s \in Slots(gc) /\ s[1] = h
      BY <3>2, <3>3 DEF Slots
    <3> HIDE DEF s
    <3> QED BY <3>4, <3>5
  <2>4. ASSUME Tracks, NEW s \in old,
               PointsToNursery(gc, RefIn(gc, s).ptr)
        PROVE  Addr(s) \in gc.remembered
    <3>1. s \in Slots(gc) /\ s[1] \in Old(gc)
      OBVIOUS
    <3>2. PICK h \in DOMAIN gc.heap : \E i \in DOMAIN gc.heap[h].slots : s = <<h, i>>
      BY <3>1 DEF Slots
    <3>3. PICK i \in DOMAIN gc.heap[h].slots : s = <<h, i>>
      BY <3>2
    <3>4. h \in Old(gc) /\ PointsToNursery(gc, gc.heap[h].slots[i].ptr)
      BY <2>4, <3>1, <3>3 DEF RefIn
    <3>5. Addr(s) = h + i
      BY <2>1, <3>3, SlotAddr
    <3> QED BY <2>1, <2>4, <3>3, <3>4, <3>5 DEF Caught
  <2> QED BY <2>3, <2>4 DEF RememberedExact
<1> QED BY <1>1, Invariant, PTL

(* No collection frees or confuses what the program can reach, but for     *)
(* three faults: as long as the references of a program that leaves        *)
(* marking to the collector and has no empty objects lead to the objects   *)
(* they were made for, they do so after every further allocation (also     *)
(* the nyGcAlloc that collects), store, load and collection, minor or      *)
(* major, whatever refers to what; except when a slot is forwarded twice   *)
(* along a chain of moves, an old mark hides an object from a major        *)
(* collection, or a major collection promotes an object it then sweeps.    *)
THEOREM ReferencesAreKept == Spec => RefsKept
<1>1. GcInv /\ [Next]_vars => [Tracks /\ RefsIntact /\ ~Faulty => RefsIntact']_vars
  BY IntactNext
<1> QED BY <1>1, Invariant, PTL DEF Spec, RefsKept
=============================================================================
