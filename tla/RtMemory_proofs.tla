--------------------------- MODULE RtMemory_proofs ---------------------------
(***************************************************************************)
(* The allocator's properties, for any number of threads, addresses, size  *)
(* classes and cache entries and for every program it serves: one that is  *)
(* careful, or one with a single thread and no blocks above the classes.   *)
(***************************************************************************)
EXTENDS RtMemory, FiniteSetTheorems, SequenceTheorems, TLAPS

(* Raw memory or releases of what is no longer held confuse the caches of  *)
(* another thread, and so does the magic word a large block leaves behind. *)
Careful(p) == ~p.raw /\ ~p.careless
Single(p) == (\E t \in Thread : p.acting = {t}) /\ p.classes \subseteq 1..Pools
Served(p) == Careful(p) \/ Single(p)

Kinds == {"sys", "heap", "raw", "pool"}
Tables == [Thread -> [Addr -> Nat]]
Places == [Thread -> ({"retain", "release", "forget", "direct"} \X Addr) \cup {Idle}]

-----------------------------------------------------------------------------
(* Counting references.  h is a table of what threads hold, p one of what  *)
(* they are in the middle of.                                              *)

ClaimsOf(h, a) == UNION {{t} \X (1..h[t][a]) : t \in Thread}
ReleasingOf(p, a) == {t \in Thread : p[t] = <<"release", a>>}

(* The references to a are the pairs of a thread and one of its numbers. *)
LEMMA ClaimsIs ==
  ASSUME NEW h \in Tables, NEW a \in Addr
  PROVE  /\ ClaimsOf(h, a) \subseteq Thread \X (Nat \ {0})
         /\ \A t \in Thread, n \in Nat \ {0} : <<t, n>> \in ClaimsOf(h, a) <=> n <= h[t][a]
BY DEF ClaimsOf, Tables

(* Only what is held of a itself matters. *)
LEMMA ClaimsSame ==
  ASSUME NEW h \in Tables, NEW g \in Tables, NEW a \in Addr, \A t \in Thread : g[t][a] = h[t][a]
  PROVE  ClaimsOf(g, a) = ClaimsOf(h, a)
BY DEF ClaimsOf

(* One reference more *)
LEMMA ClaimsUp ==
  ASSUME NEW h \in Tables, NEW g \in Tables, NEW a \in Addr, NEW t \in Thread,
         g[t][a] = h[t][a] + 1, \A u \in Thread \ {t} : g[u][a] = h[u][a],
         IsFiniteSet(ClaimsOf(h, a))
  PROVE  IsFiniteSet(ClaimsOf(g, a)) /\ Cardinality(ClaimsOf(g, a)) = Cardinality(ClaimsOf(h, a)) + 1
<1> DEFINE x == <<t, h[t][a] + 1>>
<1>1. h[t][a] \in Nat /\ h[t][a] + 1 \in Nat \ {0}
  BY DEF Tables
<1>2. x \notin ClaimsOf(h, a)
  BY <1>1, ClaimsIs
<1>3. ASSUME NEW u \in Thread, NEW n \in Nat \ {0}
      PROVE  <<u, n>> \in ClaimsOf(g, a) <=> <<u, n>> \in ClaimsOf(h, a) \cup {x}
  <2>1. CASE u = t
    BY <1>1, <2>1, ClaimsIs
  <2>2. CASE u # t
    BY <2>2, ClaimsIs
  <2> QED
    BY <2>1, <2>2
<1>4. x \in Thread \X (Nat \ {0})
  BY <1>1
<1>5. ClaimsOf(g, a) = ClaimsOf(h, a) \cup {x}
  <2>1. \A y \in Thread \X (Nat \ {0}) : y \in ClaimsOf(g, a) <=> y \in ClaimsOf(h, a) \cup {x}
    BY <1>3
  <2> HIDE DEF x
  <2>2. ClaimsOf(g, a) \subseteq Thread \X (Nat \ {0}) /\ ClaimsOf(h, a) \subseteq Thread \X (Nat \ {0})
    BY ClaimsIs
  <2> QED
    BY <1>4, <2>1, <2>2, Zenon
<1> QED
  BY <1>2, <1>5, FS_AddElement

(* One less *)
LEMMA ClaimsDown ==
  ASSUME NEW h \in Tables, NEW g \in Tables, NEW a \in Addr, NEW t \in Thread,
         h[t][a] > 0, g[t][a] = h[t][a] - 1, \A u \in Thread \ {t} : g[u][a] = h[u][a],
         IsFiniteSet(ClaimsOf(h, a))
  PROVE  IsFiniteSet(ClaimsOf(g, a)) /\ Cardinality(ClaimsOf(g, a)) = Cardinality(ClaimsOf(h, a)) - 1
<1>1. h[t][a] \in Nat /\ h[t][a] = g[t][a] + 1
  BY DEF Tables
<1>2. \A u \in Thread \ {t} : h[u][a] = g[u][a]
  OBVIOUS
<1>3. ClaimsOf(g, a) \subseteq ClaimsOf(h, a)
  <2>1. \A u \in Thread : g[u][a] \in Nat /\ h[u][a] \in Nat /\ g[u][a] <= h[u][a]
    BY <1>1 DEF Tables
  <2>2. \A u \in Thread, n \in Nat \ {0} : <<u, n>> \in ClaimsOf(g, a) => <<u, n>> \in ClaimsOf(h, a)
    BY <2>1, ClaimsIs
  <2> QED
    BY <2>2, ClaimsIs
<1>4. IsFiniteSet(ClaimsOf(g, a))
  BY <1>3, FS_Subset
<1>5. Cardinality(ClaimsOf(h, a)) = Cardinality(ClaimsOf(g, a)) + 1
  BY <1>1, <1>2, <1>4, ClaimsUp
<1>6. Cardinality(ClaimsOf(g, a)) \in Nat
  BY <1>4, FS_CardinalityType
<1> QED
  BY <1>4, <1>5, <1>6

(* None *)
LEMMA ClaimsNone ==
  ASSUME NEW h \in Tables, NEW a \in Addr
  PROVE  ClaimsOf(h, a) = {} <=> \A t \in Thread : h[t][a] = 0
<1>1. ASSUME NEW t \in Thread, h[t][a] # 0 PROVE <<t, 1>> \in ClaimsOf(h, a)
  BY <1>1, ClaimsIs DEF Tables
<1>2. ASSUME \A t \in Thread : h[t][a] = 0, NEW x \in ClaimsOf(h, a) PROVE FALSE
  <2>1. PICK t \in Thread, n \in Nat \ {0} : x = <<t, n>>
    BY <1>2, ClaimsIs
  <2> QED
    BY <1>2, <2>1, ClaimsIs
<1> QED
  BY <1>1, <1>2

(* One alone *)
LEMMA ClaimsOne ==
  ASSUME NEW h \in Tables, NEW a \in Addr, NEW t \in Thread, h[t][a] = 1,
         IsFiniteSet(ClaimsOf(h, a)), Cardinality(ClaimsOf(h, a)) = 1
  PROVE  \A u \in Thread \ {t} : h[u][a] = 0
<1> SUFFICES ASSUME NEW u \in Thread \ {t}, h[u][a] # 0 PROVE FALSE
  OBVIOUS
<1>1. <<t, 1>> \in ClaimsOf(h, a) /\ <<u, 1>> \in ClaimsOf(h, a)
  BY ClaimsIs DEF Tables
<1>2. PICK x : ClaimsOf(h, a) = {x}
  BY FS_Singleton
<1> QED
  BY <1>1, <1>2

-----------------------------------------------------------------------------
(* Who owns one address: k is what it is, r its count in the table, q the  *)
(* program.                                                                *)

FreeingIn(p, t, a) == p[t] \in {<<"forget", a>>, <<"direct", a>>}

(* What is not a block in use is held by nobody; who is about to retain it *)
(* holds it, and who is freeing it is alone with it.                       *)
Access(k, h, p, a) ==
  /\ k # "heap" => \A t \in Thread : h[t][a] = 0 /\ p[t][2] # a
  /\ \A t \in Thread : p[t] = <<"retain", a>> => h[t][a] > 0
  /\ \A t \in Thread : FreeingIn(p, t, a) =>
       \A u \in Thread : h[u][a] = 0 /\ (u # t => p[u][2] # a)

(* CountsExact for one address, and for the sums to mean something *)
Counts(k, r, h, p, q, a) ==
  /\ IsFiniteSet(ClaimsOf(h, a)) /\ IsFiniteSet(ReleasingOf(p, a))
  /\ q.counted /\ k = "heap" /\ (\A t \in Thread : ~FreeingIn(p, t, a)) =>
       r = Cardinality(ClaimsOf(h, a)) + Cardinality(ReleasingOf(p, a))

(* Without counts there is one reference and nobody else lets go of it. *)
Unshared(h, p, q, a) ==
  ~q.counted =>
    /\ \A t \in Thread : p[t] \notin {<<"retain", a>>, <<"release", a>>}
    /\ \A t, u \in Thread : h[t][a] > 0 /\ h[u][a] > 0 => t = u /\ h[t][a] = 1

(* A block in use is somebody's. *)
Kept(k, h, p, a) == k = "heap" => \E t \in Thread : h[t][a] > 0 \/ p[t][2] = a

(* Threads the program does not have do nothing. *)
Absent(h, p, q, a) == \A t \in Thread \ q.acting : h[t][a] = 0 /\ p[t][2] # a

OwnAt(k, r, h, p, q, a) ==
  Access(k, h, p, a) /\ Counts(k, r, h, p, q, a) /\ Unshared(h, p, q, a) /\ Kept(k, h, p, a) /\ Absent(h, p, q, a)

(* What happens elsewhere does not matter: a's references are the same,    *)
(* and a thread that does something else has nothing to do with a.         *)
LEMMA OwnElsewhere ==
  ASSUME NEW k, NEW r, NEW h \in Tables, NEW g \in Tables, NEW p \in Places, NEW s \in Places,
         NEW q, NEW a \in Addr, OwnAt(k, r, h, p, q, a),
         \A t \in Thread : g[t][a] = h[t][a],
         \A t \in Thread : s[t] = p[t] \/ (p[t][2] # a /\ s[t][2] # a)
  PROVE  OwnAt(k, r, g, s, q, a)
<1>1. \A t \in Thread : (s[t][2] = a <=> p[t][2] = a) /\ (s[t][2] = a => s[t] = p[t])
  OBVIOUS
<1>2. ASSUME NEW t \in Thread, NEW w PROVE s[t] = <<w, a>> <=> p[t] = <<w, a>>
  BY <1>1
<1>3. ClaimsOf(g, a) = ClaimsOf(h, a)
  BY ClaimsSame
<1>4. ReleasingOf(s, a) = ReleasingOf(p, a)
  BY <1>2 DEF ReleasingOf
<1>5. \A t \in Thread : FreeingIn(s, t, a) <=> FreeingIn(p, t, a)
  BY <1>2 DEF FreeingIn
<1>6. Access(k, g, s, a)
  BY <1>1, <1>2, <1>5 DEF OwnAt, Access
<1>7. Counts(k, r, g, s, q, a)
  BY <1>3, <1>4, <1>5 DEF OwnAt, Counts
<1>8. Unshared(g, s, q, a)
  BY <1>2 DEF OwnAt, Unshared
<1>9. Kept(k, g, s, a) /\ Absent(g, s, q, a)
  BY <1>1 DEF OwnAt, Kept, Absent
<1> QED
  BY <1>6, <1>7, <1>8, <1>9 DEF OwnAt

(* Memory that nobody has a reference to may become something else. *)
LEMMA OwnOther ==
  ASSUME NEW k, NEW l, NEW r, NEW x, NEW h, NEW p, NEW q, NEW a \in Addr, OwnAt(k, r, h, p, q, a),
         k # "heap", l # "heap"
  PROVE  OwnAt(l, x, h, p, q, a)
BY DEF OwnAt, Access, Counts, Kept

(* rt_malloc: t gets the only reference to memory that nobody had. *)
LEMMA OwnNew ==
  ASSUME NEW k, NEW r \in Nat, NEW h \in Tables, NEW g \in Tables, NEW p \in Places, NEW q,
         NEW a \in Addr, NEW t \in Thread, NEW x, OwnAt(k, r, h, p, q, a), k # "heap", t \in q.acting,
         g[t][a] = 1, \A u \in Thread \ {t} : g[u][a] = h[u][a], q.counted => x = 1
  PROVE  OwnAt("heap", x, g, p, q, a)
<1>1. \A u \in Thread : h[u][a] = 0 /\ p[u][2] # a
  BY DEF OwnAt, Access
<1>2. \A u \in Thread : \A w : p[u] # <<w, a>>
  BY <1>1
<1>3. ReleasingOf(p, a) = {} /\ \A u \in Thread : ~FreeingIn(p, u, a)
  BY <1>2 DEF ReleasingOf, FreeingIn
<1>4. ClaimsOf(h, a) = {}
  BY <1>1, ClaimsNone
<1>5. IsFiniteSet(ClaimsOf(g, a)) /\ Cardinality(ClaimsOf(g, a)) = 1
  <2>1. g[t][a] = h[t][a] + 1
    BY <1>1
  <2>2. IsFiniteSet(ClaimsOf(h, a)) /\ Cardinality(ClaimsOf(h, a)) = 0
    BY <1>4, FS_EmptySet
  <2> QED
    BY <2>1, <2>2, ClaimsUp
<1>6. Access("heap", g, p, a)
  BY <1>2, <1>3 DEF Access
<1>7. Counts("heap", x, g, p, q, a)
  BY <1>3, <1>5, FS_EmptySet DEF Counts
<1>8. Unshared(g, p, q, a)
  BY <1>1, <1>2 DEF Unshared
<1>9. Kept("heap", g, p, a) /\ Absent(g, p, q, a)
  BY <1>1 DEF Kept, Absent
<1> QED
  BY <1>6, <1>7, <1>8, <1>9 DEF OwnAt

(* A reference is handed from t to u. *)
LEMMA OwnGive ==
  ASSUME NEW k, NEW r, NEW h \in Tables, NEW g \in Tables, NEW p \in Places, NEW q,
         NEW a \in Addr, NEW t \in Thread, NEW u \in Thread, OwnAt(k, r, h, p, q, a), u # t,
         u \in q.acting, p[t] = Idle, h[t][a] > 0,
         g[t][a] = h[t][a] - 1, g[u][a] = h[u][a] + 1, \A v \in Thread \ {t, u} : g[v][a] = h[v][a]
  PROVE  OwnAt(k, r, g, p, q, a)
<1> DEFINE m == [h EXCEPT ![t][a] = @ - 1]
<1>1. h[t][a] \in Nat /\ h[u][a] \in Nat
  BY DEF Tables
<1>2. m \in Tables /\ m[t][a] = h[t][a] - 1 /\ \A v \in Thread \ {t} : m[v][a] = h[v][a]
  BY <1>1 DEF Tables
<1> HIDE DEF m
<1>3. k = "heap" /\ \A v \in Thread : ~FreeingIn(p, v, a)
  BY <1>1 DEF OwnAt, Access
<1>4. IsFiniteSet(ClaimsOf(g, a)) /\ Cardinality(ClaimsOf(g, a)) = Cardinality(ClaimsOf(h, a))
  <2>1. IsFiniteSet(ClaimsOf(h, a)) /\ Cardinality(ClaimsOf(h, a)) \in Nat
    BY FS_CardinalityType DEF OwnAt, Counts
  <2>2. IsFiniteSet(ClaimsOf(m, a)) /\ Cardinality(ClaimsOf(m, a)) = Cardinality(ClaimsOf(h, a)) - 1
    BY <1>2, <2>1, ClaimsDown
  <2>3. g[u][a] = m[u][a] + 1 /\ \A v \in Thread \ {u} : g[v][a] = m[v][a]
    BY <1>1, <1>2
  <2>4. IsFiniteSet(ClaimsOf(g, a)) /\ Cardinality(ClaimsOf(g, a)) = Cardinality(ClaimsOf(m, a)) + 1
    BY <1>2, <2>2, <2>3, ClaimsUp
  <2> QED
    BY <2>1, <2>2, <2>4
<1>5. Access(k, g, p, a)
  <2>1. ASSUME NEW v \in Thread, p[v] = <<"retain", a>> PROVE g[v][a] > 0
    <3>1. v # t /\ h[v][a] > 0
      BY <2>1 DEF OwnAt, Access, Idle
    <3> QED
      BY <1>1, <3>1
  <2> QED
    BY <1>3, <2>1 DEF Access
<1>6. Counts(k, r, g, p, q, a)
  BY <1>4 DEF OwnAt, Counts
<1>7. Unshared(g, p, q, a)
  BY <1>1 DEF OwnAt, Unshared
<1>8. Kept(k, g, p, a)
  BY <1>1 DEF Kept
<1>9. Absent(g, p, q, a)
  BY <1>1 DEF OwnAt, Absent
<1> QED
  BY <1>5, <1>6, <1>7, <1>8, <1>9 DEF OwnAt

(* What the first half of rt_retain_owned does: t goes for the lock. *)
LEMMA OwnRetain ==
  ASSUME NEW k, NEW r, NEW h \in Tables, NEW p \in Places, NEW s \in Places, NEW q,
         NEW a \in Addr, NEW t \in Thread, OwnAt(k, r, h, p, q, a), q.counted, t \in q.acting,
         p[t] = Idle, h[t][a] > 0, s[t] = <<"retain", a>>, \A u \in Thread \ {t} : s[u] = p[u]
  PROVE  OwnAt(k, r, h, s, q, a)
<1>1. h[t][a] \in Nat
  BY DEF Tables
<1>2. k = "heap" /\ \A u \in Thread : ~FreeingIn(p, u, a)
  BY <1>1 DEF OwnAt, Access
<1>3. \A u \in Thread : ~FreeingIn(s, u, a)
  BY <1>2 DEF FreeingIn
<1>4. ReleasingOf(s, a) = ReleasingOf(p, a)
  BY DEF ReleasingOf, Idle
<1>5. Access(k, h, s, a)
  BY <1>2, <1>3 DEF OwnAt, Access
<1>6. Counts(k, r, h, s, q, a)
  BY <1>2, <1>4 DEF OwnAt, Counts
<1>7. Unshared(h, s, q, a)
  BY DEF Unshared
<1>8. Kept(k, h, s, a) /\ Absent(h, s, q, a)
  BY DEF OwnAt, Kept, Absent
<1> QED
  BY <1>5, <1>6, <1>7, <1>8 DEF OwnAt

(* The second: the count and the references go up together. *)
LEMMA OwnRetained ==
  ASSUME NEW k, NEW r \in Nat, NEW h \in Tables, NEW g \in Tables, NEW p \in Places, NEW s \in Places,
         NEW q, NEW a \in Addr, NEW t \in Thread, OwnAt(k, r, h, p, q, a), p[t] = <<"retain", a>>,
         g[t][a] = h[t][a] + 1, \A u \in Thread \ {t} : g[u][a] = h[u][a],
         s[t] = Idle, \A u \in Thread \ {t} : s[u] = p[u]
  PROVE  OwnAt(k, r + 1, g, s, q, a)
<1>1. h[t][a] \in Nat /\ h[t][a] > 0 /\ g[t][a] > 0
  BY DEF Tables, OwnAt, Access
<1>2. k = "heap" /\ \A u \in Thread : ~FreeingIn(p, u, a)
  BY <1>1 DEF OwnAt, Access
<1>3. q.counted /\ t \in q.acting
  BY DEF OwnAt, Unshared, Absent
<1>4. \A u \in Thread : ~FreeingIn(s, u, a)
  BY <1>2, MemoryAssumption DEF FreeingIn, Idle, None
<1>5. ReleasingOf(s, a) = ReleasingOf(p, a)
  BY MemoryAssumption DEF ReleasingOf, Idle, None
<1>6. /\ IsFiniteSet(ClaimsOf(g, a)) /\ Cardinality(ClaimsOf(h, a)) \in Nat
      /\ Cardinality(ClaimsOf(g, a)) = Cardinality(ClaimsOf(h, a)) + 1
  <2>1. IsFiniteSet(ClaimsOf(h, a))
    BY DEF OwnAt, Counts
  <2> QED
    BY <2>1, ClaimsUp, FS_CardinalityType
<1>7. Access(k, g, s, a)
  BY <1>1, <1>2, <1>4, MemoryAssumption DEF OwnAt, Access, Idle, None
<1>8. Counts(k, r + 1, g, s, q, a)
  <2>1. IsFiniteSet(ReleasingOf(s, a)) /\ Cardinality(ReleasingOf(s, a)) \in Nat
    BY <1>5, FS_CardinalityType DEF OwnAt, Counts
  <2>2. r = Cardinality(ClaimsOf(h, a)) + Cardinality(ReleasingOf(p, a))
    BY <1>2, <1>3 DEF OwnAt, Counts
  <2>3. r + 1 = Cardinality(ClaimsOf(g, a)) + Cardinality(ReleasingOf(s, a))
    BY <1>5, <1>6, <2>1, <2>2
  <2> QED
    BY <1>6, <2>1, <2>3 DEF Counts
<1>9. Unshared(g, s, q, a)
  BY <1>3 DEF Unshared
<1>10. Kept(k, g, s, a) /\ Absent(g, s, q, a)
  BY <1>1, <1>3 DEF OwnAt, Kept, Absent
<1> QED
  BY <1>7, <1>8, <1>9, <1>10 DEF OwnAt

(* t gives up a reference.  Counted, it goes for the lock; uncounted, it   *)
(* was the only one, and t goes to free the block.                         *)
LEMMA OwnRelease ==
  ASSUME NEW k, NEW r, NEW h \in Tables, NEW g \in Tables, NEW p \in Places, NEW s \in Places,
         NEW q, NEW a \in Addr, NEW t \in Thread, OwnAt(k, r, h, p, q, a), t \in q.acting,
         p[t] = Idle, h[t][a] > 0, g[t][a] = h[t][a] - 1, \A u \in Thread \ {t} : g[u][a] = h[u][a],
         s[t] = <<IF q.counted THEN "release" ELSE "forget", a>>, \A u \in Thread \ {t} : s[u] = p[u]
  PROVE  OwnAt(k, r, g, s, q, a)
<1>1. h[t][a] \in Nat /\ \A u \in Thread : h[u][a] \in Nat
  BY DEF Tables
<1>2. k = "heap" /\ \A u \in Thread : ~FreeingIn(p, u, a)
  BY <1>1 DEF OwnAt, Access
<1>3. /\ IsFiniteSet(ClaimsOf(g, a)) /\ Cardinality(ClaimsOf(h, a)) \in Nat
      /\ Cardinality(ClaimsOf(g, a)) = Cardinality(ClaimsOf(h, a)) - 1
  <2>1. IsFiniteSet(ClaimsOf(h, a))
    BY DEF OwnAt, Counts
  <2> QED
    BY <2>1, ClaimsDown, FS_CardinalityType
<1>4. Kept(k, g, s, a) /\ Absent(g, s, q, a)
  BY DEF OwnAt, Kept, Absent
<1>5. CASE q.counted
  <2>1. s[t] = <<"release", a>>
    BY <1>5
  <2>2. \A u \in Thread : ~FreeingIn(s, u, a)
    BY <1>2, <2>1 DEF FreeingIn
  <2>3. t \notin ReleasingOf(p, a) /\ ReleasingOf(s, a) = ReleasingOf(p, a) \cup {t}
    BY <2>1 DEF ReleasingOf, Idle
  <2>4. /\ IsFiniteSet(ReleasingOf(s, a)) /\ Cardinality(ReleasingOf(p, a)) \in Nat
        /\ Cardinality(ReleasingOf(s, a)) = Cardinality(ReleasingOf(p, a)) + 1
    <3>1. IsFiniteSet(ReleasingOf(p, a))
      BY DEF OwnAt, Counts
    <3> QED
      BY <2>3, <3>1, FS_AddElement, FS_CardinalityType
  <2>5. Access(k, g, s, a)
    BY <1>2, <2>1, <2>2 DEF OwnAt, Access
  <2>6. Counts(k, r, g, s, q, a)
    <3>1. r = Cardinality(ClaimsOf(h, a)) + Cardinality(ReleasingOf(p, a))
      BY <1>2, <1>5 DEF OwnAt, Counts
    <3>2. r = Cardinality(ClaimsOf(g, a)) + Cardinality(ReleasingOf(s, a))
      BY <1>3, <2>4, <3>1
    <3> QED
      BY <1>3, <2>4, <3>2 DEF Counts
  <2>7. Unshared(g, s, q, a)
    BY <1>5 DEF Unshared
  <2> QED
    BY <1>4, <2>5, <2>6, <2>7 DEF OwnAt
<1>6. CASE ~q.counted
  <2>1. s[t] = <<"forget", a>>
    BY <1>6
  <2>2. \A u \in Thread : g[u][a] = 0
    BY <1>1, <1>6 DEF OwnAt, Unshared
  <2>3. \A u \in Thread : u # t => s[u][2] # a
    <3> SUFFICES ASSUME NEW u \in Thread, u # t, p[u][2] = a PROVE FALSE
      OBVIOUS
    <3>1. p[u] \notin {<<"retain", a>>, <<"release", a>>, <<"forget", a>>, <<"direct", a>>}
      BY <1>2, <1>6 DEF OwnAt, Unshared, FreeingIn
    <3> QED
      BY <3>1, MemoryAssumption DEF Places, Idle, None
  <2>4. ReleasingOf(s, a) = {}
    BY <2>1, <2>3 DEF ReleasingOf
  <2>5. Access(k, g, s, a)
    <3>1. \A u \in Thread : s[u] # <<"retain", a>>
      BY <2>1, <2>3
    <3>2. \A u \in Thread : FreeingIn(s, u, a) => u = t
      BY <2>3 DEF FreeingIn
    <3> QED
      BY <1>2, <2>2, <2>3, <3>1, <3>2 DEF Access
  <2>6. Counts(k, r, g, s, q, a)
    BY <1>3, <1>6, <2>4, FS_EmptySet DEF Counts
  <2>7. Unshared(g, s, q, a)
    BY <2>1, <2>2, <2>3 DEF Unshared
  <2> QED
    BY <1>4, <2>5, <2>6, <2>7 DEF OwnAt
<1> QED
  BY <1>5, <1>6

(* rt_release_owned under the lock: the last reference sends t to free the *)
(* block; else the count goes down and somebody else still has it.         *)
LEMMA OwnReleased ==
  ASSUME NEW k, NEW r \in Nat, NEW x, NEW h \in Tables, NEW p \in Places, NEW s \in Places,
         NEW q, NEW a \in Addr, NEW t \in Thread, OwnAt(k, r, h, p, q, a), p[t] = <<"release", a>>,
         IF r <= 1 THEN s[t] = <<"direct", a>> ELSE s[t] = Idle /\ x = r - 1,
         \A u \in Thread \ {t} : s[u] = p[u]
  PROVE  OwnAt(k, x, h, s, q, a)
<1>1. k = "heap" /\ \A u \in Thread : ~FreeingIn(p, u, a)
  <2>1. ~FreeingIn(p, t, a)
    BY DEF FreeingIn
  <2> QED
    BY <2>1 DEF OwnAt, Access
<1>2. q.counted /\ t \in q.acting
  <2>1. q.counted
    BY DEF OwnAt, Unshared
  <2>2. t \in q.acting
    BY DEF OwnAt, Absent
  <2> QED
    BY <2>1, <2>2
<1>3. /\ IsFiniteSet(ClaimsOf(h, a)) /\ Cardinality(ClaimsOf(h, a)) \in Nat
      /\ IsFiniteSet(ReleasingOf(p, a)) /\ Cardinality(ReleasingOf(p, a)) \in Nat
      /\ r = Cardinality(ClaimsOf(h, a)) + Cardinality(ReleasingOf(p, a))
  BY <1>1, <1>2, FS_CardinalityType DEF OwnAt, Counts
<1> DEFINE others == ReleasingOf(p, a) \ {t}
<1>4. t \in ReleasingOf(p, a)
  BY DEF ReleasingOf
<1>5. IsFiniteSet(others) /\ Cardinality(others) \in Nat /\ Cardinality(others) = Cardinality(ReleasingOf(p, a)) - 1
  BY <1>3, <1>4, FS_RemoveElement, FS_CardinalityType
<1>6. ReleasingOf(s, a) = others
  <2>1. s[t] # <<"release", a>>
    BY DEF Idle
  <2> QED
    BY <2>1 DEF ReleasingOf
<1>7. Unshared(h, s, q, a) /\ Absent(h, s, q, a)
  BY <1>2 DEF OwnAt, Unshared, Absent
<1>8. CASE r <= 1
  <2>1. s[t] = <<"direct", a>>
    BY <1>8
  <2>2. Cardinality(ClaimsOf(h, a)) = 0 /\ Cardinality(others) = 0
    <3> HIDE DEF others
    <3> QED
      BY <1>3, <1>5, <1>8
  <2>3. \A u \in Thread : h[u][a] = 0
    BY <1>3, <2>2, FS_EmptySet, ClaimsNone
  <2>4. others = {}
    BY <1>5, <2>2, FS_EmptySet
  <2>5. \A u \in Thread : u # t => s[u][2] # a
    <3> SUFFICES ASSUME NEW u \in Thread, u # t, p[u][2] = a PROVE FALSE
      OBVIOUS
    <3>1. p[u] \notin {<<"release", a>>, <<"forget", a>>, <<"direct", a>>}
      BY <1>1, <2>4 DEF FreeingIn, ReleasingOf
    <3>2. p[u] = <<"retain", a>>
      BY <3>1, MemoryAssumption DEF Places, Idle, None
    <3> QED
      BY <2>3, <3>2 DEF OwnAt, Access
  <2>6. Access(k, h, s, a)
    <3>1. \A u \in Thread : s[u] # <<"retain", a>>
      BY <2>1, <2>5
    <3>2. \A u \in Thread : FreeingIn(s, u, a) => u = t
      BY <2>5 DEF FreeingIn
    <3> QED
      BY <1>1, <2>3, <2>5, <3>1, <3>2 DEF Access
  <2>7. Counts(k, x, h, s, q, a)
    <3>1. FreeingIn(s, t, a)
      BY <2>1 DEF FreeingIn
    <3> QED
      BY <1>3, <1>5, <1>6, <3>1 DEF Counts
  <2>8. Kept(k, h, s, a)
    BY <2>1 DEF Kept
  <2> QED
    BY <1>7, <2>6, <2>7, <2>8 DEF OwnAt
<1>9. CASE ~(r <= 1)
  <2>1. s[t] = Idle /\ x = r - 1
    BY <1>9
  <2>2. \A u \in Thread : ~FreeingIn(s, u, a)
    BY <1>1, <2>1 DEF FreeingIn, Idle
  <2>3. Access(k, h, s, a)
    BY <1>1, <2>1, <2>2 DEF OwnAt, Access, Idle
  <2>4. Counts(k, x, h, s, q, a)
    <3>1. x = Cardinality(ClaimsOf(h, a)) + Cardinality(others)
      <4> HIDE DEF others
      <4> QED
        BY <1>3, <1>5, <2>1
    <3> QED
      BY <1>3, <1>5, <1>6, <3>1 DEF Counts
  <2>5. Kept(k, h, s, a)
    <3>1. Cardinality(ClaimsOf(h, a)) # 0 \/ Cardinality(others) # 0
      <4> HIDE DEF others
      <4> QED
        BY <1>3, <1>5, <1>9
    <3>2. CASE Cardinality(ClaimsOf(h, a)) # 0
      <4>1. ~(\A u \in Thread : h[u][a] = 0)
        BY <3>2, FS_EmptySet, ClaimsNone
      <4>2. \A u \in Thread : h[u][a] \in Nat
        BY DEF Tables
      <4> QED
        BY <4>1, <4>2 DEF Kept
    <3>3. CASE Cardinality(others) # 0
      <4>1. PICK u \in others : TRUE
        BY <3>3, FS_EmptySet
      <4>2. u \in Thread /\ s[u] = <<"release", a>>
        BY <4>1 DEF ReleasingOf
      <4> QED
        BY <4>2 DEF Kept
    <3> QED
      BY <3>1, <3>2, <3>3
  <2> QED
    BY <1>7, <2>3, <2>4, <2>5 DEF OwnAt
<1> QED
  BY <1>8, <1>9

(* The entry of a block that is freed is dropped. *)
LEMMA OwnForget ==
  ASSUME NEW k, NEW r, NEW x, NEW h, NEW p, NEW s, NEW q,
         NEW a \in Addr, NEW t \in Thread, OwnAt(k, r, h, p, q, a), p[t] = <<"forget", a>>,
         s[t] = <<"direct", a>>, \A u \in Thread \ {t} : s[u] = p[u]
  PROVE  OwnAt(k, x, h, s, q, a)
<1>1. FreeingIn(p, t, a) /\ FreeingIn(s, t, a)
  BY DEF FreeingIn
<1>2. \A u \in Thread : h[u][a] = 0 /\ (u # t => p[u][2] # a)
  BY <1>1 DEF OwnAt, Access
<1>3. \A u \in Thread : FreeingIn(s, u, a) => u = t
  BY <1>2 DEF FreeingIn
<1>4. Access(k, h, s, a)
  BY <1>2, <1>3 DEF OwnAt, Access
<1>5. Counts(k, x, h, s, q, a)
  <2>1. ReleasingOf(s, a) = ReleasingOf(p, a)
    BY DEF ReleasingOf
  <2> QED
    BY <1>1, <2>1 DEF OwnAt, Counts
<1>6. Unshared(h, s, q, a) /\ Kept(k, h, s, a) /\ Absent(h, s, q, a)
  BY DEF OwnAt, Unshared, Kept, Absent
<1> QED
  BY <1>4, <1>5, <1>6 DEF OwnAt

(* rt_free_direct: the block is nobody's. *)
LEMMA OwnFree ==
  ASSUME NEW k, NEW l, NEW r, NEW h, NEW p, NEW s, NEW q,
         NEW a \in Addr, NEW t \in Thread, OwnAt(k, r, h, p, q, a), p[t] = <<"direct", a>>, l # "heap",
         s[t] = Idle, \A u \in Thread \ {t} : s[u] = p[u]
  PROVE  OwnAt(l, r, h, s, q, a)
<1>1. FreeingIn(p, t, a)
  BY DEF FreeingIn
<1>2. s[t][2] # a
  BY MemoryAssumption DEF Idle, None
<1>3. \A u \in Thread : h[u][a] = 0 /\ s[u][2] # a
  BY <1>1, <1>2 DEF OwnAt, Access
<1>4. Access(l, h, s, a)
  BY <1>3 DEF Access, FreeingIn
<1>5. Counts(l, r, h, s, q, a)
  <2>1. ReleasingOf(s, a) = {}
    BY <1>3 DEF ReleasingOf
  <2> QED
    BY <2>1, FS_EmptySet DEF OwnAt, Counts
<1>6. Unshared(h, s, q, a) /\ Kept(l, h, s, a) /\ Absent(h, s, q, a)
  BY <1>3 DEF Unshared, Kept, Absent
<1> QED
  BY <1>4, <1>5, <1>6 DEF OwnAt

(* rt_realloc: the only owner leaves the block for another. *)
LEMMA OwnMoved ==
  ASSUME NEW k, NEW r, NEW h \in Tables, NEW g \in Tables, NEW p \in Places, NEW s \in Places,
         NEW q, NEW a \in Addr, NEW t \in Thread, OwnAt(k, r, h, p, q, a), t \in q.acting,
         h[t][a] = 1, Cardinality(ClaimsOf(h, a)) = 1, \A u \in Thread : p[u][2] # a,
         g[t][a] = 0, \A u \in Thread \ {t} : g[u][a] = h[u][a],
         s[t] = <<"forget", a>>, \A u \in Thread \ {t} : s[u] = p[u]
  PROVE  OwnAt(k, r, g, s, q, a)
<1>1. k = "heap"
  BY DEF OwnAt, Access
<1>2. \A u \in Thread : g[u][a] = 0
  BY ClaimsOne DEF OwnAt, Counts
<1>3. \A u \in Thread \ {t} : s[u][2] # a
  OBVIOUS
<1>4. FreeingIn(s, t, a) /\ \A u \in Thread : FreeingIn(s, u, a) => u = t
  BY <1>3 DEF FreeingIn
<1>5. Access(k, g, s, a)
  BY <1>1, <1>2, <1>3, <1>4 DEF Access
<1>6. Counts(k, r, g, s, q, a)
  <2>1. ReleasingOf(s, a) = {}
    BY <1>3 DEF ReleasingOf
  <2>2. ClaimsOf(g, a) = {}
    BY <1>2, ClaimsNone
  <2> QED
    BY <1>4, <2>1, <2>2, FS_EmptySet DEF Counts
<1>7. Unshared(g, s, q, a)
  BY <1>2, <1>3 DEF Unshared
<1>8. Kept(k, g, s, a) /\ Absent(g, s, q, a)
  BY <1>2, <1>3 DEF Kept, Absent
<1> QED
  BY <1>5, <1>6, <1>7, <1>8 DEF OwnAt

-----------------------------------------------------------------------------
(* The caches *)

Caches == [pos : [Range(PosSlot) -> Addr \cup {None}], neg : [Range(NegSlot) -> Addr \cup {None}]]

(* Storing an address drops the negative entry for it and adds no other;   *)
(* what is forgotten stands in neither cache.                              *)
LEMMA CacheStores ==
  ASSUME NEW c \in Caches, NEW a \in Addr
  PROVE  /\ StorePos(c, a) \in Caches
         /\ \A b \in Addr : /\ NegHit(StorePos(c, a), b) => NegHit(c, b) /\ b # a
                            /\ PosHit(StorePos(c, a), b) => PosHit(c, b) \/ b = a
         /\ StoreNeg(c, a) \in Caches
         /\ \A b \in Addr : /\ NegHit(StoreNeg(c, a), b) => NegHit(c, b) \/ b = a
                            /\ PosHit(StoreNeg(c, a), b) => PosHit(c, b)
         /\ Forget(c, a) \in Caches
         /\ \A b \in Addr : /\ NegHit(Forget(c, a), b) => NegHit(c, b) /\ b # a
                            /\ PosHit(Forget(c, a), b) => PosHit(c, b) /\ b # a
<1>1. \A b \in Addr : PosSlot[b] \in Range(PosSlot) /\ NegSlot[b] \in Range(NegSlot)
  BY MemoryAssumption DEF Range
<1>2. /\ c.pos \in [Range(PosSlot) -> Addr \cup {None}] /\ c.neg \in [Range(NegSlot) -> Addr \cup {None}]
      /\ \A b \in Addr : b # None
  BY MemoryAssumption DEF Caches, None
<1> DEFINE P(x) == [c.pos EXCEPT ![PosSlot[a]] = x]
           N(x) == [c.neg EXCEPT ![NegSlot[a]] = x]
<1>3. \A x \in Addr \cup {None} :
        /\ P(x) \in [Range(PosSlot) -> Addr \cup {None}] /\ N(x) \in [Range(NegSlot) -> Addr \cup {None}]
        /\ \A b \in Addr : /\ P(x)[PosSlot[b]] = IF PosSlot[b] = PosSlot[a] THEN x ELSE c.pos[PosSlot[b]]
                           /\ N(x)[NegSlot[b]] = IF NegSlot[b] = NegSlot[a] THEN x ELSE c.neg[NegSlot[b]]
  BY <1>1, <1>2
<1>4. /\ StorePos(c, a) = [pos |-> P(a), neg |-> N(None)]
      /\ StoreNeg(c, a) = [pos |-> c.pos, neg |-> N(a)]
      /\ Forget(c, a) = [pos |-> P(None), neg |-> N(None)]
  BY DEF StorePos, StoreNeg, Forget, Caches
<1> HIDE DEF P, N
<1> QED
  BY <1>2, <1>3, <1>4 DEF PosHit, NegHit, Caches

(* A question leaves what the magic word answers. *)
LEMMA AskedStores ==
  ASSUME NEW c \in Caches, NEW a \in Addr
  PROVE  /\ Asked(c, a) \in Caches
         /\ \A b \in Addr : /\ NegHit(Asked(c, a), b) => NegHit(c, b) \/ (b = a /\ ~magic[a])
                            /\ PosHit(Asked(c, a), b) => PosHit(c, b) \/ (b = a /\ magic[a])
BY CacheStores DEF Asked

-----------------------------------------------------------------------------
(* The pools: k is what the addresses are, pl the pools of the threads *)

PoolTables == [Thread -> [1..Pools -> Seq(Addr)]]

Listed(k, pl) ==
  \A a \in Addr : k[a] = "pool" <=>
    \E t \in Thread, c \in 1..Pools : \E n \in DOMAIN pl[t][c] : pl[t][c][n] = a

Once(pl) ==
  \A t, u \in Thread, c, d \in 1..Pools :
    \A n \in DOMAIN pl[t][c], m \in DOMAIN pl[u][d] : pl[t][c][n] = pl[u][d][m] => t = u /\ c = d /\ n = m

Fitting(pl, rm, mg) ==
  \A t \in Thread, c \in 1..Pools : \A n \in DOMAIN pl[t][c] : rm[pl[t][c][n]] = c /\ ~mg[pl[t][c][n]]

PoolsFit(k, pl, rm, mg) == Listed(k, pl) /\ Once(pl) /\ Fitting(pl, rm, mg)

(* po is pl but for one pool, which lost its first address or got h. *)
Apart(pl, po, t, c) == \A u \in Thread, d \in 1..Pools : (u # t \/ d # c) => po[u][d] = pl[u][d]
Popped(pl, po, t, c, h) ==
  po \in PoolTables /\ pl[t][c] # <<>> /\ h = Head(pl[t][c]) /\ po[t][c] = Tail(pl[t][c]) /\ Apart(pl, po, t, c)
Pushed(pl, po, t, c, h) == po \in PoolTables /\ po[t][c] = <<h>> \o pl[t][c] /\ Apart(pl, po, t, c)

(* A pool is a list of addresses that may lose its first or get another. *)
LEMMA PoolIs ==
  ASSUME NEW pl \in PoolTables, NEW t \in Thread, NEW c \in 1..Pools
  PROVE  /\ pl[t][c] \in Seq(Addr) /\ Len(pl[t][c]) \in Nat /\ DOMAIN pl[t][c] = 1..Len(pl[t][c])
         /\ \A n \in DOMAIN pl[t][c] : pl[t][c][n] \in Addr
<1>1. pl[t] \in [1..Pools -> Seq(Addr)]
  BY Zenon DEF PoolTables
<1>2. pl[t][c] \in Seq(Addr)
  BY <1>1, Zenon
<1> QED
  BY <1>2

LEMMA PoolTail ==
  ASSUME NEW pl \in PoolTables, NEW t \in Thread, NEW c \in 1..Pools, pl[t][c] # <<>>,
         NEW po, po = [pl EXCEPT ![t][c] = Tail(@)]
  PROVE  Popped(pl, po, t, c, Head(pl[t][c]))
<1> DEFINE C == 1..Pools
<1>1. pl \in [Thread -> [C -> Seq(Addr)]] /\ c \in C
  BY DEF PoolTables
<1>2. Tail(pl[t][c]) \in Seq(Addr)
  BY PoolIs, HeadTailProperties
<1> HIDE DEF C
<1>3. /\ po \in [Thread -> [C -> Seq(Addr)]] /\ po[t][c] = Tail(pl[t][c])
      /\ \A u \in Thread, d \in C : (u # t \/ d # c) => po[u][d] = pl[u][d]
  BY <1>1, <1>2
<1> QED
  BY <1>3 DEF C, PoolTables, Popped, Apart

LEMMA PoolCons ==
  ASSUME NEW pl \in PoolTables, NEW t \in Thread, NEW c \in 1..Pools, NEW h \in Addr,
         NEW po, po = [pl EXCEPT ![t][c] = <<h>> \o @]
  PROVE  Pushed(pl, po, t, c, h)
<1> DEFINE C == 1..Pools
<1>1. pl \in [Thread -> [C -> Seq(Addr)]] /\ c \in C
  BY DEF PoolTables
<1>2. <<h>> \o pl[t][c] \in Seq(Addr)
  BY PoolIs
<1> HIDE DEF C
<1>3. /\ po \in [Thread -> [C -> Seq(Addr)]] /\ po[t][c] = <<h>> \o pl[t][c]
      /\ \A u \in Thread, d \in C : (u # t \/ d # c) => po[u][d] = pl[u][d]
  BY <1>1, <1>2
<1> QED
  BY <1>3 DEF C, PoolTables, Pushed, Apart

(* What is not in a pool and does not enter one may change. *)
LEMMA PoolsSame ==
  ASSUME NEW k, NEW l, NEW pl \in PoolTables, NEW rm, NEW rn, NEW mg, NEW mh, PoolsFit(k, pl, rm, mg),
         \A a \in Addr : l[a] = "pool" <=> k[a] = "pool",
         \A a \in Addr : k[a] = "pool" => rn[a] = rm[a] /\ mh[a] = mg[a]
  PROVE  PoolsFit(l, pl, rn, mh)
<1>1. \A t \in Thread, c \in 1..Pools : \A n \in DOMAIN pl[t][c] : pl[t][c][n] \in Addr
  BY PoolIs
<1>2. Listed(l, pl)
  BY DEF PoolsFit, Listed
<1>3. Fitting(pl, rn, mh)
  BY <1>1 DEF PoolsFit, Listed, Fitting
<1> QED
  BY <1>2, <1>3 DEF PoolsFit

(* A block leaves the top of a pool. *)
LEMMA PoolsPop ==
  ASSUME NEW k, NEW l, NEW pl \in PoolTables, NEW rm, NEW mg, NEW mh, PoolsFit(k, pl, rm, mg),
         NEW t \in Thread, NEW c \in 1..Pools, NEW h, l[h] # "pool",
         \A a \in Addr \ {h} : l[a] = k[a] /\ mh[a] = mg[a],
         NEW po, Popped(pl, po, t, c, h)
  PROVE  h \in Addr /\ k[h] = "pool" /\ rm[h] = c /\ PoolsFit(l, po, rm, mh)
<1> DEFINE Was(u, d, n) == IF u = t /\ d = c THEN n + 1 ELSE n
<1>1. pl[t][c] \in Seq(Addr) /\ Len(pl[t][c]) \in Nat \ {0} /\ h = pl[t][c][1] /\ 1 \in DOMAIN pl[t][c]
  <2>1. pl[t][c] \in Seq(Addr)
    BY PoolIs
  <2> QED
    BY <2>1 DEF Popped
<1>2. h \in Addr /\ k[h] = "pool" /\ rm[h] = c
  <2>1. h \in Addr
    BY <1>1
  <2> QED
    BY <1>1, <2>1 DEF PoolsFit, Listed, Fitting
<1>3. po \in PoolTables /\ po[t][c] = Tail(pl[t][c])
      /\ \A u \in Thread, d \in 1..Pools : (u # t \/ d # c) => po[u][d] = pl[u][d]
  BY DEF Popped, Apart
<1>4. Len(Tail(pl[t][c])) = Len(pl[t][c]) - 1 /\ \A n \in 1..(Len(pl[t][c]) - 1) : Tail(pl[t][c])[n] = pl[t][c][n + 1]
  <2>1. Len(Tail(pl[t][c])) = Len(pl[t][c]) - 1
    BY <1>1, HeadTailProperties DEF Popped
  <2>2. \A n \in 1..Len(Tail(pl[t][c])) : Tail(pl[t][c])[n] = pl[t][c][n + 1]
    BY <1>1, HeadTailProperties DEF Popped
  <2> QED
    BY <2>1, <2>2
<1>5. \A u \in Thread, d \in 1..Pools : pl[u][d] \in Seq(Addr) /\ po[u][d] \in Seq(Addr)
  BY <1>3, PoolIs
<1>6. ASSUME NEW u \in Thread, NEW d \in 1..Pools, NEW n \in DOMAIN po[u][d]
      PROVE  /\ Was(u, d, n) \in DOMAIN pl[u][d] /\ po[u][d][n] = pl[u][d][Was(u, d, n)]
             /\ po[u][d][n] \in Addr /\ po[u][d][n] # h /\ n \in Nat
  <2>1. Was(u, d, n) \in DOMAIN pl[u][d] /\ po[u][d][n] = pl[u][d][Was(u, d, n)] /\ n \in Nat \ {0}
    <3>1. CASE u = t /\ d = c
      <4>1. DOMAIN po[u][d] = 1..Len(Tail(pl[t][c])) /\ DOMAIN pl[u][d] = 1..Len(pl[t][c])
        <5>1. DOMAIN po[u][d] = 1..Len(po[u][d]) /\ DOMAIN pl[u][d] = 1..Len(pl[u][d])
          BY <1>3, PoolIs, Zenon
        <5> QED
          BY <1>3, <3>1, <5>1, Zenon
      <4>2. n \in 1..(Len(pl[t][c]) - 1)
        BY <1>4, <4>1
      <4>3. n + 1 \in 1..Len(pl[t][c]) /\ n \in Nat \ {0}
        BY <1>1, <4>2
      <4>4. po[u][d][n] = pl[u][d][n + 1]
        BY <1>3, <1>4, <3>1, <4>2
      <4> QED
        BY <3>1, <4>1, <4>3, <4>4
    <3>2. CASE ~(u = t /\ d = c)
      BY <1>3, <1>5, <3>2
    <3> QED
      BY <3>1, <3>2
  <2>2. po[u][d][n] \in Addr
    BY <1>5
  <2>3. ~(u = t /\ d = c /\ Was(u, d, n) = 1)
    BY <2>1
  <2> HIDE DEF Was
  <2>4. pl[u][d][Was(u, d, n)] # pl[t][c][1]
    BY <1>1, <2>1, <2>3 DEF PoolsFit, Once
  <2> QED
    BY <1>1, <2>1, <2>2, <2>4
<1>7. Once(po)
  <2> SUFFICES ASSUME NEW u \in Thread, NEW v \in Thread, NEW d \in 1..Pools, NEW e \in 1..Pools,
                      NEW n \in DOMAIN po[u][d], NEW m \in DOMAIN po[v][e], po[u][d][n] = po[v][e][m]
               PROVE  u = v /\ d = e /\ n = m
    BY DEF Once
  <2>1. pl[u][d][Was(u, d, n)] = pl[v][e][Was(v, e, m)]
        /\ Was(u, d, n) \in DOMAIN pl[u][d] /\ Was(v, e, m) \in DOMAIN pl[v][e]
    BY <1>6
  <2>2. u = v /\ d = e /\ Was(u, d, n) = Was(v, e, m)
    <3> HIDE DEF Was
    <3> QED
      BY <2>1 DEF PoolsFit, Once
  <2>3. n \in Nat /\ m \in Nat
    BY <1>6
  <2> QED
    BY <2>2, <2>3
<1>8. Listed(l, po)
  <2> SUFFICES ASSUME NEW a \in Addr
               PROVE  l[a] = "pool" <=> \E u \in Thread, d \in 1..Pools : \E n \in DOMAIN po[u][d] : po[u][d][n] = a
    BY DEF Listed
  <2>1. CASE a = h
    BY <1>6, <2>1
  <2>2. ASSUME a # h, l[a] = "pool"
        PROVE  \E u \in Thread, d \in 1..Pools : \E n \in DOMAIN po[u][d] : po[u][d][n] = a
    <3>1. k[a] = "pool"
      BY <2>2
    <3>2. PICK u \in Thread, d \in 1..Pools : \E n \in DOMAIN pl[u][d] : pl[u][d][n] = a
      BY <3>1 DEF PoolsFit, Listed
    <3>3. PICK n \in DOMAIN pl[u][d] : pl[u][d][n] = a
      BY <3>2
    <3>4. CASE u = t /\ d = c
      <4>1. n \in 1..Len(pl[t][c]) /\ n # 1
        BY <1>1, <2>2, <3>3, <3>4
      <4>2. n - 1 \in 1..(Len(pl[t][c]) - 1) /\ (n - 1) + 1 = n
        BY <1>1, <4>1
      <4>3. po[t][c][n - 1] = a /\ n - 1 \in DOMAIN po[t][c]
        BY <1>3, <1>4, <1>5, <3>3, <3>4, <4>2
      <4> QED
        BY <4>3
    <3>5. CASE ~(u = t /\ d = c)
      BY <1>3, <3>3, <3>5
    <3> QED
      BY <3>4, <3>5
  <2>3. ASSUME a # h, NEW u \in Thread, NEW d \in 1..Pools, NEW n \in DOMAIN po[u][d], po[u][d][n] = a
        PROVE  l[a] = "pool"
    <3>1. k[a] = "pool"
      <4> HIDE DEF Was
      <4> QED
        BY <1>6, <2>3 DEF PoolsFit, Listed
    <3> QED
      BY <2>3, <3>1
  <2> QED
    BY <2>1, <2>2, <2>3
<1>9. Fitting(po, rm, mh)
  <2> SUFFICES ASSUME NEW u \in Thread, NEW d \in 1..Pools, NEW n \in DOMAIN po[u][d]
               PROVE  rm[po[u][d][n]] = d /\ ~mh[po[u][d][n]]
    BY DEF Fitting
  <2>1. rm[po[u][d][n]] = d /\ ~mg[po[u][d][n]]
    <3> HIDE DEF Was
    <3> QED
      BY <1>6 DEF PoolsFit, Fitting
  <2> QED
    BY <1>6, <2>1
<1>10. PoolsFit(l, po, rm, mh)
  BY <1>7, <1>8, <1>9 DEF PoolsFit
<1> QED
  BY <1>2, <1>3, <1>10

(* A block enters one. *)
LEMMA PoolsPush ==
  ASSUME NEW k, NEW l, NEW pl \in PoolTables, NEW rm, NEW mg, NEW mh, PoolsFit(k, pl, rm, mg),
         NEW t \in Thread, NEW c \in 1..Pools, NEW h \in Addr, k[h] # "pool", l[h] = "pool", rm[h] = c, ~mh[h],
         \A a \in Addr \ {h} : l[a] = k[a] /\ mh[a] = mg[a],
         NEW po, Pushed(pl, po, t, c, h)
  PROVE  PoolsFit(l, po, rm, mh)
<1> DEFINE At(u, d, n) == IF u = t /\ d = c THEN n + 1 ELSE n
<1>1. pl[t][c] \in Seq(Addr) /\ Len(pl[t][c]) \in Nat
  BY PoolIs
<1>2. /\ <<h>> \o pl[t][c] \in Seq(Addr) /\ Len(<<h>> \o pl[t][c]) = Len(pl[t][c]) + 1
      /\ (<<h>> \o pl[t][c])[1] = h /\ \A n \in 1..Len(pl[t][c]) : (<<h>> \o pl[t][c])[n + 1] = pl[t][c][n]
  <2>1. \A x \in Seq(Addr) :
          /\ <<h>> \o x \in Seq(Addr) /\ Len(<<h>> \o x) = Len(x) + 1
          /\ (<<h>> \o x)[1] = h /\ \A n \in 1..Len(x) : (<<h>> \o x)[n + 1] = x[n]
    OBVIOUS
  <2> QED
    BY <1>1, <2>1, Zenon
<1>3. /\ po \in PoolTables /\ po[t][c] = <<h>> \o pl[t][c]
      /\ \A u \in Thread, d \in 1..Pools : (u # t \/ d # c) => po[u][d] = pl[u][d]
  BY DEF Pushed, Apart
<1>4. \A u \in Thread, d \in 1..Pools : pl[u][d] \in Seq(Addr) /\ po[u][d] \in Seq(Addr)
  BY <1>3, PoolIs
<1>5. ASSUME NEW u \in Thread, NEW d \in 1..Pools, NEW n \in DOMAIN pl[u][d]
      PROVE  At(u, d, n) \in DOMAIN po[u][d] /\ po[u][d][At(u, d, n)] = pl[u][d][n] /\ pl[u][d][n] # h
  <2>1. pl[u][d][n] # h
    BY DEF PoolsFit, Listed
  <2>2. CASE u = t /\ d = c
    <3>1. DOMAIN po[u][d] = 1..(Len(pl[t][c]) + 1) /\ DOMAIN pl[u][d] = 1..Len(pl[t][c])
      BY <1>2, <1>3, <2>2, PoolIs
    <3>2. n \in 1..Len(pl[t][c]) /\ n + 1 \in 1..(Len(pl[t][c]) + 1)
      BY <1>1, <3>1
    <3>3. po[u][d][n + 1] = pl[u][d][n]
      BY <1>2, <1>3, <2>2, <3>2
    <3> QED
      BY <2>1, <2>2, <3>1, <3>2, <3>3
  <2>3. CASE ~(u = t /\ d = c)
    BY <1>3, <2>1, <2>3
  <2> QED
    BY <2>2, <2>3
<1>6. ASSUME NEW u \in Thread, NEW d \in 1..Pools, NEW n \in DOMAIN po[u][d]
      PROVE  \/ u = t /\ d = c /\ n = 1 /\ po[u][d][n] = h
             \/ \E m \in DOMAIN pl[u][d] : n = At(u, d, m) /\ po[u][d][n] = pl[u][d][m]
  <2>1. CASE u = t /\ d = c
    <3>1. n \in 1..(Len(pl[t][c]) + 1)
      BY <1>2, <1>3, <1>4, <2>1
    <3>2. CASE n = 1
      BY <1>2, <1>3, <2>1, <3>2
    <3>3. CASE n # 1
      <4>1. n - 1 \in 1..Len(pl[t][c]) /\ n = (n - 1) + 1
        BY <1>1, <3>1, <3>3
      <4>2. n - 1 \in DOMAIN pl[u][d] /\ n = At(u, d, n - 1) /\ po[u][d][n] = pl[u][d][n - 1]
        BY <1>1, <1>2, <1>3, <2>1, <4>1
      <4> QED
        BY <4>2
    <3> QED
      BY <3>2, <3>3
  <2>2. CASE ~(u = t /\ d = c)
    BY <1>3, <2>2
  <2> QED
    BY <2>1, <2>2
<1>7. po[t][c][1] = h /\ 1 \in DOMAIN po[t][c]
  BY <1>1, <1>2, <1>3, <1>4
<1> HIDE DEF At
<1>8. Once(po)
  <2> SUFFICES ASSUME NEW u \in Thread, NEW v \in Thread, NEW d \in 1..Pools, NEW e \in 1..Pools,
                      NEW n \in DOMAIN po[u][d], NEW m \in DOMAIN po[v][e], po[u][d][n] = po[v][e][m]
               PROVE  u = v /\ d = e /\ n = m
    BY DEF Once
  <2>1. CASE po[u][d][n] = h
    <3>1. u = t /\ d = c /\ n = 1
      <4>1. ASSUME NEW i \in DOMAIN pl[u][d], po[u][d][n] = pl[u][d][i] PROVE FALSE
        BY <1>5, <2>1, <4>1
      <4> QED
        BY <1>6, <4>1
    <3>2. v = t /\ e = c /\ m = 1
      <4>1. ASSUME NEW i \in DOMAIN pl[v][e], po[v][e][m] = pl[v][e][i] PROVE FALSE
        <5>1. pl[v][e][i] # h
          BY <1>5, Zenon
        <5> QED
          BY <2>1, <4>1, <5>1, Zenon
      <4> QED
        BY <1>6, <4>1
    <3> QED
      BY <3>1, <3>2
  <2>2. CASE po[u][d][n] # h
    <3>1. PICK i \in DOMAIN pl[u][d] : n = At(u, d, i) /\ po[u][d][n] = pl[u][d][i]
      BY <1>6, <2>2
    <3>2. PICK j \in DOMAIN pl[v][e] : m = At(v, e, j) /\ po[v][e][m] = pl[v][e][j]
      BY <1>6, <2>2
    <3>3. u = v /\ d = e /\ i = j
      BY <3>1, <3>2 DEF PoolsFit, Once
    <3> QED
      BY <3>1, <3>2, <3>3
  <2> QED
    BY <2>1, <2>2
<1>9. Listed(l, po)
  <2> SUFFICES ASSUME NEW a \in Addr
               PROVE  l[a] = "pool" <=> \E u \in Thread, d \in 1..Pools : \E n \in DOMAIN po[u][d] : po[u][d][n] = a
    BY DEF Listed
  <2>1. CASE a = h
    BY <1>7, <2>1
  <2>2. ASSUME a # h, l[a] = "pool"
        PROVE  \E u \in Thread, d \in 1..Pools : \E n \in DOMAIN po[u][d] : po[u][d][n] = a
    <3>1. k[a] = "pool"
      BY <2>2
    <3>2. PICK u \in Thread, d \in 1..Pools : \E n \in DOMAIN pl[u][d] : pl[u][d][n] = a
      BY <3>1 DEF PoolsFit, Listed
    <3>3. PICK n \in DOMAIN pl[u][d] : pl[u][d][n] = a
      BY <3>2
    <3> QED
      BY <1>5, <3>3
  <2>3. ASSUME a # h, NEW u \in Thread, NEW d \in 1..Pools, NEW n \in DOMAIN po[u][d], po[u][d][n] = a
        PROVE  l[a] = "pool"
    <3>1. k[a] = "pool"
      BY <1>6, <2>3 DEF PoolsFit, Listed
    <3> QED
      BY <2>3, <3>1
  <2> QED
    BY <2>1, <2>2, <2>3
<1>10. Fitting(po, rm, mh)
  <2> SUFFICES ASSUME NEW u \in Thread, NEW d \in 1..Pools, NEW n \in DOMAIN po[u][d]
               PROVE  rm[po[u][d][n]] = d /\ ~mh[po[u][d][n]]
    BY DEF Fitting
  <2>1. CASE u = t /\ d = c /\ n = 1 /\ po[u][d][n] = h
    BY <2>1
  <2>2. ASSUME NEW m \in DOMAIN pl[u][d], po[u][d][n] = pl[u][d][m] PROVE rm[po[u][d][n]] = d /\ ~mh[po[u][d][n]]
    <3>1. po[u][d][n] \in Addr /\ po[u][d][n] # h
      BY <1>4, <1>5, <2>2
    <3> QED
      BY <2>2, <3>1 DEF PoolsFit, Fitting
  <2> QED
    BY <1>6, <2>1, <2>2
<1>11. PoolsFit(l, po, rm, mh)
  BY <1>8, <1>9, <1>10 DEF PoolsFit
<1> QED
  BY <1>3, <1>11

-----------------------------------------------------------------------------
(* The inductive invariant *)

TypeInv ==
  /\ prog \in Programs /\ kind \in [Addr -> Kinds] /\ magic \in [Addr -> BOOLEAN]
  /\ class \in [Addr -> Class] /\ room \in [Addr -> Class]
  /\ pool \in PoolTables /\ cache \in [Thread -> Caches]
  /\ rc \in [Addr -> Nat] /\ held \in Tables /\ pc \in Places

Owned == \A a \in Addr : OwnAt(kind[a], rc[a], held, pc, prog, a)

Pooled == PoolsFit(kind, pool, room, magic)

(* The header of a block in use is right, and gives a class asked for. *)
HeapExact == \A a \in Addr : kind[a] = "heap" => magic[a] /\ class[a] = room[a] /\ class[a] \in prog.classes

(* Careful programs leave no raw memory and no negative entry at all; one  *)
(* thread's caches, with no magic word left behind, tell the truth.        *)
CacheFits(q, c, k, m) ==
  /\ Careful(q) => \A a \in Addr : k[a] # "raw" /\ \A t \in Thread : ~NegHit(c[t], a)
  /\ ~Careful(q) => Single(q) /\ \A t \in q.acting, a \in Addr :
       /\ PosHit(c[t], a) \/ m[a] => k[a] = "heap"
       /\ NegHit(c[t], a) => k[a] # "heap"

IInv == TypeInv /\ Owned /\ Pooled /\ HeapExact /\ CacheFits(prog, cache, kind, magic)

(* The threads of the program *)
LEMMA ActingIs ==
  ASSUME TypeInv, NEW t \in prog.acting
  PROVE  t \in Thread /\ cache[t] \in Caches
BY MemoryAssumption DEF TypeInv

(* A thread of the program takes a block in use for one. *)
LEMMA KnownHeap ==
  ASSUME IInv, NEW t \in prog.acting, NEW a \in Addr, kind[a] = "heap"
  PROVE  IsHeapPtr(t, a) /\ magic[a]
<1>1. t \in Thread /\ magic[a]
  BY ActingIs DEF IInv, HeapExact
<1>2. ~NegHit(cache[t], a)
  BY <1>1 DEF IInv, CacheFits
<1> QED
  BY <1>1, <1>2 DEF IsHeapPtr

(* A thread that is alone takes nothing else for one. *)
LEMMA KnownOther ==
  ASSUME IInv, ~Careful(prog), NEW t \in prog.acting, NEW a \in Addr, kind[a] # "heap"
  PROVE  ~IsHeapPtr(t, a)
BY DEF IInv, CacheFits, IsHeapPtr

(* Ownership after a step that is about one address *)
LEMMA OwnedAfter ==
  ASSUME TypeInv, TypeInv', Owned, prog' = prog, NEW a \in Addr,
         OwnAt(kind'[a], rc'[a], held', pc', prog, a),
         \A b \in Addr \ {a} : kind'[b] = kind[b] /\ rc'[b] = rc[b],
         \A b \in Addr \ {a} : \A u \in Thread : held'[u][b] = held[u][b],
         \A u \in Thread : pc'[u] = pc[u] \/ (pc[u][2] \in {a, None} /\ pc'[u][2] \in {a, None})
  PROVE  Owned'
<1> SUFFICES ASSUME NEW b \in Addr PROVE OwnAt(kind'[b], rc'[b], held', pc', prog, b)
  BY DEF Owned
<1>1. CASE b = a
  BY <1>1
<1>2. CASE b # a
  <2>1. OwnAt(kind[b], rc[b], held, pc, prog, b)
    BY DEF Owned
  <2>2. held \in Tables /\ held' \in Tables /\ pc \in Places /\ pc' \in Places
    BY DEF TypeInv
  <2>3. \A u \in Thread : pc'[u] = pc[u] \/ (pc[u][2] # b /\ pc'[u][2] # b)
    BY <1>2, MemoryAssumption DEF None
  <2>4. OwnAt(kind[b], rc[b], held', pc', prog, b)
    BY <1>2, <2>1, <2>2, <2>3, OwnElsewhere
  <2> QED
    BY <1>2, <2>4
<1> QED
  BY <1>1, <1>2

(* The caches after a step of t *)
LEMMA CachesAfter ==
  ASSUME TypeInv, CacheFits(prog, cache, kind, magic), prog' = prog, NEW t \in prog.acting, NEW c \in Caches,
         cache' = [cache EXCEPT ![t] = c],
         Careful(prog) => \A b \in Addr : /\ NegHit(c, b) => NegHit(cache[t], b)
                                          /\ kind'[b] = "raw" => kind[b] = "raw",
         ~Careful(prog) => \A b \in Addr : /\ PosHit(c, b) \/ magic'[b] => kind'[b] = "heap"
                                           /\ NegHit(c, b) => kind'[b] # "heap"
  PROVE  cache' \in [Thread -> Caches] /\ CacheFits(prog, cache, kind, magic)'
<1>1. t \in Thread /\ cache \in [Thread -> Caches]
  BY ActingIs DEF TypeInv
<1>2. cache' \in [Thread -> Caches] /\ cache'[t] = c /\ \A u \in Thread \ {t} : cache'[u] = cache[u]
  BY <1>1
<1>3. CASE Careful(prog)
  <2>1. \A b \in Addr : kind[b] # "raw" /\ \A u \in Thread : ~NegHit(cache[u], b)
    BY <1>3 DEF CacheFits
  <2> QED
    BY <1>1, <1>2, <1>3, <2>1 DEF CacheFits
<1>4. CASE ~Careful(prog)
  <2>1. Single(prog)
    BY <1>4 DEF CacheFits
  <2>2. prog.acting = {t}
    BY <2>1 DEF Single
  <2>3. \A u \in prog.acting, b \in Addr : /\ PosHit(cache'[u], b) \/ magic'[b] => kind'[b] = "heap"
                                           /\ NegHit(cache'[u], b) => kind'[b] # "heap"
    BY <1>2, <1>4, <2>2
  <2>4. CacheFits(prog, cache', kind', magic')
    BY <1>4, <2>1, <2>3 DEF CacheFits
  <2> QED
    BY <1>2, <2>4
<1> QED
  BY <1>3, <1>4

-----------------------------------------------------------------------------
(* The steps *)

(* rt_malloc takes memory that was nobody's. *)
LEMMA NewBlockIs ==
  ASSUME IInv, NEW t \in prog.acting, NEW k \in prog.classes, NEW a \in Addr, NewBlock(t, k, a), prog' = prog
  PROVE  /\ kind[a] # "heap" /\ kind'[a] = "heap" /\ magic'[a]
         /\ \A b \in Addr \ {a} : kind'[b] = kind[b] /\ magic'[b] = magic[b] /\ rc'[b] = rc[b]
         /\ prog.counted => rc'[a] = 1
         /\ kind' \in [Addr -> Kinds] /\ magic' \in [Addr -> BOOLEAN] /\ class' \in [Addr -> Class]
         /\ room' \in [Addr -> Class] /\ pool' \in PoolTables /\ rc' \in [Addr -> Nat]
         /\ Pooled' /\ HeapExact'
<1>1. TypeInv /\ t \in Thread /\ k \in Class
  BY ActingIs, MemoryAssumption DEF IInv, TypeInv, Class
<1>2. /\ kind' = [kind EXCEPT ![a] = "heap"] /\ magic' = [magic EXCEPT ![a] = TRUE]
      /\ class' = [class EXCEPT ![a] = k] /\ rc' = Adopt(rc, a) /\ Block(t, k, a)
  BY DEF NewBlock
<1>3. /\ kind'[a] = "heap" /\ magic'[a] /\ class'[a] = k
      /\ \A b \in Addr \ {a} : kind'[b] = kind[b] /\ magic'[b] = magic[b] /\ class'[b] = class[b]
      /\ kind' \in [Addr -> Kinds] /\ magic' \in [Addr -> BOOLEAN] /\ class' \in [Addr -> Class]
  BY <1>1, <1>2 DEF TypeInv, Kinds
<1>4. /\ rc' \in [Addr -> Nat]
      /\ prog.counted => rc'[a] = 1
      /\ \A b \in Addr \ {a} : rc'[b] = rc[b]
  BY <1>1, <1>2 DEF TypeInv, Adopt
<1>5. /\ kind[a] # "heap" /\ room' \in [Addr -> Class] /\ pool' \in PoolTables
      /\ room'[a] = k /\ \A b \in Addr \ {a} : room'[b] = room[b]
      /\ Pooled'
  <2>1. CASE k <= Pools /\ pool[t][k] # <<>>
    <3>1. a = Head(pool[t][k]) /\ pool' = [pool EXCEPT ![t][k] = Tail(@)] /\ room' = room
      BY <1>2, <2>1 DEF Block
    <3>2. k \in 1..Pools
      BY <1>1, <2>1, MemoryAssumption DEF Class
    <3>3. pool \in PoolTables /\ PoolsFit(kind, pool, room, magic) /\ kind'[a] # "pool"
      BY <1>1, <1>3 DEF IInv, Pooled, TypeInv
    <3>4. pool' \in PoolTables /\ kind[a] = "pool" /\ room[a] = k /\ PoolsFit(kind', pool', room, magic')
      <4>1. t \in Thread /\ pool \in PoolTables /\ pool[t][k] # <<>>
        BY <1>1, <2>1, <3>3
      <4>2. Popped(pool, pool', t, k, a)
        BY <3>1, <3>2, <4>1, PoolTail
      <4>3. \A b \in Addr \ {a} : kind'[b] = kind[b] /\ magic'[b] = magic[b]
        BY <1>3
      <4>4. kind[a] = "pool" /\ room[a] = k /\ PoolsFit(kind', pool', room, magic')
        BY <3>2, <3>3, <4>1, <4>2, <4>3, PoolsPop
      <4> QED
        BY <4>2, <4>4 DEF Popped
    <3>5. Pooled'
      BY <3>1, <3>4 DEF Pooled
    <3> QED
      BY <1>1, <3>1, <3>4, <3>5 DEF TypeInv
  <2>2. CASE ~(k <= Pools /\ pool[t][k] # <<>>)
    <3>1. kind[a] = "sys" /\ room' = [room EXCEPT ![a] = k] /\ pool' = pool
      BY <1>2, <2>2 DEF Block
    <3>2. room' \in [Addr -> Class] /\ room'[a] = k /\ \A b \in Addr \ {a} : room'[b] = room[b]
      BY <1>1, <3>1 DEF TypeInv
    <3>3. \A b \in Addr : kind'[b] = "pool" <=> kind[b] = "pool"
      BY <1>3, <3>1
    <3>4. \A b \in Addr : kind[b] = "pool" => room'[b] = room[b] /\ magic'[b] = magic[b]
      BY <1>3, <3>1, <3>2
    <3>5. pool \in PoolTables /\ PoolsFit(kind, pool, room, magic)
      BY <1>1 DEF IInv, Pooled, TypeInv
    <3>6. PoolsFit(kind', pool, room', magic')
      BY <3>3, <3>4, <3>5, PoolsSame
    <3>7. Pooled'
      BY <3>1, <3>6 DEF Pooled
    <3> QED
      BY <3>1, <3>2, <3>5, <3>7
  <2> QED
    BY <2>1, <2>2
<1>6. HeapExact'
  <2> SUFFICES ASSUME NEW b \in Addr, kind'[b] = "heap"
               PROVE  magic'[b] /\ class'[b] = room'[b] /\ class'[b] \in prog.classes
    BY DEF HeapExact
  <2>1. CASE b = a
    BY <1>3, <1>5, <2>1
  <2>2. CASE b # a
    BY <1>3, <1>5, <2>2 DEF IInv, HeapExact
  <2> QED
    BY <2>1, <2>2
<1> QED
  BY <1>3, <1>4, <1>5, <1>6

(* rt_malloc *)
LEMMA MallocKeeps ==
  ASSUME IInv, NEW t \in prog.acting, Malloc(t), prog' = prog
  PROVE  IInv'
<1>1. PICK k \in prog.classes, a \in Addr : /\ NewBlock(t, k, a)
                                            /\ cache' = [cache EXCEPT ![t] = StorePos(@, a)]
                                            /\ held' = [held EXCEPT ![t][a] = 1]
  BY DEF Malloc
<1>2. TypeInv /\ Owned /\ t \in Thread /\ cache[t] \in Caches /\ pc' = pc
  BY ActingIs DEF IInv, Malloc
<1>3. /\ kind[a] # "heap" /\ kind'[a] = "heap" /\ magic'[a]
      /\ \A b \in Addr \ {a} : kind'[b] = kind[b] /\ magic'[b] = magic[b] /\ rc'[b] = rc[b]
      /\ prog.counted => rc'[a] = 1
      /\ kind' \in [Addr -> Kinds] /\ magic' \in [Addr -> BOOLEAN] /\ class' \in [Addr -> Class]
      /\ room' \in [Addr -> Class] /\ pool' \in PoolTables /\ rc' \in [Addr -> Nat]
      /\ Pooled' /\ HeapExact'
  BY <1>1, NewBlockIs
<1>4. /\ held \in Tables /\ held' \in Tables /\ held'[t][a] = 1
      /\ \A u \in Thread \ {t} : held'[u][a] = held[u][a]
      /\ \A b \in Addr \ {a} : \A u \in Thread : held'[u][b] = held[u][b]
  BY <1>1, <1>2 DEF TypeInv, Tables
<1>5. cache' \in [Thread -> Caches] /\ CacheFits(prog, cache, kind, magic)'
  <2> DEFINE c == StorePos(cache[t], a)
  <2>1. /\ c \in Caches
        /\ \A b \in Addr : /\ NegHit(c, b) => NegHit(cache[t], b) /\ b # a
                           /\ PosHit(c, b) => PosHit(cache[t], b) \/ b = a
    BY <1>2, CacheStores
  <2>2. cache' = [cache EXCEPT ![t] = c]
    BY <1>1
  <2> HIDE DEF c
  <2>3. ASSUME ~Careful(prog), NEW b \in Addr
        PROVE  /\ PosHit(c, b) \/ magic'[b] => kind'[b] = "heap"
               /\ NegHit(c, b) => kind'[b] # "heap"
    BY <1>3, <2>1, <2>3 DEF IInv, CacheFits
  <2>4. \A b \in Addr : kind'[b] = "raw" => kind[b] = "raw"
    BY <1>3
  <2> QED
    BY <1>2, <2>1, <2>2, <2>3, <2>4, CachesAfter DEF IInv
<1>6. TypeInv'
  BY <1>2, <1>3, <1>4, <1>5 DEF TypeInv
<1>7. OwnAt(kind'[a], rc'[a], held', pc', prog, a)
  <2>1. OwnAt(kind[a], rc[a], held, pc, prog, a) /\ rc[a] \in Nat /\ pc \in Places
    BY <1>2 DEF Owned, TypeInv
  <2>2. OwnAt("heap", rc'[a], held', pc, prog, a)
    BY <1>2, <1>3, <1>4, <2>1, OwnNew
  <2> QED
    BY <1>2, <1>3, <2>2
<1>8. Owned'
  BY <1>2, <1>3, <1>4, <1>6, <1>7, OwnedAfter
<1> QED
  BY <1>3, <1>5, <1>6, <1>8 DEF IInv

(* Blocks in use and in the pools are the same. *)
LEMMA BlocksSame ==
  ASSUME IInv, prog' = prog, UNCHANGED <<magic, class, room, pool>>,
         \A a \in Addr : kind'[a] = kind[a] \/ (kind[a] \notin {"heap", "pool"} /\ kind'[a] \notin {"heap", "pool"})
  PROVE  Pooled' /\ HeapExact'
<1>1. \A a \in Addr : (kind'[a] = "pool" <=> kind[a] = "pool") /\ (kind'[a] = "heap" <=> kind[a] = "heap")
  OBVIOUS
<1>2. PoolsFit(kind', pool, room, magic)
  <2>1. pool \in PoolTables /\ PoolsFit(kind, pool, room, magic)
    BY DEF IInv, TypeInv, Pooled
  <2> QED
    BY <1>1, <2>1, PoolsSame
<1> QED
  BY <1>1, <1>2 DEF IInv, Pooled, HeapExact

(* rt_malloc_raw *)
LEMMA MallocRawKeeps ==
  ASSUME IInv, NEW t \in prog.acting, MallocRaw(t), prog' = prog
  PROVE  IInv'
<1>1. PICK a \in Addr : /\ kind[a] = "sys" /\ kind' = [kind EXCEPT ![a] = "raw"]
                        /\ cache' = [cache EXCEPT ![t] = StoreNeg(@, a)]
  BY DEF MallocRaw
<1>2. TypeInv /\ Owned /\ cache[t] \in Caches /\ UNCHANGED <<magic, class, room, pool, rc, held, pc>> /\ ~Careful(prog)
  BY ActingIs DEF IInv, MallocRaw, Careful
<1>3. kind' \in [Addr -> Kinds] /\ kind'[a] = "raw" /\ \A b \in Addr \ {a} : kind'[b] = kind[b]
  BY <1>1, <1>2 DEF TypeInv, Kinds
<1>4. cache' \in [Thread -> Caches] /\ CacheFits(prog, cache, kind, magic)'
  <2> DEFINE c == StoreNeg(cache[t], a)
  <2>1. /\ c \in Caches
        /\ \A b \in Addr : (NegHit(c, b) => NegHit(cache[t], b) \/ b = a) /\ (PosHit(c, b) => PosHit(cache[t], b))
    BY <1>2, CacheStores
  <2>2. cache' = [cache EXCEPT ![t] = c]
    BY <1>1
  <2> HIDE DEF c
  <2>3. ASSUME NEW b \in Addr
        PROVE  /\ PosHit(c, b) \/ magic'[b] => kind'[b] = "heap"
               /\ NegHit(c, b) => kind'[b] # "heap"
    BY <1>1, <1>2, <1>3, <2>1 DEF IInv, CacheFits
  <2> QED
    BY <1>2, <2>1, <2>2, <2>3, CachesAfter DEF IInv
<1>5. TypeInv'
  BY <1>2, <1>3, <1>4 DEF TypeInv
<1>6. Pooled' /\ HeapExact'
  BY <1>1, <1>2, <1>3, BlocksSame
<1>7. OwnAt(kind'[a], rc'[a], held', pc', prog, a)
  <2>1. OwnAt(kind[a], rc[a], held, pc, prog, a) /\ kind[a] # "heap" /\ kind'[a] # "heap"
    BY <1>1, <1>2, <1>3 DEF Owned
  <2>2. OwnAt(kind'[a], rc[a], held, pc, prog, a)
    BY <2>1, OwnOther
  <2> QED
    BY <1>2, <2>2
<1>8. Owned'
  BY <1>2, <1>3, <1>5, <1>7, OwnedAfter
<1> QED
  BY <1>4, <1>5, <1>6, <1>8 DEF IInv

(* rt_free_raw *)
LEMMA FreeRawKeeps ==
  ASSUME IInv, NEW t \in prog.acting, FreeRaw(t), prog' = prog
  PROVE  IInv'
<1>1. PICK a \in Addr : /\ kind[a] = "raw" /\ kind' = [kind EXCEPT ![a] = "sys"]
                        /\ cache' = [cache EXCEPT ![t] = Forget(@, a)]
  BY DEF FreeRaw
<1>2. TypeInv /\ Owned /\ cache[t] \in Caches /\ UNCHANGED <<magic, class, room, pool, rc, held, pc>> /\ ~Careful(prog)
  BY ActingIs DEF IInv, FreeRaw, Careful
<1>3. kind' \in [Addr -> Kinds] /\ kind'[a] = "sys" /\ \A b \in Addr \ {a} : kind'[b] = kind[b]
  BY <1>1, <1>2 DEF TypeInv, Kinds
<1>4. cache' \in [Thread -> Caches] /\ CacheFits(prog, cache, kind, magic)'
  <2> DEFINE c == Forget(cache[t], a)
  <2>1. /\ c \in Caches
        /\ \A b \in Addr : (NegHit(c, b) => NegHit(cache[t], b) /\ b # a) /\ (PosHit(c, b) => PosHit(cache[t], b) /\ b # a)
    BY <1>2, CacheStores
  <2>2. cache' = [cache EXCEPT ![t] = c]
    BY <1>1
  <2> HIDE DEF c
  <2>3. ASSUME NEW b \in Addr
        PROVE  /\ PosHit(c, b) \/ magic'[b] => kind'[b] = "heap"
               /\ NegHit(c, b) => kind'[b] # "heap"
    BY <1>1, <1>2, <1>3, <2>1 DEF IInv, CacheFits
  <2> QED
    BY <1>2, <2>1, <2>2, <2>3, CachesAfter DEF IInv
<1>5. TypeInv'
  BY <1>2, <1>3, <1>4 DEF TypeInv
<1>6. Pooled' /\ HeapExact'
  BY <1>1, <1>2, <1>3, BlocksSame
<1>7. OwnAt(kind'[a], rc'[a], held', pc', prog, a)
  <2>1. OwnAt(kind[a], rc[a], held, pc, prog, a) /\ kind[a] # "heap" /\ kind'[a] # "heap"
    BY <1>1, <1>2, <1>3 DEF Owned
  <2>2. OwnAt(kind'[a], rc[a], held, pc, prog, a)
    BY <2>1, OwnOther
  <2> QED
    BY <1>2, <2>2
<1>8. Owned'
  BY <1>2, <1>3, <1>5, <1>7, OwnedAfter
<1> QED
  BY <1>4, <1>5, <1>6, <1>8 DEF IInv

(* The caches after a question about a block in use, or about anything by  *)
(* a thread that is alone.                                                 *)
LEMMA AskedKeeps ==
  ASSUME IInv, NEW t \in prog.acting, NEW a \in Addr, kind[a] = "heap" \/ ~Careful(prog),
         cache' = [cache EXCEPT ![t] = Asked(@, a)], UNCHANGED <<kind, magic>>, prog' = prog
  PROVE  cache' \in [Thread -> Caches] /\ CacheFits(prog, cache, kind, magic)'
<1> DEFINE c == Asked(cache[t], a)
<1>1. cache[t] \in Caches /\ TypeInv
  BY ActingIs DEF IInv
<1>2. /\ c \in Caches
      /\ \A b \in Addr : /\ NegHit(c, b) => NegHit(cache[t], b) \/ (b = a /\ ~magic[a])
                         /\ PosHit(c, b) => PosHit(cache[t], b) \/ (b = a /\ magic[a])
  BY <1>1, AskedStores
<1>3. cache' = [cache EXCEPT ![t] = c]
  OBVIOUS
<1>4. \A b \in Addr : kind[b] = "heap" => magic[b]
  BY DEF IInv, HeapExact
<1> HIDE DEF c
<1>5. ASSUME Careful(prog), NEW b \in Addr, NegHit(c, b) PROVE NegHit(cache[t], b)
  BY <1>2, <1>4, <1>5
<1>6. ASSUME ~Careful(prog), NEW b \in Addr
      PROVE  /\ PosHit(c, b) \/ magic'[b] => kind'[b] = "heap"
             /\ NegHit(c, b) => kind'[b] # "heap"
  <2>1. /\ PosHit(cache[t], b) \/ magic[b] => kind[b] = "heap"
        /\ NegHit(cache[t], b) => kind[b] # "heap"
    BY <1>6 DEF IInv, CacheFits
  <2> QED
    BY <1>2, <1>4, <2>1
<1> QED
  BY <1>1, <1>2, <1>3, <1>5, <1>6, CachesAfter DEF IInv

(* What is held is a block in use; what a thread is in the middle of too. *)
LEMMA OwnedIsHeap ==
  ASSUME IInv, NEW t \in Thread, NEW a \in Addr, held[t][a] > 0 \/ pc[t][2] = a
  PROVE  kind[a] = "heap"
<1>1. OwnAt(kind[a], rc[a], held, pc, prog, a) /\ held[t][a] \in Nat
  BY DEF IInv, Owned, TypeInv, Tables
<1> QED
  BY <1>1 DEF OwnAt, Access

(* A use of a value *)
LEMMA UseKeeps ==
  ASSUME IInv, NEW t \in prog.acting, Use(t), prog' = prog
  PROVE  IInv'
<1>1. PICK a \in Addr : (held[t][a] > 0 \/ kind[a] = "raw") /\ cache' = [cache EXCEPT ![t] = Asked(@, a)]
  BY DEF Use
<1>2. TypeInv /\ t \in Thread /\ UNCHANGED <<kind, magic, class, room, pool, rc, held, pc>>
  BY ActingIs DEF IInv, Use
<1>3. Pooled' /\ HeapExact'
  BY <1>2, BlocksSame
<1>4. Owned'
  BY <1>2 DEF IInv, Owned
<1>5. kind[a] = "heap" \/ ~Careful(prog)
  BY <1>1, <1>2, OwnedIsHeap DEF IInv, CacheFits
<1>6. cache' \in [Thread -> Caches] /\ CacheFits(prog, cache, kind, magic)'
  BY <1>1, <1>2, <1>5, AskedKeeps
<1>7. TypeInv'
  BY <1>2, <1>6 DEF TypeInv
<1> QED
  BY <1>3, <1>4, <1>6, <1>7 DEF IInv

(* A reference changes hands. *)
LEMMA GiveKeeps ==
  ASSUME IInv, NEW t \in prog.acting, Give(t), prog' = prog
  PROVE  IInv'
<1>1. PICK u \in prog.acting \ {t}, a \in Addr : /\ held[t][a] > 0
                                                 /\ held' = [held EXCEPT ![t][a] = @ - 1, ![u][a] = @ + 1]
  BY DEF Give
<1>2. TypeInv /\ t \in Thread /\ u \in Thread /\ UNCHANGED <<kind, magic, class, room, pool, cache, rc, pc>> /\ pc[t] = Idle
  BY ActingIs DEF IInv, Give
<1>3. held \in Tables /\ held[t][a] \in Nat /\ held[u][a] \in Nat
  BY <1>2 DEF TypeInv, Tables
<1>4. /\ held' \in Tables /\ held'[t][a] = held[t][a] - 1 /\ held'[u][a] = held[u][a] + 1
      /\ \A v \in Thread \ {t, u} : held'[v][a] = held[v][a]
      /\ \A b \in Addr \ {a} : \A v \in Thread : held'[v][b] = held[v][b]
  <2> DEFINE g == [held EXCEPT ![t][a] = @ - 1]
  <2>1. held[t][a] - 1 \in Nat
    BY <1>1, <1>3
  <2>2. /\ g \in Tables /\ g[t][a] = held[t][a] - 1
        /\ \A v \in Thread \ {t} : g[v] = held[v]
        /\ \A b \in Addr \ {a} : \A v \in Thread : g[v][b] = held[v][b]
    BY <1>2, <1>3, <2>1 DEF Tables
  <2>3. held' = [g EXCEPT ![u][a] = @ + 1]
    BY <1>1
  <2> HIDE DEF g
  <2>4. /\ held' \in Tables /\ held'[u][a] = g[u][a] + 1
        /\ \A v \in Thread \ {u} : held'[v] = g[v]
        /\ \A b \in Addr \ {a} : \A v \in Thread : held'[v][b] = g[v][b]
    BY <1>2, <2>2, <2>3 DEF Tables
  <2> QED
    BY <1>2, <2>2, <2>4
<1>5. Pooled' /\ HeapExact' /\ CacheFits(prog, cache, kind, magic)'
  BY <1>2, BlocksSame DEF IInv
<1>6. TypeInv'
  BY <1>2, <1>4 DEF TypeInv
<1>7. OwnAt(kind'[a], rc'[a], held', pc', prog, a)
  <2>1. OwnAt(kind[a], rc[a], held, pc, prog, a) /\ pc \in Places
    BY <1>2 DEF IInv, Owned, TypeInv
  <2>2. OwnAt(kind[a], rc[a], held', pc, prog, a)
    BY <1>1, <1>2, <1>3, <1>4, <2>1, OwnGive
  <2> QED
    BY <1>2, <2>2
<1>8. Owned'
  BY <1>2, <1>4, <1>6, <1>7, OwnedAfter DEF IInv
<1> QED
  BY <1>5, <1>6, <1>8 DEF IInv

(* rt_retain_owned up to the lock *)
LEMMA RetainKeeps ==
  ASSUME IInv, NEW t \in prog.acting, Retain(t), prog' = prog
  PROVE  IInv'
<1>1. PICK a \in Addr : /\ held[t][a] > 0 /\ prog.counted
                        /\ cache' = [cache EXCEPT ![t] = Asked(@, a)]
                        /\ IsHeapPtr(t, a) => pc' = [pc EXCEPT ![t] = <<"retain", a>>] /\ UNCHANGED held
  BY DEF Retain
<1>2. TypeInv /\ t \in Thread /\ UNCHANGED <<kind, magic, class, room, pool, rc>> /\ pc[t] = Idle
  BY ActingIs DEF IInv, Retain
<1>3. kind[a] = "heap"
  BY <1>1, <1>2, OwnedIsHeap
<1>4. pc' = [pc EXCEPT ![t] = <<"retain", a>>] /\ held' = held
  BY <1>1, <1>3, KnownHeap
<1>5. /\ pc \in Places /\ pc' \in Places /\ pc'[t] = <<"retain", a>> /\ \A u \in Thread \ {t} : pc'[u] = pc[u]
  BY <1>2, <1>4 DEF TypeInv, Places
<1>6. cache' \in [Thread -> Caches] /\ CacheFits(prog, cache, kind, magic)'
  BY <1>1, <1>2, <1>3, AskedKeeps
<1>7. Pooled' /\ HeapExact'
  BY <1>2, BlocksSame
<1>8. TypeInv'
  BY <1>2, <1>4, <1>5, <1>6 DEF TypeInv
<1>9. OwnAt(kind'[a], rc'[a], held', pc', prog, a)
  <2>1. OwnAt(kind[a], rc[a], held, pc, prog, a) /\ held \in Tables
    BY <1>2 DEF IInv, Owned, TypeInv
  <2>2. OwnAt(kind[a], rc[a], held, pc', prog, a)
    BY <1>1, <1>2, <1>5, <2>1, OwnRetain
  <2> QED
    BY <1>2, <1>4, <2>2
<1>10. Owned'
  <2>1. \A u \in Thread : pc'[u] = pc[u] \/ (pc[u][2] \in {a, None} /\ pc'[u][2] \in {a, None})
    BY <1>2, <1>5 DEF Idle
  <2> QED
    BY <1>2, <1>4, <1>8, <1>9, <2>1, OwnedAfter DEF IInv
<1> QED
  BY <1>6, <1>7, <1>8, <1>10 DEF IInv

(* What t is in the middle of is about an address. *)
LEMMA PlaceIs ==
  ASSUME IInv, NEW t \in Thread, NEW w, pc[t][1] = w, w # "idle"
  PROVE  pc[t][2] \in Addr /\ pc[t] = <<w, pc[t][2]>> /\ kind[pc[t][2]] = "heap"
<1>1. pc[t] # Idle /\ pc[t] \in ({"retain", "release", "forget", "direct"} \X Addr) \cup {Idle}
  BY DEF IInv, TypeInv, Places, Idle
<1>2. pc[t][2] \in Addr /\ pc[t] = <<w, pc[t][2]>>
  BY <1>1
<1> QED
  BY <1>2, OwnedIsHeap

(* rt_retain_owned under the lock *)
LEMMA RetainLockedKeeps ==
  ASSUME IInv, NEW t \in prog.acting, RetainLocked(t), prog' = prog
  PROVE  IInv'
<1>1. PICK a : a = pc[t][2]
  OBVIOUS
<1>2. TypeInv /\ t \in Thread /\ UNCHANGED <<kind, magic, class, room, pool, cache>>
  BY ActingIs DEF IInv, RetainLocked
<1>3. a \in Addr /\ pc[t] = <<"retain", a>>
  BY <1>1, <1>2, PlaceIs DEF RetainLocked
<1>4. rc' = [rc EXCEPT ![a] = @ + 1] /\ held' = [held EXCEPT ![t][a] = @ + 1] /\ pc' = [pc EXCEPT ![t] = Idle]
  BY <1>1 DEF RetainLocked, Retained
<1>5. rc' \in [Addr -> Nat] /\ rc[a] \in Nat /\ rc'[a] = rc[a] + 1 /\ \A b \in Addr \ {a} : rc'[b] = rc[b]
  BY <1>2, <1>3, <1>4 DEF TypeInv
<1>6. /\ held \in Tables /\ held' \in Tables /\ held'[t][a] = held[t][a] + 1
      /\ \A u \in Thread \ {t} : held'[u][a] = held[u][a]
      /\ \A b \in Addr \ {a} : \A u \in Thread : held'[u][b] = held[u][b]
  BY <1>2, <1>3, <1>4 DEF TypeInv, Tables
<1>7. pc \in Places /\ pc' \in Places /\ pc'[t] = Idle /\ \A u \in Thread \ {t} : pc'[u] = pc[u]
  BY <1>2, <1>4 DEF TypeInv, Places
<1>8. Pooled' /\ HeapExact' /\ CacheFits(prog, cache, kind, magic)'
  BY <1>2, BlocksSame DEF IInv
<1>9. TypeInv'
  BY <1>2, <1>5, <1>6, <1>7 DEF TypeInv
<1>10. OwnAt(kind'[a], rc'[a], held', pc', prog, a)
  <2>1. OwnAt(kind[a], rc[a], held, pc, prog, a)
    BY <1>3 DEF IInv, Owned
  <2>2. OwnAt(kind[a], rc[a] + 1, held', pc', prog, a)
    BY <1>2, <1>3, <1>5, <1>6, <1>7, <2>1, OwnRetained
  <2> QED
    BY <1>2, <1>5, <2>2
<1>11. Owned'
  <2>1. \A u \in Thread : pc'[u] = pc[u] \/ (pc[u][2] \in {a, None} /\ pc'[u][2] \in {a, None})
    BY <1>3, <1>7 DEF Idle
  <2> QED
    BY <1>2, <1>3, <1>5, <1>6, <1>9, <1>10, <2>1, OwnedAfter DEF IInv
<1> QED
  BY <1>8, <1>9, <1>11 DEF IInv

(* A thread that is alone, and idle, holds every block in use. *)
LEMMA AloneHolds ==
  ASSUME IInv, ~Careful(prog), NEW t \in prog.acting, pc[t] = Idle, NEW a \in Addr, kind[a] = "heap"
  PROVE  held[t][a] > 0
<1>1. prog.acting = {t}
  BY DEF IInv, CacheFits, Single
<1>2. OwnAt(kind[a], rc[a], held, pc, prog, a)
  BY DEF IInv, Owned
<1>3. PICK u \in Thread : held[u][a] > 0 \/ pc[u][2] = a
  BY <1>2 DEF OwnAt, Kept
<1>4. u = t
  BY <1>1, <1>2, <1>3 DEF OwnAt, Absent
<1> QED
  BY <1>3, <1>4, MemoryAssumption DEF Idle, None

(* rt_release_owned and rt_free up to the lock *)
LEMMA ReleaseKeeps ==
  ASSUME IInv, NEW t \in prog.acting, Release(t), prog' = prog
  PROVE  IInv'
<1>1. PICK a \in Addr :
        /\ held[t][a] > 0 \/ prog.careless
        /\ held' = [held EXCEPT ![t][a] = IF @ > 0 THEN @ - 1 ELSE 0]
        /\ cache' = [cache EXCEPT ![t] = Asked(@, a)]
        /\ pc' = [pc EXCEPT ![t] =
             IF ~IsHeapPtr(t, a) THEN Idle ELSE <<IF prog.counted THEN "release" ELSE "forget", a>>]
  BY DEF Release
<1>2. TypeInv /\ t \in Thread /\ UNCHANGED <<kind, magic, class, room, pool, rc>> /\ pc[t] = Idle
  BY ActingIs DEF IInv, Release
<1>3. held \in Tables /\ held[t][a] \in Nat /\ pc \in Places
  BY <1>2 DEF TypeInv, Tables
<1>4. Pooled' /\ HeapExact'
  BY <1>2, BlocksSame
<1>5. CASE held[t][a] > 0
  <2>1. kind[a] = "heap" /\ IsHeapPtr(t, a)
    BY <1>2, <1>5, OwnedIsHeap, KnownHeap
  <2>2. /\ held' \in Tables /\ held'[t][a] = held[t][a] - 1
        /\ \A u \in Thread \ {t} : held'[u][a] = held[u][a]
        /\ \A b \in Addr \ {a} : \A u \in Thread : held'[u][b] = held[u][b]
    <3> DEFINE x == IF held[t][a] > 0 THEN held[t][a] - 1 ELSE 0
    <3>1. held' = [held EXCEPT ![t][a] = x]
      BY <1>1
    <3>2. x = held[t][a] - 1 /\ x \in Nat
      BY <1>3, <1>5
    <3> HIDE DEF x
    <3>3. /\ held' \in Tables /\ held'[t][a] = x
          /\ \A u \in Thread \ {t} : held'[u][a] = held[u][a]
          /\ \A b \in Addr \ {a} : \A u \in Thread : held'[u][b] = held[u][b]
      BY <1>2, <1>3, <3>1, <3>2 DEF Tables
    <3> QED
      BY <3>2, <3>3
  <2>3. /\ pc' \in Places /\ pc'[t] = <<IF prog.counted THEN "release" ELSE "forget", a>>
        /\ \A u \in Thread \ {t} : pc'[u] = pc[u]
    BY <1>1, <1>2, <1>3, <2>1 DEF Places
  <2>4. cache' \in [Thread -> Caches] /\ CacheFits(prog, cache, kind, magic)'
    BY <1>1, <1>2, <2>1, AskedKeeps
  <2>5. TypeInv'
    BY <1>2, <2>2, <2>3, <2>4 DEF TypeInv
  <2>6. OwnAt(kind'[a], rc'[a], held', pc', prog, a)
    <3>1. OwnAt(kind[a], rc[a], held, pc, prog, a)
      BY DEF IInv, Owned
    <3>2. OwnAt(kind[a], rc[a], held', pc', prog, a)
      BY <1>2, <1>3, <1>5, <2>2, <2>3, <3>1, OwnRelease
    <3> QED
      BY <1>2, <3>2
  <2>7. Owned'
    <3>1. \A u \in Thread : pc'[u] = pc[u] \/ (pc[u][2] \in {a, None} /\ pc'[u][2] \in {a, None})
      BY <1>2, <2>3 DEF Idle
    <3> QED
      BY <1>2, <2>2, <2>5, <2>6, <3>1, OwnedAfter DEF IInv
  <2> QED
    BY <1>4, <2>4, <2>5, <2>7 DEF IInv
<1>6. CASE ~(held[t][a] > 0)
  <2>1. ~Careful(prog)
    BY <1>1, <1>6 DEF Careful
  <2>2. ~IsHeapPtr(t, a)
    BY <1>2, <1>6, <2>1, AloneHolds, KnownOther
  <2>3. held[t][a] = 0 /\ held' = held
    <3>1. held[t][a] = 0
      BY <1>3, <1>6
    <3>2. held' = [held EXCEPT ![t][a] = 0]
      BY <1>1, <3>1
    <3> QED
      BY <1>2, <1>3, <3>1, <3>2 DEF Tables
  <2>4. pc' = pc
    BY <1>1, <1>2, <1>3, <2>2 DEF Places
  <2>5. cache' \in [Thread -> Caches] /\ CacheFits(prog, cache, kind, magic)'
    BY <1>1, <1>2, <2>1, AskedKeeps
  <2>6. TypeInv' /\ Owned'
    BY <1>2, <2>3, <2>4, <2>5 DEF IInv, TypeInv, Owned
  <2> QED
    BY <1>4, <2>5, <2>6 DEF IInv
<1> QED
  BY <1>5, <1>6

(* rt_release_owned under the lock *)
LEMMA ReleaseLockedKeeps ==
  ASSUME IInv, NEW t \in prog.acting, ReleaseLocked(t), prog' = prog
  PROVE  IInv'
<1>1. PICK a : a = pc[t][2]
  OBVIOUS
<1>2. TypeInv /\ t \in Thread /\ UNCHANGED <<kind, magic, class, room, pool, cache, held>>
  BY ActingIs DEF IInv, ReleaseLocked
<1>3. a \in Addr /\ pc[t] = <<"release", a>>
  BY <1>1, <1>2, PlaceIs DEF ReleaseLocked
<1>4. IF rc[a] <= 1 THEN rc' = [rc EXCEPT ![a] = 0] /\ pc' = [pc EXCEPT ![t] = <<"direct", a>>]
                    ELSE rc' = [rc EXCEPT ![a] = @ - 1] /\ pc' = [pc EXCEPT ![t] = Idle]
  BY <1>1 DEF ReleaseLocked, LastReference
<1>5. rc[a] \in Nat /\ rc \in [Addr -> Nat] /\ held \in Tables /\ pc \in Places
  BY <1>2, <1>3 DEF TypeInv
<1>6. rc' \in [Addr -> Nat] /\ (~(rc[a] <= 1) => rc'[a] = rc[a] - 1) /\ \A b \in Addr \ {a} : rc'[b] = rc[b]
  BY <1>3, <1>4, <1>5
<1>7. /\ pc' \in Places /\ \A u \in Thread \ {t} : pc'[u] = pc[u]
      /\ IF rc[a] <= 1 THEN pc'[t] = <<"direct", a>> ELSE pc'[t] = Idle
  BY <1>2, <1>3, <1>4, <1>5 DEF Places
<1>8. Pooled' /\ HeapExact' /\ CacheFits(prog, cache, kind, magic)'
  BY <1>2, BlocksSame DEF IInv
<1>9. TypeInv'
  BY <1>2, <1>6, <1>7 DEF TypeInv
<1>10. OwnAt(kind'[a], rc'[a], held', pc', prog, a)
  <2>1. OwnAt(kind[a], rc[a], held, pc, prog, a)
    BY <1>3 DEF IInv, Owned
  <2>2. IF rc[a] <= 1 THEN pc'[t] = <<"direct", a>> ELSE pc'[t] = Idle /\ rc'[a] = rc[a] - 1
    BY <1>6, <1>7
  <2>3. OwnAt(kind[a], rc'[a], held, pc', prog, a)
    BY <1>2, <1>3, <1>5, <1>7, <2>1, <2>2, OwnReleased
  <2> QED
    BY <1>2, <2>3
<1>11. Owned'
  <2>1. \A u \in Thread : pc'[u] = pc[u] \/ (pc[u][2] \in {a, None} /\ pc'[u][2] \in {a, None})
    BY <1>3, <1>7 DEF Idle
  <2> QED
    BY <1>2, <1>3, <1>6, <1>9, <1>10, <2>1, OwnedAfter DEF IInv
<1> QED
  BY <1>8, <1>9, <1>11 DEF IInv

(* rt_rc_forget *)
LEMMA ForgetLockedKeeps ==
  ASSUME IInv, NEW t \in prog.acting, ForgetLocked(t), prog' = prog
  PROVE  IInv'
<1>1. PICK a : a = pc[t][2]
  OBVIOUS
<1>2. TypeInv /\ t \in Thread /\ UNCHANGED <<kind, magic, class, room, pool, cache, held>>
  BY ActingIs DEF IInv, ForgetLocked
<1>3. a \in Addr /\ pc[t] = <<"forget", a>>
  BY <1>1, <1>2, PlaceIs DEF ForgetLocked
<1>4. rc' = [rc EXCEPT ![a] = 0] /\ pc' = [pc EXCEPT ![t] = <<"direct", a>>]
  BY <1>1 DEF ForgetLocked
<1>5. rc' \in [Addr -> Nat] /\ \A b \in Addr \ {a} : rc'[b] = rc[b]
  BY <1>2, <1>3, <1>4 DEF TypeInv
<1>6. pc' \in Places /\ pc'[t] = <<"direct", a>> /\ \A u \in Thread \ {t} : pc'[u] = pc[u]
  BY <1>2, <1>3, <1>4 DEF TypeInv, Places
<1>7. Pooled' /\ HeapExact' /\ CacheFits(prog, cache, kind, magic)'
  BY <1>2, BlocksSame DEF IInv
<1>8. TypeInv'
  BY <1>2, <1>5, <1>6 DEF TypeInv
<1>9. OwnAt(kind'[a], rc'[a], held', pc', prog, a)
  <2>1. OwnAt(kind[a], rc[a], held, pc, prog, a)
    BY <1>3 DEF IInv, Owned
  <2>2. OwnAt(kind[a], rc'[a], held, pc', prog, a)
    BY <1>2, <1>3, <1>6, <2>1, OwnForget
  <2> QED
    BY <1>2, <2>2
<1>10. Owned'
  <2>1. \A u \in Thread : pc'[u] = pc[u] \/ (pc[u][2] \in {a, None} /\ pc'[u][2] \in {a, None})
    BY <1>3, <1>6
  <2> QED
    BY <1>2, <1>3, <1>5, <1>8, <1>9, <2>1, OwnedAfter DEF IInv
<1> QED
  BY <1>7, <1>8, <1>10 DEF IInv

(* rt_free_direct *)
LEMMA FreeDirectKeeps ==
  ASSUME IInv, NEW t \in prog.acting, FreeDirect(t), prog' = prog
  PROVE  IInv'
<1>1. PICK a : a = pc[t][2]
  OBVIOUS
<1>2. TypeInv /\ t \in Thread /\ cache[t] \in Caches /\ UNCHANGED <<class, room, rc, held>>
  BY ActingIs DEF IInv, FreeDirect
<1>3. a \in Addr /\ pc[t] = <<"direct", a>> /\ kind[a] = "heap"
  BY <1>1, <1>2, PlaceIs DEF FreeDirect
<1>4. /\ IsHeapPtr(t, a) /\ class[a] = room[a] /\ class[a] \in prog.classes /\ class[a] \in Class
  BY <1>2, <1>3, KnownHeap DEF IInv, HeapExact, TypeInv
<1>5. /\ cache' = [cache EXCEPT ![t] = Forget(@, a)] /\ pc' = [pc EXCEPT ![t] = Idle]
      /\ IF class[a] <= Pools
         THEN /\ kind' = [kind EXCEPT ![a] = "pool"] /\ magic' = [magic EXCEPT ![a] = FALSE]
              /\ pool' = [pool EXCEPT ![t][class[a]] = <<a>> \o @]
         ELSE /\ kind' = [kind EXCEPT ![a] = "sys"]
              /\ \E m \in BOOLEAN : magic' = [magic EXCEPT ![a] = m]
              /\ UNCHANGED pool
  BY <1>1, <1>4 DEF FreeDirect
<1>6. /\ kind' \in [Addr -> Kinds] /\ kind'[a] = IF class[a] <= Pools THEN "pool" ELSE "sys"
      /\ \A b \in Addr \ {a} : kind'[b] = kind[b]
  BY <1>2, <1>3, <1>5 DEF TypeInv, Kinds
<1>7. /\ magic' \in [Addr -> BOOLEAN] /\ (class[a] <= Pools => ~magic'[a])
      /\ \A b \in Addr \ {a} : magic'[b] = magic[b]
  BY <1>2, <1>3, <1>5 DEF TypeInv
<1>8. /\ pc \in Places /\ pc' \in Places /\ pc'[t] = Idle /\ \A u \in Thread \ {t} : pc'[u] = pc[u]
  BY <1>2, <1>5 DEF TypeInv, Places
<1>9. pool' \in PoolTables /\ Pooled'
  <2>1. pool \in PoolTables /\ PoolsFit(kind, pool, room, magic)
    BY <1>2 DEF IInv, Pooled, TypeInv
  <2>2. CASE class[a] <= Pools
    <3>1. PICK k : k = class[a]
      OBVIOUS
    <3>2. k \in 1..Pools /\ room[a] = k
      BY <1>4, <2>2, <3>1, MemoryAssumption DEF Class
    <3>3. pool' = [pool EXCEPT ![t][k] = <<a>> \o @]
      BY <1>5, <2>2, <3>1
    <3>4. Pushed(pool, pool', t, k, a)
      BY <1>2, <1>3, <2>1, <3>2, <3>3, PoolCons
    <3>5. kind[a] # "pool" /\ kind'[a] = "pool" /\ ~magic'[a]
      BY <1>3, <1>6, <1>7, <2>2
    <3>6. \A b \in Addr \ {a} : kind'[b] = kind[b] /\ magic'[b] = magic[b]
      BY <1>6, <1>7
    <3>7. PoolsFit(kind', pool', room, magic')
      BY <1>2, <1>3, <2>1, <3>2, <3>4, <3>5, <3>6, PoolsPush
    <3>8. pool' \in PoolTables
      BY <3>4 DEF Pushed
    <3> QED
      BY <1>2, <3>7, <3>8 DEF Pooled
  <2>3. CASE ~(class[a] <= Pools)
    <3>1. pool' = pool
      BY <1>5, <2>3
    <3>2. \A b \in Addr : kind'[b] = "pool" <=> kind[b] = "pool"
      BY <1>3, <1>6, <2>3
    <3>3. \A b \in Addr : kind[b] = "pool" => room[b] = room[b] /\ magic'[b] = magic[b]
      BY <1>3, <1>7
    <3>4. PoolsFit(kind', pool, room, magic')
      BY <2>1, <3>2, <3>3, PoolsSame
    <3> QED
      BY <1>2, <2>1, <3>1, <3>4 DEF Pooled
  <2> QED
    BY <2>2, <2>3
<1>10. HeapExact'
  BY <1>2, <1>6, <1>7 DEF IInv, HeapExact
<1>11. cache' \in [Thread -> Caches] /\ CacheFits(prog, cache, kind, magic)'
  <2> DEFINE c == Forget(cache[t], a)
  <2>1. /\ c \in Caches
        /\ \A b \in Addr : (NegHit(c, b) => NegHit(cache[t], b) /\ b # a) /\ (PosHit(c, b) => PosHit(cache[t], b) /\ b # a)
    BY <1>2, <1>3, CacheStores
  <2>2. cache' = [cache EXCEPT ![t] = c]
    BY <1>5
  <2> HIDE DEF c
  <2>3. ASSUME ~Careful(prog), NEW b \in Addr
        PROVE  /\ PosHit(c, b) \/ magic'[b] => kind'[b] = "heap"
               /\ NegHit(c, b) => kind'[b] # "heap"
    <3>1. class[a] \in 1..Pools
      BY <1>4, <2>3 DEF IInv, CacheFits, Single
    <3>2. ~magic'[a] /\ kind'[a] # "heap"
      BY <1>6, <1>7, <3>1
    <3>3. /\ PosHit(cache[t], b) \/ magic[b] => kind[b] = "heap"
          /\ NegHit(cache[t], b) => kind[b] # "heap"
      BY <2>3 DEF IInv, CacheFits
    <3> QED
      BY <1>6, <1>7, <2>1, <3>2, <3>3
  <2>4. \A b \in Addr : kind'[b] = "raw" => kind[b] = "raw"
    BY <1>6
  <2> QED
    BY <1>2, <2>1, <2>2, <2>3, <2>4, CachesAfter DEF IInv
<1>12. TypeInv'
  BY <1>2, <1>6, <1>7, <1>8, <1>9, <1>11 DEF TypeInv
<1>13. OwnAt(kind'[a], rc'[a], held', pc', prog, a)
  <2>1. OwnAt(kind[a], rc[a], held, pc, prog, a) /\ kind'[a] # "heap"
    BY <1>3, <1>6 DEF IInv, Owned
  <2>2. OwnAt(kind'[a], rc[a], held, pc', prog, a)
    BY <1>2, <1>3, <1>8, <2>1, OwnFree
  <2> QED
    BY <1>2, <2>2
<1>14. Owned'
  <2>1. \A u \in Thread : pc'[u] = pc[u] \/ (pc[u][2] \in {a, None} /\ pc'[u][2] \in {a, None})
    BY <1>3, <1>8 DEF Idle
  <2> QED
    BY <1>2, <1>3, <1>6, <1>12, <1>13, <2>1, OwnedAfter DEF IInv
<1> QED
  BY <1>9, <1>10, <1>11, <1>12, <1>14 DEF IInv

(* rt_realloc *)
LEMMA ReallocKeeps ==
  ASSUME IInv, NEW t \in prog.acting, Realloc(t), prog' = prog
  PROVE  IInv'
<1>1. PICK a \in Addr, k \in prog.classes :
        /\ SoleOwner(t, a)
        /\ \/ /\ IsHeapPtr(t, a) /\ k <= class[a]
              /\ cache' = [cache EXCEPT ![t] = Asked(@, a)]
              /\ UNCHANGED <<kind, magic, class, room, pool, rc, held, pc>>
           \/ /\ IsHeapPtr(t, a) => k >= class[a]
              /\ \E b \in Addr \ {a} :
                   /\ NewBlock(t, k, b)
                   /\ cache' = [cache EXCEPT ![t] = Asked(StorePos(Asked(@, a), b), a)]
                   /\ held' = [held EXCEPT ![t][a] = 0, ![t][b] = 1]
              /\ pc' = IF IsHeapPtr(t, a) THEN [pc EXCEPT ![t] = <<"forget", a>>] ELSE pc
  BY DEF Realloc
<1>2. TypeInv /\ t \in Thread /\ cache[t] \in Caches /\ pc[t] = Idle
  BY ActingIs DEF IInv, Realloc
<1>3. held[t][a] = 1 /\ Cardinality(ClaimsOf(held, a)) = 1 /\ \A u \in Thread : pc[u][2] # a
  BY <1>1 DEF SoleOwner, Holders, Claims, ClaimsOf
<1>4. kind[a] = "heap" /\ IsHeapPtr(t, a) /\ magic[a]
  <2>1. held[t][a] > 0
    BY <1>3
  <2> QED
    BY <1>2, <2>1, OwnedIsHeap, KnownHeap
<1>5. CASE /\ cache' = [cache EXCEPT ![t] = Asked(@, a)]
           /\ UNCHANGED <<kind, magic, class, room, pool, rc, held, pc>>
  <2>1. cache' \in [Thread -> Caches] /\ CacheFits(prog, cache, kind, magic)'
    BY <1>4, <1>5, AskedKeeps
  <2>2. Pooled' /\ HeapExact'
    BY <1>5, BlocksSame
  <2>3. TypeInv' /\ Owned'
    BY <1>2, <1>5, <2>1 DEF IInv, TypeInv, Owned
  <2> QED
    BY <2>1, <2>2, <2>3 DEF IInv
<1>6. ASSUME NEW b \in Addr \ {a}, NewBlock(t, k, b),
             cache' = [cache EXCEPT ![t] = Asked(StorePos(Asked(@, a), b), a)],
             held' = [held EXCEPT ![t][a] = 0, ![t][b] = 1],
             pc' = [pc EXCEPT ![t] = <<"forget", a>>]
      PROVE  IInv'
  <2>1. /\ kind[b] # "heap" /\ kind'[b] = "heap" /\ magic'[b]
        /\ \A c \in Addr \ {b} : kind'[c] = kind[c] /\ magic'[c] = magic[c] /\ rc'[c] = rc[c]
        /\ prog.counted => rc'[b] = 1
        /\ kind' \in [Addr -> Kinds] /\ magic' \in [Addr -> BOOLEAN] /\ class' \in [Addr -> Class]
        /\ room' \in [Addr -> Class] /\ pool' \in PoolTables /\ rc' \in [Addr -> Nat]
        /\ Pooled' /\ HeapExact'
    BY <1>6, NewBlockIs
  <2>2. /\ held \in Tables /\ held' \in Tables /\ held'[t][a] = 0 /\ held'[t][b] = 1
        /\ \A u \in Thread \ {t} : held'[u] = held[u]
        /\ \A c \in Addr \ {a, b} : \A u \in Thread : held'[u][c] = held[u][c]
    BY <1>2, <1>6 DEF TypeInv, Tables
  <2>3. /\ pc \in Places /\ pc' \in Places /\ pc'[t] = <<"forget", a>> /\ \A u \in Thread \ {t} : pc'[u] = pc[u]
    BY <1>2, <1>6 DEF TypeInv, Places
  <2>4. cache' \in [Thread -> Caches] /\ CacheFits(prog, cache, kind, magic)'
    <3> DEFINE c1 == Asked(cache[t], a)
               c2 == StorePos(c1, b)
               c3 == Asked(c2, a)
    <3>1. /\ c1 \in Caches
          /\ \A x \in Addr : /\ NegHit(c1, x) => NegHit(cache[t], x)
                             /\ PosHit(c1, x) => PosHit(cache[t], x) \/ x = a
      BY <1>2, <1>4, AskedStores
    <3> HIDE DEF c1
    <3>2. /\ c2 \in Caches
          /\ \A x \in Addr : /\ NegHit(c2, x) => NegHit(c1, x) /\ x # b
                             /\ PosHit(c2, x) => PosHit(c1, x) \/ x = b
      BY <3>1, CacheStores
    <3> HIDE DEF c2
    <3>3. /\ c3 \in Caches
          /\ \A x \in Addr : /\ NegHit(c3, x) => NegHit(c2, x)
                             /\ PosHit(c3, x) => PosHit(c2, x) \/ x = a
      BY <1>4, <3>2, AskedStores
    <3>4. cache' = [cache EXCEPT ![t] = c3]
      BY <1>6 DEF c1, c2
    <3> HIDE DEF c3
    <3>5. \A x \in Addr : /\ NegHit(c3, x) => NegHit(cache[t], x) /\ x # b
                          /\ PosHit(c3, x) => PosHit(cache[t], x) \/ x \in {a, b}
      BY <3>1, <3>2, <3>3
    <3>6. ASSUME ~Careful(prog), NEW x \in Addr
          PROVE  /\ PosHit(c3, x) \/ magic'[x] => kind'[x] = "heap"
                 /\ NegHit(c3, x) => kind'[x] # "heap"
      <4>1. /\ PosHit(cache[t], x) \/ magic[x] => kind[x] = "heap"
            /\ NegHit(cache[t], x) => kind[x] # "heap"
        BY <3>6 DEF IInv, CacheFits
      <4> QED
        BY <1>4, <2>1, <3>5, <4>1
    <3>7. \A x \in Addr : kind'[x] = "raw" => kind[x] = "raw"
      BY <2>1
    <3> QED
      BY <1>2, <3>3, <3>4, <3>5, <3>6, <3>7, CachesAfter DEF IInv
  <2>5. TypeInv'
    BY <1>2, <2>1, <2>2, <2>3, <2>4 DEF TypeInv
  <2>6. Owned'
    <3> SUFFICES ASSUME NEW c \in Addr PROVE OwnAt(kind'[c], rc'[c], held', pc', prog, c)
      BY DEF Owned
    <3>1. OwnAt(kind[c], rc[c], held, pc, prog, c) /\ rc[c] \in Nat
      BY <1>2 DEF IInv, Owned, TypeInv
    <3>2. CASE c = a
      <4>1. OwnAt(kind[a], rc[a], held', pc', prog, a)
        BY <1>2, <1>3, <2>2, <2>3, <3>1, <3>2, OwnMoved
      <4> QED
        BY <2>1, <3>2, <4>1
    <3>3. CASE c = b
      <4>1. OwnAt("heap", rc'[b], held', pc, prog, b)
        <5>1. OwnAt(kind[b], rc[b], held, pc, prog, b) /\ rc[b] \in Nat
          BY <3>1, <3>3
        <5>2. \A u \in Thread \ {t} : held'[u][b] = held[u][b]
          BY <2>2
        <5> QED
          BY <1>2, <2>1, <2>2, <2>3, <5>1, <5>2, OwnNew
      <4>2. \A u \in Thread : pc'[u] = pc[u] \/ (pc[u][2] # b /\ pc'[u][2] # b)
        BY <1>2, <2>3, MemoryAssumption DEF Idle, None
      <4>3. OwnAt("heap", rc'[b], held', pc', prog, b)
        BY <2>2, <2>3, <4>1, <4>2, OwnElsewhere
      <4> QED
        BY <2>1, <3>3, <4>3
    <3>4. CASE c \notin {a, b}
      <4>1. \A u \in Thread : pc'[u] = pc[u] \/ (pc[u][2] # c /\ pc'[u][2] # c)
        BY <1>2, <2>3, <3>4, MemoryAssumption DEF Idle, None
      <4>2. \A u \in Thread : held'[u][c] = held[u][c]
        BY <2>2, <3>4
      <4>3. OwnAt(kind[c], rc[c], held', pc', prog, c)
        BY <2>2, <2>3, <3>1, <4>1, <4>2, OwnElsewhere
      <4> QED
        BY <2>1, <3>4, <4>3
    <3> QED
      BY <3>2, <3>3, <3>4
  <2> QED
    BY <2>1, <2>4, <2>5, <2>6 DEF IInv
<1> QED
  BY <1>1, <1>4, <1>5, <1>6

-----------------------------------------------------------------------------
(* The theorems *)

(* Nothing is allocated yet. *)
LEMMA InitHolds ==
  ASSUME Init, Served(prog)
  PROVE  IInv
<1>1. prog \in Programs /\ \A a \in Addr : kind[a] = "sys" /\ magic[a] = FALSE /\ rc[a] = 0
  BY DEF Init
<1>2. Large \in Class /\ "sys" \in Kinds
  BY MemoryAssumption DEF Large, Class, Kinds
<1>3. pool \in PoolTables /\ \A t \in Thread, c \in 1..Pools : pool[t][c] = <<>>
  <2> DEFINE C == 1..Pools
  <2>1. pool = [t \in Thread |-> [k \in C |-> <<>>]]
    BY DEF Init
  <2> HIDE DEF C
  <2>2. pool \in [Thread -> [C -> Seq(Addr)]] /\ \A t \in Thread, c \in C : pool[t][c] = <<>>
    BY <2>1
  <2> QED
    BY <2>2 DEF C, PoolTables
<1>4. held \in Tables /\ \A t \in Thread, a \in Addr : held[t][a] = 0
  BY DEF Init, Tables
<1>5. pc \in Places /\ \A t \in Thread : pc[t] = Idle
  BY DEF Init, Places
<1>6. /\ cache \in [Thread -> Caches]
      /\ \A t \in Thread, a \in Addr : ~PosHit(cache[t], a) /\ ~NegHit(cache[t], a)
  <2>1. \A a \in Addr : PosSlot[a] \in Range(PosSlot) /\ NegSlot[a] \in Range(NegSlot) /\ a # None
    BY MemoryAssumption DEF Range, None
  <2> QED
    BY <2>1 DEF Init, Caches, PosHit, NegHit
<1>7. TypeInv
  BY <1>1, <1>2, <1>3, <1>4, <1>5, <1>6 DEF Init, TypeInv
<1>8. Owned
  <2> SUFFICES ASSUME NEW a \in Addr PROVE OwnAt("sys", 0, held, pc, prog, a)
    BY <1>1 DEF Owned
  <2>1. \A t \in Thread : held[t][a] = 0 /\ pc[t][2] # a
    BY <1>4, <1>5, MemoryAssumption DEF Idle, None
  <2>2. ClaimsOf(held, a) = {} /\ ReleasingOf(pc, a) = {}
    <3>1. ClaimsOf(held, a) = {}
      BY <1>4, <2>1, ClaimsNone
    <3>2. ReleasingOf(pc, a) = {}
      BY <2>1 DEF ReleasingOf
    <3> QED
      BY <3>1, <3>2
  <2>3. Access("sys", held, pc, a)
    BY <2>1 DEF Access, FreeingIn
  <2>4. Counts("sys", 0, held, pc, prog, a)
    BY <2>2, FS_EmptySet DEF Counts
  <2>5. Unshared(held, pc, prog, a) /\ Kept("sys", held, pc, a) /\ Absent(held, pc, prog, a)
    BY <2>1 DEF Unshared, Kept, Absent
  <2> QED
    BY <2>3, <2>4, <2>5 DEF OwnAt
<1>9. Pooled
  BY <1>1, <1>3 DEF Pooled, PoolsFit, Listed, Once, Fitting
<1>10. HeapExact
  BY <1>1 DEF HeapExact
<1>11. CacheFits(prog, cache, kind, magic)
  <2>1. \A t \in prog.acting : t \in Thread
    BY <1>1, MemoryAssumption
  <2>2. \A a \in Addr : kind[a] \notin {"raw", "heap"} /\ ~magic[a]
    BY <1>1
  <2> QED
    BY <1>6, <2>1, <2>2, Zenon DEF CacheFits, Served
<1> QED
  BY <1>7, <1>8, <1>9, <1>10, <1>11 DEF IInv

(* The invariant is inductive; prog stays what it was. *)
LEMMA Inductive ==
  ASSUME \A p \in Programs : Served(p)
  PROVE  Spec => []IInv
<1>1. Init => IInv
  <2>1. Init => Served(prog)
    BY DEF Init
  <2> QED
    BY <2>1, InitHolds
<1>2. IInv /\ [Next]_vars => IInv'
  <2> SUFFICES ASSUME IInv, [Next]_vars PROVE IInv'
    OBVIOUS
  <2>1. ASSUME NEW t \in prog.acting, Step(t), prog' = prog PROVE IInv'
    <3>1. CASE Malloc(t) \/ MallocRaw(t) \/ FreeRaw(t)
      BY <2>1, <3>1, MallocKeeps, MallocRawKeeps, FreeRawKeeps
    <3>2. CASE Use(t) \/ Give(t) \/ Realloc(t)
      BY <2>1, <3>2, UseKeeps, GiveKeeps, ReallocKeeps
    <3>3. CASE Retain(t) \/ RetainLocked(t)
      BY <2>1, <3>3, RetainKeeps, RetainLockedKeeps
    <3>4. CASE Release(t) \/ ReleaseLocked(t) \/ ForgetLocked(t) \/ FreeDirect(t)
      BY <2>1, <3>4, ReleaseKeeps, ReleaseLockedKeeps, ForgetLockedKeeps, FreeDirectKeeps
    <3> QED
      BY <2>1, <3>1, <3>2, <3>3, <3>4 DEF Step
  <2>2. CASE UNCHANGED vars
    BY <2>2 DEF vars, IInv, TypeInv, Owned, Pooled, HeapExact
  <2> QED
    BY <2>1, <2>2 DEF Next
<1> QED
  BY <1>1, <1>2, PTL DEF Spec

(* What a thread holds a reference to is not freed, for every program the  *)
(* allocator serves: the counts of rt_rc_*, the pools and the caches never *)
(* let rt_free_direct run under an owner.                                  *)
THEOREM HeldStaysLive ==
  ASSUME \A p \in Programs : Served(p)
  PROVE  Spec => []HeldIsLive
<1>1. IInv => HeldIsLive
  BY OwnedIsHeap DEF HeldIsLive
<1> QED
  BY <1>1, Inductive, PTL

(* The count of g_rc_table is the number of references not yet given up,   *)
(* between any two steps of rt_retain_owned and rt_release_owned.          *)
THEOREM CountsAreExact ==
  ASSUME \A p \in Programs : Served(p)
  PROVE  Spec => []CountsExact
<1>1. IInv => CountsExact
  <2> SUFFICES ASSUME IInv, prog.counted, NEW a \in Addr, kind[a] = "heap",
                      \A t \in Thread : pc[t] \notin {<<"forget", a>>, <<"direct", a>>}
               PROVE  rc[a] = Holders(a) + Cardinality({t \in Thread : pc[t] = <<"release", a>>})
    BY DEF CountsExact
  <2>1. Counts(kind[a], rc[a], held, pc, prog, a)
    BY DEF IInv, Owned, OwnAt
  <2>2. rc[a] = Cardinality(ClaimsOf(held, a)) + Cardinality(ReleasingOf(pc, a))
    BY <2>1 DEF Counts, FreeingIn
  <2> QED
    BY <2>2 DEF Holders, Claims, ClaimsOf, ReleasingOf
<1> QED
  BY <1>1, Inductive, PTL

(* rt_release_owned and rt_free never take a block for something else: one *)
(* without an owner is being freed.                                        *)
THEOREM NothingLeaks ==
  ASSUME \A p \in Programs : Served(p)
  PROVE  Spec => []ReleaseDrops
<1>1. IInv => ReleaseDrops
  <2> SUFFICES ASSUME IInv, NEW a \in Addr, kind[a] = "heap", \A t \in Thread : pc[t][2] # a
               PROVE  Holders(a) > 0
    BY DEF ReleaseDrops
  <2>1. OwnAt(kind[a], rc[a], held, pc, prog, a) /\ held \in Tables
    BY DEF IInv, Owned, TypeInv
  <2>2. PICK t \in Thread : held[t][a] > 0
    BY <2>1 DEF OwnAt, Kept
  <2>3. ClaimsOf(held, a) # {}
    BY <2>1, <2>2, ClaimsNone
  <2>4. IsFiniteSet(ClaimsOf(held, a))
    BY <2>1 DEF OwnAt, Counts
  <2>5. Cardinality(ClaimsOf(held, a)) \in Nat /\ Cardinality(ClaimsOf(held, a)) # 0
    BY <2>3, <2>4, FS_EmptySet, FS_CardinalityType
  <2> QED
    BY <2>5 DEF Holders, Claims, ClaimsOf
<1> QED
  BY <1>1, Inductive, PTL

(* The pools hold every free block once, in its class, and no other: what  *)
(* rt_malloc takes from the top of one is nobody's and large enough.       *)
THEOREM PoolsAreExact ==
  ASSUME \A p \in Programs : Served(p)
  PROVE  Spec => []PoolsExact
<1>1. IInv => PoolsExact
  <2> SUFFICES ASSUME IInv PROVE PoolsExact
    OBVIOUS
  <2>1. Listed(kind, pool) /\ Once(pool) /\ Fitting(pool, room, magic)
    BY DEF IInv, Pooled, PoolsFit
  <2>2. \A a \in Addr : kind[a] = "heap" => magic[a] /\ class[a] <= room[a]
    <3> SUFFICES ASSUME NEW a \in Addr, kind[a] = "heap" PROVE magic[a] /\ class[a] <= room[a]
      OBVIOUS
    <3>1. magic[a] /\ class[a] = room[a] /\ class[a] \in Class
      BY DEF IInv, HeapExact, TypeInv
    <3> QED
      BY <3>1, MemoryAssumption DEF Class
  <2> QED
    BY <2>1, <2>2 DEF PoolsExact, Listed, Once, Fitting
<1> QED
  BY <1>1, Inductive, PTL

==============================================================================
