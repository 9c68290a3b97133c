--------------------------- MODULE ReadUntil_proofs ---------------------------
(***************************************************************************)
(* What rt_async_find_bytes returns is right for every buffer, needle and  *)
(* alphabet and for every length at which it changes its method; and what  *)
(* the two readers that search for a delimiter return is right for every   *)
(* stream, limit and buffer size and however recv cuts the stream.         *)
(***************************************************************************)
EXTENDS ReadUntil, WellFoundedInduction, SequenceTheorems, TLAPS

-----------------------------------------------------------------------------
(* rt_async_find_bytes *)

TypeInv ==
  /\ pc \in {"start", "plain", "build", "search", "done"}
  /\ hay \in Seq(Byte) /\ needle \in Seq(Byte)
  /\ pos \in Nat /\ i \in Nat
  /\ skip \in [Byte -> Int]
  /\ result \in Int

(* Only buffers at least as long as the needle are searched. *)
SizesFit == pc \in {"plain", "build", "search"} => Len(needle) \in 1..Len(hay)

(* Every position left behind has been ruled out. *)
NoneBehind == pc # "done" => \A p \in 0..(pos - 1) : ~Occurs(p)

(* The table is right for the needle's first i bytes. *)
TableSoFar == pc = "build" => i <= last /\ pos = 0 /\ \A k \in 1..i : skip[needle[k]] <= last - (k - 1)

(* Nothing has happened yet. *)
Fresh == pc = "start" => pos = 0 /\ i = 0

IInv == TypeInv /\ SizesFit /\ NoneBehind /\ TableSoFar /\ Fresh /\ FirstOccurrence /\ ShiftsSafe

(* The needle's end decides how far it may move (the pos += skip[..] of    *)
(* rt_async_find_bytes): with a table that is right for every byte but the *)
(* needle's last, no occurrence lies strictly between two positions.       *)
LEMMA ShiftPassesNoMatch ==
  ASSUME TypeInv, pc = "search", SizesFit, ShiftsSafe, Fits(pos), ~Match(pos),
         NEW p \in Nat, p >= pos, p < pos + skip[hay[pos + last + 1]]
  PROVE  ~Occurs(p)
<1> DEFINE c == hay[pos + last + 1]
           d == p - pos
           j == last + 1 - d
<1>1. c \in Byte /\ skip[c] \in 1..Len(needle)
  BY DEF TypeInv, SizesFit, ShiftsSafe, Fits, last
<1>2. CASE p = pos
  BY <1>2 DEF Occurs
<1>3. CASE p # pos /\ Occurs(p)
  <2>1. d \in 1..last /\ d < skip[c]
    BY <1>1, <1>3 DEF TypeInv, last
  <2>2. j \in 1..last /\ j \in 1..Len(needle) /\ p + j = pos + last + 1
    BY <2>1 DEF TypeInv, last
  <2>3. needle[j] = c
    BY <1>3, <2>2 DEF Occurs, Match
  <2>4. skip[needle[j]] <= last - (j - 1)
    BY <2>2 DEF ShiftsSafe
  <2>5. last - (j - 1) = d
    BY DEF TypeInv, last
  <2> QED
    BY <1>1, <2>1, <2>3, <2>4, <2>5 DEF TypeInv
<1> QED
  BY <1>2, <1>3

(* A position at which the needle no longer fits, with none behind it,     *)
(* means that it occurs nowhere.                                           *)
LEMMA EndMeansNowhere ==
  ASSUME TypeInv, NoneBehind, pc # "done", ~Fits(pos)
  PROVE  \A p \in 0..Len(hay) : ~Occurs(p)
BY DEF TypeInv, NoneBehind, Fits, Occurs

(* A state in which the search starts satisfies the invariant. *)
LEMMA InitIInv == Init => IInv
<1> SUFFICES ASSUME Init PROVE IInv
  OBVIOUS
<1>1. TypeInv
  BY InputAssumption DEF Init, TypeInv, NotFound
<1> QED
  BY <1>1 DEF Init, IInv, SizesFit, NoneBehind, TableSoFar, Fresh, FirstOccurrence, ShiftsSafe

(* One turn of any of the loops preserves the invariant. *)
LEMMA NextIInv == IInv /\ [Next]_vars => IInv'
<1> SUFFICES ASSUME IInv, [Next]_vars PROVE IInv'
  OBVIOUS
<1> USE DEF IInv
<1>1. CASE UNCHANGED vars
  BY <1>1 DEF vars, TypeInv, SizesFit, NoneBehind, TableSoFar, Fresh, FirstOccurrence,
              ShiftsSafe, Occurs, Fits, Match, last
<1>2. ASSUME NEW r \in Int, Return(r), pc # "done",
             \/ r \in 0..Len(hay) /\ Occurs(r) /\ \A p \in 0..(r - 1) : ~Occurs(p)
             \/ r = NotFound /\ \A p \in 0..Len(hay) : ~Occurs(p)
      PROVE  IInv'
  BY <1>2 DEF Return, TypeInv, SizesFit, NoneBehind, TableSoFar, Fresh, FirstOccurrence,
              ShiftsSafe, Occurs, Fits, Match, last
<1>3. CASE Start
  <2>1. CASE Len(needle) = 0 /\ Return(0)
    <3>1. Occurs(0)
      BY <2>1 DEF Occurs, Fits, Match, TypeInv
    <3> QED
      BY <1>2, <1>3, <2>1, <3>1 DEF TypeInv, Start
  <2>2. CASE Len(needle) > 0 /\ Len(hay) < Len(needle) /\ Return(NotFound)
    <3>1. \A p \in 0..Len(hay) : ~Occurs(p)
      BY <2>2 DEF Occurs, Fits, TypeInv
    <3> QED
      BY <1>2, <1>3, <2>2, <3>1 DEF NotFound, Start
  <2>3. CASE Len(needle) > 0 /\ Len(hay) >= Len(needle) /\ Goto("plain") /\ UNCHANGED skip
    BY <1>3, <2>3 DEF Start, Goto, TypeInv, SizesFit, NoneBehind, TableSoFar, Fresh,
                      FirstOccurrence, ShiftsSafe, Occurs, Fits, Match, last
  <2>4. CASE /\ Len(needle) > 2 /\ Len(hay) >= Len(needle)
             /\ Goto("build") /\ skip' = [c \in Byte |-> Len(needle)]
    <3>1. TypeInv' /\ SizesFit' /\ NoneBehind' /\ Fresh' /\ FirstOccurrence'
      BY <1>3, <2>4 DEF Start, Goto, TypeInv, SizesFit, NoneBehind, Fresh, FirstOccurrence
    <3>2. TableSoFar' /\ ShiftsSafe'
      BY <1>3, <2>4 DEF Start, Goto, TypeInv, SizesFit, TableSoFar, Fresh, ShiftsSafe, last
    <3> QED
      BY <3>1, <3>2
  <2> QED
    BY <1>3, <2>1, <2>2, <2>3, <2>4 DEF Start
<1>4. ASSUME pc # "done", Fits(pos), Match(pos), Return(pos), SizesFit, pc \in {"plain", "search"}
      PROVE  IInv'
  <2>1. pos \in 0..Len(hay) /\ Occurs(pos)
    BY <1>4 DEF TypeInv, SizesFit, Fits, Occurs
  <2> QED
    BY <1>2, <1>4, <2>1 DEF TypeInv, NoneBehind
<1>5. ASSUME pc # "done", ~Fits(pos), Return(NotFound)
      PROVE  IInv'
  BY <1>2, <1>5, EndMeansNowhere DEF NotFound
<1>6. CASE Plain
  <2>1. CASE /\ pc = "plain" /\ Fits(pos) /\ ~Match(pos) /\ pos' = pos + 1
             /\ UNCHANGED <<pc, hay, needle, skip, i, result>>
    <3>1. \A p \in 0..(pos' - 1) : ~Occurs(p)
      BY <2>1 DEF TypeInv, NoneBehind, Occurs
    <3>2. NoneBehind'
      BY <2>1, <3>1 DEF NoneBehind, Occurs, Fits, Match
    <3> QED
      BY <2>1, <3>2 DEF TypeInv, SizesFit, TableSoFar, Fresh, FirstOccurrence, ShiftsSafe
  <2> QED
    BY <1>4, <1>5, <1>6, <2>1 DEF Plain
<1>7. CASE Build
  <2>1. CASE /\ pc = "build" /\ i < last
             /\ skip' = [skip EXCEPT ![needle[i + 1]] = last - i]
             /\ i' = i + 1
             /\ UNCHANGED <<pc, hay, needle, pos, result>>
    <3>1. needle[i + 1] \in Byte /\ last - i \in 1..Len(needle) /\ last' = last
      BY <2>1 DEF TypeInv, last
    <3>2. TypeInv' /\ ShiftsSafe'
      BY <2>1, <3>1 DEF TypeInv, ShiftsSafe
    <3>3. TableSoFar'
      <4>1. ASSUME NEW k \in 1..(i + 1)
            PROVE  skip'[needle[k]] <= last - (k - 1)
        <5>1. k \in 1..Len(needle) /\ needle[k] \in Byte
          BY <2>1 DEF TypeInv, last
        <5>2. CASE needle[k] = needle[i + 1]
          BY <2>1, <3>1, <5>1, <5>2 DEF TypeInv, last
        <5>3. CASE needle[k] # needle[i + 1]
          BY <2>1, <3>1, <5>1, <5>3 DEF TypeInv, TableSoFar
        <5> QED
          BY <5>2, <5>3
      <4> QED
        BY <2>1, <3>1, <4>1 DEF TypeInv, TableSoFar, last
    <3>4. SizesFit' /\ NoneBehind' /\ Fresh' /\ FirstOccurrence'
      BY <2>1 DEF SizesFit, NoneBehind, Fresh, FirstOccurrence, Occurs, Fits, Match
    <3> QED
      BY <3>2, <3>3, <3>4
  <2>2. CASE pc = "build" /\ i >= last /\ Goto("search") /\ UNCHANGED skip
    <3>1. i = last
      BY <2>2 DEF TypeInv, TableSoFar, last
    <3>2. ShiftsSafe'
      BY <2>2, <3>1 DEF Goto, ShiftsSafe, TableSoFar, last
    <3> QED
      BY <2>2, <3>2 DEF Goto, TypeInv, SizesFit, NoneBehind, TableSoFar, Fresh, FirstOccurrence,
                        Occurs, Fits, Match
  <2> QED
    BY <1>7, <2>1, <2>2 DEF Build
<1>8. CASE Search
  <2>1. CASE /\ pc = "search" /\ Fits(pos) /\ ~Match(pos)
             /\ pos' = pos + skip[hay[pos + last + 1]]
             /\ UNCHANGED <<pc, hay, needle, skip, i, result>>
    <3>1. hay[pos + last + 1] \in Byte /\ skip[hay[pos + last + 1]] \in 1..Len(needle)
      BY <2>1 DEF TypeInv, SizesFit, ShiftsSafe, Fits, last
    <3>2. \A p \in 0..(pos' - 1) : ~Occurs(p)
      <4>1. ASSUME NEW p \in 0..(pos' - 1), p >= pos PROVE ~Occurs(p)
        <5>1. p \in Nat /\ p < pos + skip[hay[pos + last + 1]]
          BY <2>1, <3>1 DEF TypeInv
        <5> QED
          BY <2>1, <4>1, <5>1, ShiftPassesNoMatch
      <4> QED
        BY <2>1, <3>1, <4>1 DEF TypeInv, NoneBehind
    <3>3. TypeInv'
      BY <2>1, <3>1 DEF TypeInv
    <3>4. NoneBehind'
      BY <2>1, <3>2 DEF NoneBehind, Occurs, Fits, Match
    <3> QED
      BY <2>1, <3>3, <3>4 DEF SizesFit, TableSoFar, Fresh, FirstOccurrence, ShiftsSafe, last
  <2> QED
    BY <1>4, <1>5, <1>8, <2>1 DEF Search
<1> QED
  BY <1>1, <1>3, <1>6, <1>7, <1>8 DEF Next

(* rt_async_find_bytes returns the first occurrence, or -1 when there is   *)
(* none, for every alphabet, buffer and needle and whatever the length at  *)
(* which it starts to use the table.                                       *)
THEOREM FindBytesCorrect == Spec => []FirstOccurrence
<1>1. Init => IInv
  BY InitIInv
<1>2. IInv /\ [Next]_vars => IInv'
  BY NextIInv
<1>3. IInv => FirstOccurrence
  BY DEF IInv
<1> QED
  BY <1>1, <1>2, <1>3, PTL DEF Spec

(* Every shift the table of rt_async_find_bytes allows is at least 1 and   *)
(* passes no place where the needle's byte could meet the buffer's.        *)
THEOREM FindBytesShifts == Spec => []ShiftsSafe
<1>1. Init => IInv
  BY InitIInv
<1>2. IInv /\ [Next]_vars => IInv'
  BY NextIInv
<1>3. IInv => ShiftsSafe
  BY DEF IInv
<1> QED
  BY <1>1, <1>2, <1>3, PTL DEF Spec

-----------------------------------------------------------------------------
(* The lemmas the readers rest on *)

(* A set of numbers that is not empty has a least element. *)
LEMMA NatMin ==
  ASSUME NEW T, T \subseteq Nat, T # {}
  PROVE  \E x \in T : \A y \in T : x <= y
<1>1. PICK x \in T : \A y \in T : ~(<<y, x>> \in OpToRel(<, Nat))
  BY WFMin, NatLessThanWellFounded, Zenon
<1>2. ASSUME NEW y \in T PROVE ~(y < x)
  <2>1. y \in Nat /\ x \in Nat
    OBVIOUS
  <2> QED
    BY <1>1, <2>1, Zenon DEF OpToRel
<1> QED
  BY <1>2

(* The Min of such a set is that element. *)
LEMMA MinIsLeast ==
  ASSUME NEW T, T \subseteq Nat, T # {}
  PROVE  Min(T) \in T /\ \A y \in T : Min(T) <= y
<1>1. \E x \in T : \A y \in T : x <= y
  BY NatMin
<1> QED
  BY <1>1, Zenon DEF Min

Doubling(f, need) == f = [n \in Nat \ {0} |-> IF n < need THEN f[n * 2] ELSE n]

(* The doubling of rt_async_read_until_append ends, from every size above  *)
(* 0: there is a function that follows the loop to its end.                *)
LEMMA DoublingExists ==
  ASSUME NEW need \in Nat
  PROVE  \E f : Doubling(f, need)
<1> DEFINE Follows(f, m) == \A n \in Nat \ {0} : n >= m => f[n] = IF n < need THEN f[n * 2] ELSE n
           T == {m \in Nat \ {0} : \E f \in [Nat \ {0} -> Nat] : Follows(f, m)}
<1>1. T # {}
  <2> DEFINE id == [n \in Nat \ {0} |-> n]
  <2>1. id \in [Nat \ {0} -> Nat] /\ Follows(id, need + 1)
    OBVIOUS
  <2>2. \E f \in [Nat \ {0} -> Nat] : Follows(f, need + 1)
    BY <2>1, Zenon
  <2>3. need + 1 \in Nat \ {0}
    OBVIOUS
  <2> QED
    BY <2>2, <2>3, Zenon
<1>2. PICK m \in T : \A y \in T : m <= y
  <2>1. T \subseteq Nat
    OBVIOUS
  <2> HIDE DEF T
  <2> QED
    BY <1>1, <2>1, NatMin
<1>3. PICK f \in [Nat \ {0} -> Nat] : Follows(f, m)
  OBVIOUS
<1>4. m = 1
  <2> SUFFICES ASSUME m # 1 PROVE FALSE
    OBVIOUS
  <2> DEFINE l == m - 1
             g == [f EXCEPT ![l] = IF l < need THEN f[l * 2] ELSE l]
  <2>1. l \in Nat \ {0} /\ l * 2 \in Nat \ {0} /\ l * 2 >= m
    OBVIOUS
  <2>2. g \in [Nat \ {0} -> Nat] /\ g[l] = IF l < need THEN f[l * 2] ELSE l
    BY <2>1
  <2>3. \A n \in Nat \ {0} : n # l => g[n] = f[n]
    OBVIOUS
  <2>4. ASSUME NEW n \in Nat \ {0}, n >= l
        PROVE  g[n] = IF n < need THEN g[n * 2] ELSE n
    <3>1. n * 2 \in Nat \ {0} /\ n * 2 # l /\ (n = l \/ n >= m)
      BY <2>4
    <3>2. g[n * 2] = f[n * 2]
      BY <2>3, <3>1
    <3> QED
      BY <1>3, <2>2, <2>3, <3>1, <3>2
  <2>5. l \in T
    BY <2>1, <2>2, <2>4
  <2>6. m \in Nat /\ ~(m <= l)
    OBVIOUS
  <2> QED
    BY <1>2, <2>5, <2>6, Zenon
<1>5. f = [n \in Nat \ {0} |-> IF n < need THEN f[n * 2] ELSE n]
  BY <1>3, <1>4
<1> QED
  BY <1>5 DEF Doubling

(* The size it ends with is large enough. *)
LEMMA DoubledEnough ==
  ASSUME NEW c \in Nat \ {0}, NEW need \in Nat
  PROVE  Doubled(c, need) \in Nat /\ Doubled(c, need) >= need
<1> DEFINE f == CHOOSE g : Doubling(g, need)
           Good(n) == f[n] \in Nat /\ f[n] >= need
           B == {k \in Nat : \E n \in Nat \ {0} : k = need - n /\ ~Good(n)}
<1>1. Doubling(f, need)
  BY DoublingExists
<1>2. \A n \in Nat \ {0} : f[n] = IF n < need THEN f[n * 2] ELSE n
  BY <1>1 DEF Doubling
<1> HIDE DEF f
<1>3. B = {}
  <2> SUFFICES ASSUME B # {} PROVE FALSE
    OBVIOUS
  <2>1. PICK k \in B : \A y \in B : k <= y
    <3>1. B \subseteq Nat
      OBVIOUS
    <3> HIDE DEF B
    <3> QED
      BY <3>1, NatMin
  <2>2. PICK n \in Nat \ {0} : k = need - n /\ ~Good(n)
    OBVIOUS
  <2>3. n < need /\ f[n] = f[n * 2]
    BY <1>2, <2>2
  <2>4. ~Good(n * 2)
    BY <2>2, <2>3
  <2>5. n * 2 \in Nat \ {0} /\ n * 2 < need
    BY <1>2, <2>4
  <2>6. need - n * 2 \in B
    BY <2>4, <2>5
  <2> QED
    BY <2>1, <2>2, <2>6
<1>4. Good(c)
  <2>1. CASE c >= need
    BY <1>2, <2>1
  <2>2. CASE c < need
    <3>1. need - c \in Nat
      BY <2>2
    <3>2. ~Good(c) => need - c \in B
      BY <3>1, Zenon
    <3> QED
      BY <1>3, <3>2, Zenon
  <2> QED
    BY <2>1, <2>2
<1>5. Doubled(c, need) = f[c]
  BY DEF Doubled, Doubling, f
<1> QED
  BY <1>4, <1>5

(* One sequence is a prefix of another if it is not longer and agrees with *)
(* it at its own positions.                                                *)
LEMMA PrefixIs ==
  ASSUME NEW S, NEW s \in Seq(S), NEW t \in Seq(S)
  PROVE  IsPrefix(s, t) <=> Len(s) <= Len(t) /\ \A k \in 1..Len(s) : s[k] = t[k]
<1> DEFINE u == SubSeq(t, 1, Len(s))
<1>1. SubSeq(s, 1, Len(s)) = s
  BY SubSeqFull
<1>2. ASSUME Len(s) <= Len(t)
      PROVE  u \in Seq(S) /\ Len(u) = Len(s) /\ \A k \in 1..Len(s) : u[k] = t[k]
  BY <1>2
<1>3. ASSUME Len(s) <= Len(t), \A k \in 1..Len(s) : s[k] = t[k]
      PROVE  s = u
  <2> HIDE DEF u
  <2> QED
    BY <1>2, <1>3, SeqEqual
<1> HIDE DEF u
<1>4. IsPrefix(s, t) <=> Len(s) <= Len(t) /\ s = u
  BY <1>1 DEF IsPrefix, u
<1> QED
  BY <1>2, <1>3, <1>4

(* The positions of the library's find are those where the needle's bytes  *)
(* are.                                                                    *)
LEMMA FoundIs ==
  ASSUME needle \in Seq(Byte), NEW h \in Seq(Byte), NEW p
  PROVE  p \in Found(h) <=> /\ p \in 0..(Len(h) - Len(needle))
                            /\ \A j \in 1..Len(needle) : h[p + j] = needle[j]
<1> SUFFICES ASSUME p \in 0..(Len(h) - Len(needle))
             PROVE  SubSeq(h, p + 1, p + Len(needle)) = needle
                      <=> \A j \in 1..Len(needle) : h[p + j] = needle[j]
  BY DEF Found
<1> DEFINE u == SubSeq(h, p + 1, p + Len(needle))
<1>1. u \in Seq(Byte) /\ Len(u) = Len(needle) /\ \A j \in 1..Len(needle) : u[j] = h[p + j]
  <2> DEFINE a == p + 1
             b == p + Len(needle)
  <2>1. a \in Int /\ b \in Int /\ \A k \in a..b : h[k] \in Byte
    OBVIOUS
  <2>2. b - a + 1 = Len(needle) /\ \A j \in 1..Len(needle) : a + j - 1 = p + j
    OBVIOUS
  <2> HIDE DEF a, b
  <2>3. /\ SubSeq(h, a, b) \in Seq(Byte)
        /\ Len(SubSeq(h, a, b)) = IF a <= b THEN b - a + 1 ELSE 0
        /\ \A j \in 1..(b - a + 1) : SubSeq(h, a, b)[j] = h[a + j - 1]
    BY <2>1, SubSeqProperties
  <2>4. (IF a <= b THEN b - a + 1 ELSE 0) = Len(needle)
    BY <2>1, <2>2
  <2> QED
    BY <2>2, <2>3, <2>4 DEF a, b
<1> HIDE DEF u
<1>2. u = needle <=> \A j \in 1..Len(needle) : u[j] = needle[j]
  BY <1>1, SeqEqual
<1>3. u = needle <=> \A j \in 1..Len(needle) : h[p + j] = needle[j]
  BY <1>1, <1>2
<1> QED
  BY <1>3 DEF u

StreamType == stream \in Seq(Byte) /\ needle \in Seq(Byte) /\ hay \in Seq(Byte) /\ len \in Nat

(* The buffer holds the beginning of what the limit allows. *)
Held ==
  /\ Len(hay) <= len /\ Len(hay) <= Len(stream)
  /\ \A k \in 1..Len(hay) : hay[k] = stream[k]

(* What the limit allows is the beginning of the stream. *)
LEMMA AllowedIs ==
  ASSUME StreamType
  PROVE  /\ Allowed \in Seq(Byte)
         /\ Len(Allowed) = Smaller(len, Len(stream))
         /\ \A k \in 1..Len(Allowed) : Allowed[k] = stream[k]
BY DEF StreamType, Allowed, Smaller

(* rt_async_find_bytes and the library's find agree. *)
LEMMA OccursIsFound ==
  ASSUME StreamType, NEW p \in Nat
  PROVE  Occurs(p) <=> p \in Found(hay)
<1>1. p \in Found(hay) <=> p \in 0..(Len(hay) - Len(needle)) /\ Match(p)
  BY FoundIs DEF StreamType, Match
<1> QED
  BY <1>1 DEF StreamType, Occurs, Fits

(* A delimiter is in the buffer exactly if it ends within it. *)
LEMMA FoundKept ==
  ASSUME StreamType, Held, NEW p
  PROVE  p \in Found(hay) <=> p \in Found(Allowed) /\ p + Len(needle) <= Len(hay)
<1> USE DEF StreamType
<1>1. /\ Allowed \in Seq(Byte) /\ Len(hay) <= Len(Allowed)
      /\ \A k \in 1..Len(hay) : hay[k] = Allowed[k]
  BY AllowedIs DEF Held, Smaller
<1>2. p \in Found(hay) <=> /\ p \in 0..(Len(hay) - Len(needle))
                           /\ \A j \in 1..Len(needle) : hay[p + j] = needle[j]
  BY FoundIs
<1>3. p \in Found(Allowed) <=> /\ p \in 0..(Len(Allowed) - Len(needle))
                               /\ \A j \in 1..Len(needle) : Allowed[p + j] = needle[j]
  BY <1>1, FoundIs
<1>4. ASSUME p \in 0..(Len(hay) - Len(needle))
      PROVE  \A j \in 1..Len(needle) : hay[p + j] = Allowed[p + j]
  BY <1>1, <1>4
<1>5. p \in 0..(Len(hay) - Len(needle))
        <=> p \in 0..(Len(Allowed) - Len(needle)) /\ p + Len(needle) <= Len(hay)
  BY <1>1
<1> QED
  BY <1>2, <1>3, <1>4, <1>5

(* The sequence up to a position where the needle is. *)
LEMMA UpToIs ==
  ASSUME needle \in Seq(Byte), NEW h \in Seq(Byte), NEW p \in Found(h)
  PROVE  /\ p \in Nat /\ p + Len(needle) <= Len(h)
         /\ UpTo(h, p) \in Seq(Byte) /\ Len(UpTo(h, p)) = p + Len(needle)
         /\ \A k \in 1..(p + Len(needle)) : UpTo(h, p)[k] = h[k]
BY DEF Found, UpTo

(* Found positions are numbers, so there is a first one. *)
LEMMA FirstFound ==
  ASSUME NEW h, Found(h) # {}
  PROVE  Min(Found(h)) \in Found(h) /\ \A p \in Found(h) : Min(Found(h)) <= p
<1>1. Found(h) \subseteq Nat
  BY DEF Found
<1> QED
  BY <1>1, MinIsLeast

(* What is expected is a part of what is allowed. *)
LEMMA ExpectedIs ==
  ASSUME StreamType
  PROVE  Expected \in Seq(Byte) /\ IsPrefix(Expected, Allowed)
<1>1. Allowed \in Seq(Byte)
  BY AllowedIs
<1>2. CASE Found(Allowed) # {}
  <2> DEFINE m == Min(Found(Allowed))
  <2>1. m \in Found(Allowed)
    BY <1>2, FirstFound
  <2> HIDE DEF m
  <2>2. UpTo(Allowed, m) \in Seq(Byte) /\ IsPrefix(UpTo(Allowed, m), Allowed)
    BY <1>1, <2>1, UpToIs, PrefixIs DEF StreamType
  <2> QED
    BY <1>2, <2>2 DEF Expected, m
<1>3. CASE Found(Allowed) = {}
  BY <1>1, <1>3, PrefixIs DEF Expected
<1> QED
  BY <1>2, <1>3

(* A first delimiter in the buffer is the first of all. *)
LEMMA ExpectedFound ==
  ASSUME StreamType, Held, NEW p \in Found(hay), \A q \in Found(hay) : p <= q
  PROVE  Expected = UpTo(hay, p)
<1> USE DEF StreamType
<1> DEFINE m == Min(Found(Allowed))
<1>1. /\ Allowed \in Seq(Byte) /\ Len(hay) <= Len(Allowed)
      /\ \A k \in 1..Len(hay) : hay[k] = Allowed[k]
  BY AllowedIs DEF Held, Smaller
<1>2. p \in Nat /\ p \in Found(Allowed) /\ p + Len(needle) <= Len(hay)
  BY FoundKept, UpToIs
<1>3. m \in Found(Allowed) /\ m <= p
  BY <1>2, FirstFound
<1> HIDE DEF m
<1>4. m \in Nat /\ m + Len(needle) <= Len(hay)
  BY <1>1, <1>2, <1>3, UpToIs
<1>5. m \in Found(hay)
  BY <1>3, <1>4, FoundKept
<1>6. m = p
  BY <1>2, <1>3, <1>4, <1>5
<1>7. UpTo(Allowed, p) = UpTo(hay, p)
  <2>1. /\ UpTo(hay, p) \in Seq(Byte) /\ Len(UpTo(hay, p)) = p + Len(needle)
        /\ \A k \in 1..(p + Len(needle)) : UpTo(hay, p)[k] = hay[k]
    BY UpToIs
  <2>2. /\ UpTo(Allowed, p) \in Seq(Byte) /\ Len(UpTo(Allowed, p)) = p + Len(needle)
        /\ \A k \in 1..(p + Len(needle)) : UpTo(Allowed, p)[k] = Allowed[k]
    BY <1>1, <1>2, UpToIs
  <2>3. ASSUME NEW k \in 1..(p + Len(needle))
        PROVE  UpTo(Allowed, p)[k] = UpTo(hay, p)[k]
    <3>1. k \in 1..Len(hay)
      BY <1>2
    <3>2. hay[k] = Allowed[k]
      BY <1>1, <3>1
    <3> QED
      BY <2>1, <2>2, <3>2
  <2> QED
    BY <2>1, <2>2, <2>3, SeqEqual
<1> QED
  BY <1>2, <1>6, <1>7 DEF Expected, m

(* Without one, everything in the buffer is expected. *)
LEMMA ExpectedNotYet ==
  ASSUME StreamType, Held, Found(hay) = {}
  PROVE  IsPrefix(hay, Expected) /\ (Len(hay) = Len(Allowed) => hay = Expected)
<1> USE DEF StreamType
<1>1. /\ Allowed \in Seq(Byte) /\ Len(hay) <= Len(Allowed)
      /\ \A k \in 1..Len(hay) : hay[k] = Allowed[k]
  BY AllowedIs DEF Held, Smaller
<1>2. CASE Found(Allowed) # {}
  <2> DEFINE m == Min(Found(Allowed))
  <2>1. m \in Found(Allowed)
    BY <1>2, FirstFound
  <2> HIDE DEF m
  <2>2. /\ m \in Nat /\ m + Len(needle) <= Len(Allowed)
        /\ UpTo(Allowed, m) \in Seq(Byte) /\ Len(UpTo(Allowed, m)) = m + Len(needle)
        /\ \A k \in 1..(m + Len(needle)) : UpTo(Allowed, m)[k] = Allowed[k]
    BY <1>1, <2>1, UpToIs
  <2>3. Len(hay) < m + Len(needle)
    BY <2>1, <2>2, FoundKept
  <2>4. ASSUME NEW k \in 1..Len(hay)
        PROVE  hay[k] = UpTo(Allowed, m)[k]
    <3>1. k \in 1..(m + Len(needle))
      BY <2>2, <2>3
    <3> QED
      BY <1>1, <2>2, <3>1
  <2>5. IsPrefix(hay, UpTo(Allowed, m))
    BY <2>2, <2>3, <2>4, PrefixIs
  <2> QED
    BY <1>1, <1>2, <2>2, <2>3, <2>5 DEF Expected, m
<1>3. CASE Found(Allowed) = {}
  <2>1. IsPrefix(hay, Allowed)
    BY <1>1, PrefixIs
  <2>2. Len(hay) = Len(Allowed) => hay = Allowed
    BY <1>1, SeqEqual
  <2> QED
    BY <1>3, <2>1, <2>2 DEF Expected
<1> QED
  BY <1>2, <1>3

-----------------------------------------------------------------------------
(* The readers *)

UntilType ==
  /\ impl \in {"task", "loop"} /\ phase \in {"search", "recv", "done"}
  /\ stream \in Seq(Byte) /\ needle \in Seq(Byte) /\ hay \in Seq(Byte)
  /\ given \in 0..Len(stream)
  /\ len \in Nat \ {0} /\ cap \in Nat
  /\ failed \in BOOLEAN

(* The task is in a search, or the last one has ended; the loop never is.  *)
Searches ==
  /\ pc # "idle" => IInv
  /\ impl = "loop" => pc = "idle" /\ phase # "search"
  /\ impl = "task" /\ phase # "done" => pc # "idle"

(* What is kept is what recv has handed out, and no more than the limit. *)
SoFar ==
  phase # "done" =>
    /\ Len(hay) = given /\ given <= len
    /\ \A k \in 1..given : hay[k] = stream[k]

(* The task only asks for more after a search that found nothing. *)
NoneYet == impl = "task" /\ phase = "recv" => \A p \in 0..Len(hay) : ~Occurs(p)

(* The buffer has room for what it holds; doubling needs a size above 0. *)
Room == BufferHolds /\ (impl = "task" => cap > 0)

UntilInv == UntilType /\ Searches /\ SoFar /\ NoneYet /\ Room /\ UntilDelimiter /\ LoopKeepsAll

(* A search that is about to start, of whatever was received. *)
Blank ==
  /\ pc = "start" /\ pos = 0 /\ i = 0 /\ result = NotFound
  /\ skip = [c \in Byte |-> 0]
  /\ hay \in Seq(Byte) /\ needle \in Seq(Byte)

(* It satisfies the invariant of the search. *)
LEMMA BlankIInv == Blank => IInv
BY DEF Blank, NotFound, IInv, TypeInv, SizesFit, NoneBehind, TableSoFar, Fresh, FirstOccurrence, ShiftsSafe

(* While a reader reads, its buffer is the beginning of the stream. *)
LEMMA ReadingHolds ==
  ASSUME UntilInv, phase # "done"
  PROVE  StreamType /\ Held
BY DEF UntilInv, UntilType, SoFar, StreamType, Held

(* A state in which a reader starts satisfies the invariant. *)
LEMMA UntilInitInv == UntilInit => UntilInv
<1>1. ASSUME NEW d \in [Limits -> Nat \ {0}], Begin(d)
      PROVE  /\ stream \in Seq(Byte) /\ needle \in Seq(Byte) /\ hay \in Seq(Byte)
             /\ Len(hay) = 0 /\ given = 0 /\ given \in 0..Len(stream) /\ len \in Nat \ {0}
  <2>1. stream \in Seq(Byte) /\ needle \in Seq(Byte) /\ hay = <<>> /\ given = 0
    BY <1>1, InputAssumption DEF Begin
  <2>2. PICK n \in Limits : len = d[n]
    BY <1>1 DEF Begin
  <2> QED
    BY <2>1, <2>2
<1>2. ASSUME Len(hay) = 0, given = 0, len \in Nat
      PROVE  SoFar
  BY <1>2 DEF SoFar
<1>3. CASE TaskInit
  <2> DEFINE d == [n \in Limits |-> Clamp(n)]
  <2>1. d \in [Limits -> Nat \ {0}]
    BY LimitsAssumption, SizesPositive DEF Clamp, Smaller
  <2>2. Begin(d) /\ impl = "task" /\ cap = Smaller(len, FirstCap)
    BY <1>3 DEF TaskInit
  <2> HIDE DEF d
  <2>3. /\ stream \in Seq(Byte) /\ needle \in Seq(Byte) /\ hay \in Seq(Byte)
        /\ Len(hay) = 0 /\ given = 0 /\ given \in 0..Len(stream) /\ len \in Nat \ {0}
    BY <1>1, <2>1, <2>2
  <2>4. cap \in Nat \ {0} /\ cap <= len
    BY <2>2, <2>3, SizesPositive DEF Smaller
  <2>5. \/ phase = "search" /\ pc = "start" /\ failed = FALSE
        \/ phase = "done" /\ pc = "idle" /\ failed = TRUE
    BY <1>3 DEF TaskInit
  <2>6. UntilType /\ NoneYet /\ Room /\ LoopKeepsAll
    <3>1. UntilType
      BY <2>2, <2>3, <2>4, <2>5 DEF UntilType
    <3>2. NoneYet /\ Room /\ LoopKeepsAll
      BY <2>2, <2>3, <2>4, <2>5 DEF NoneYet, Room, BufferHolds, LoopKeepsAll
    <3> QED
      BY <3>1, <3>2
  <2>7. pc # "idle" => IInv
    <3>1. pc = "start" => Blank
      BY <2>2, <2>3 DEF Begin, Blank
    <3> QED
      BY <2>5, <3>1, BlankIInv
  <2>8. Searches
    BY <2>2, <2>5, <2>7 DEF Searches
  <2>9. UntilDelimiter
    <3>1. StreamType /\ answer = <<>>
      BY <2>2, <2>3 DEF StreamType, Begin
    <3>2. Expected \in Seq(Byte)
      BY <3>1, ExpectedIs
    <3>3. answer \in Seq(Byte) /\ Len(answer) = 0
      BY <3>1
    <3>4. Len(answer) <= Len(Expected) /\ \A k \in 1..Len(answer) : answer[k] = Expected[k]
      BY <3>2, <3>3
    <3>5. IsPrefix(answer, Expected)
      BY <3>2, <3>3, <3>4, PrefixIs
    <3> QED
      BY <2>5, <3>5 DEF UntilDelimiter
  <2> QED
    BY <1>2, <2>3, <2>6, <2>8, <2>9 DEF UntilInv
<1>4. CASE LoopInit
  <2> DEFINE d == [n \in Limits |-> IF n <= 0 THEN DefaultLen ELSE n]
  <2>1. d \in [Limits -> Nat \ {0}]
    BY LimitsAssumption, SizesPositive
  <2>2. Begin(d) /\ impl = "loop" /\ pc = "idle" /\ cap = 0 /\ phase = "recv" /\ failed = FALSE
    BY <1>4 DEF LoopInit
  <2> HIDE DEF d
  <2>3. /\ stream \in Seq(Byte) /\ needle \in Seq(Byte) /\ hay \in Seq(Byte)
        /\ Len(hay) = 0 /\ given = 0 /\ given \in 0..Len(stream) /\ len \in Nat \ {0}
    BY <1>1, <2>1, <2>2
  <2>4. UntilType
    BY <2>2, <2>3 DEF UntilType
  <2>5. Searches /\ NoneYet /\ Room /\ UntilDelimiter /\ LoopKeepsAll
    BY <2>2 DEF Searches, NoneYet, Room, BufferHolds, UntilDelimiter, LoopKeepsAll
  <2> QED
    BY <1>2, <2>3, <2>4, <2>5 DEF UntilInv
<1> QED
  BY <1>3, <1>4 DEF UntilInit

(* A reader that has ended with a right answer satisfies the invariant. *)
LEMMA EndsInv ==
  ASSUME UntilInv, phase # "done", UNCHANGED <<impl, stream, needle, len, hay, cap, search>>,
         phase' = "done", given' \in 0..Len(stream), failed' \in BOOLEAN,
         impl = "task" => IF failed' THEN IsPrefix(answer', Expected) ELSE answer' = Expected,
         impl = "loop" => /\ IsPrefix(answer', Allowed)
                          /\ ~failed' => /\ IsPrefix(Expected, answer')
                                         /\ answer' = Expected \/ Len(answer') >= len
  PROVE  UntilInv'
<1>1. UntilType' /\ SoFar' /\ NoneYet' /\ Room'
  BY DEF UntilInv, UntilType, SoFar, NoneYet, Room, BufferHolds
<1>2. UNCHANGED vars
  BY DEF vars, search
<1>3. IInv => IInv'
  BY <1>2, NextIInv
<1>4. Searches'
  BY <1>2, <1>3 DEF UntilInv, Searches, vars
<1>5. Expected' = Expected /\ Allowed' = Allowed
  BY DEF Expected, Allowed, Found, UpTo
<1>6. UntilDelimiter' /\ LoopKeepsAll'
  BY <1>5 DEF UntilDelimiter, LoopKeepsAll
<1> QED
  BY <1>1, <1>4, <1>6 DEF UntilInv

(* A task that finishes, whether its string can be allocated or not *)
LEMMA FinishInv ==
  ASSUME UntilInv, phase # "done", impl = "task",
         UNCHANGED <<impl, stream, needle, len, hay, cap, search>>,
         given' \in 0..Len(stream), NEW s, NEW lost \in BOOLEAN, Finish(s, lost),
         IsPrefix(s, Expected), lost \/ s = Expected
  PROVE  UntilInv'
<1>1. Expected \in Seq(Byte)
  BY ReadingHolds, ExpectedIs DEF UntilInv
<1>2. IsPrefix(<<>>, Expected)
  <2> DEFINE e == <<>>
  <2>1. e \in Seq(Byte) /\ Len(e) = 0 /\ Len(Expected) \in Nat
    BY <1>1
  <2> HIDE DEF e
  <2>2. Len(e) <= Len(Expected) /\ \A k \in 1..Len(e) : e[k] = Expected[k]
    BY <2>1
  <2>3. IsPrefix(e, Expected)
    BY <1>1, <2>1, <2>2, PrefixIs
  <2> QED
    BY <2>3 DEF e
<1>3. /\ phase' = "done" /\ failed' \in BOOLEAN
      /\ IF failed' THEN IsPrefix(answer', Expected) ELSE answer' = Expected
  <2>1. CASE answer' = s /\ failed' = lost
    BY <2>1 DEF Finish
  <2>2. CASE answer' = <<>> /\ failed' = TRUE
    BY <1>2, <2>2 DEF Finish
  <2> QED
    BY <2>1, <2>2 DEF Finish
<1> QED
  BY <1>3, EndsInv

(* The chunks recv may hand out are the next bytes of the stream: with one *)
(* appended the buffer is still the beginning of the stream.               *)
LEMMA HandedIs ==
  ASSUME UntilInv, phase # "done", Len(hay) < len, NEW chunk \in Handed(Smaller(len - Len(hay), Chunk))
  PROVE  /\ chunk \in Seq(Byte) /\ Len(chunk) \in Nat
         /\ given + Len(chunk) \in 0..Len(stream) /\ given + Len(chunk) <= len
         /\ hay \o chunk \in Seq(Byte) /\ Len(hay \o chunk) = given + Len(chunk)
         /\ \A k \in 1..(given + Len(chunk)) : (hay \o chunk)[k] = stream[k]
<1>1. /\ stream \in Seq(Byte) /\ hay \in Seq(Byte) /\ given \in 0..Len(stream) /\ len \in Nat
      /\ Len(hay) = given /\ \A k \in 1..given : hay[k] = stream[k]
  BY DEF UntilInv, UntilType, SoFar
<1>2. PICK n \in 1..Smaller(Smaller(len - Len(hay), Chunk), Len(stream) - given) :
             chunk = SubSeq(stream, given + 1, given + n)
  BY DEF Handed
<1>3. n \in Nat /\ given + n <= len /\ given + n <= Len(stream)
  BY <1>1, <1>2, SizesPositive DEF Smaller
<1>4. chunk \in Seq(Byte) /\ Len(chunk) = n /\ \A j \in 1..n : chunk[j] = stream[given + j]
  <2> DEFINE a == given + 1
             b == given + n
  <2>1. a \in Int /\ b \in Int /\ \A k \in a..b : stream[k] \in Byte
    BY <1>1, <1>3
  <2>2. b - a + 1 = n /\ (\A j \in 1..n : a + j - 1 = given + j) /\ (IF a <= b THEN b - a + 1 ELSE 0) = n
    BY <1>1, <1>3
  <2> HIDE DEF a, b
  <2>3. /\ SubSeq(stream, a, b) \in Seq(Byte)
        /\ Len(SubSeq(stream, a, b)) = IF a <= b THEN b - a + 1 ELSE 0
        /\ \A j \in 1..(b - a + 1) : SubSeq(stream, a, b)[j] = stream[a + j - 1]
    BY <2>1, SubSeqProperties
  <2> QED
    BY <1>2, <2>2, <2>3 DEF a, b
<1>5. /\ hay \o chunk \in Seq(Byte) /\ Len(hay \o chunk) = given + n
      /\ \A k \in 1..(given + n) : (hay \o chunk)[k] = IF k <= given THEN hay[k] ELSE chunk[k - given]
  BY <1>1, <1>3, <1>4, ConcatProperties
<1>6. ASSUME NEW k \in 1..(given + n)
      PROVE  (hay \o chunk)[k] = stream[k]
  <2>1. CASE k <= given
    BY <1>1, <1>5, <2>1
  <2>2. CASE k > given
    <3>1. k - given \in 1..n /\ given + (k - given) = k
      BY <1>1, <1>3, <2>2
    <3> QED
      BY <1>1, <1>4, <1>5, <2>2, <3>1
  <2>3. k <= given \/ k > given
    BY <1>1, <1>3
  <2> QED
    BY <2>1, <2>2, <2>3, Zenon
<1> QED
  BY <1>1, <1>3, <1>4, <1>5, <1>6

(* A step of the task's search preserves the invariant. *)
LEMMA TaskFindInv == UntilInv /\ TaskFind => UntilInv'
<1> SUFFICES ASSUME UntilInv, TaskFind PROVE UntilInv'
  OBVIOUS
<1>1. impl = "task" /\ phase = "search" /\ Next /\ IInv
  BY DEF TaskFind, UntilInv, Searches
<1>2. UNCHANGED <<impl, stream, given, len, cap, phase, answer, failed>>
  BY DEF TaskFind
<1>3. IInv'
  BY <1>1, NextIInv
<1>4. UNCHANGED <<hay, needle>>
  BY <1>1 DEF Next, Start, Plain, Build, Search, Return, Goto
<1>5. UntilType' /\ SoFar' /\ NoneYet' /\ Room'
  BY <1>1, <1>2, <1>4 DEF UntilInv, UntilType, SoFar, NoneYet, Room, BufferHolds
<1>6. pc' # "idle"
  BY <1>3 DEF IInv, TypeInv
<1>7. Searches' /\ UntilDelimiter' /\ LoopKeepsAll'
  BY <1>1, <1>2, <1>3, <1>6 DEF Searches, UntilDelimiter, LoopKeepsAll
<1> QED
  BY <1>5, <1>7 DEF UntilInv

(* So does what the task does with the result: it has found the first      *)
(* delimiter of all, or has reached the limit without one, or asks for     *)
(* more.                                                                   *)
LEMMA TaskFoundInv == UntilInv /\ TaskFound => UntilInv'
<1> SUFFICES ASSUME UntilInv, TaskFound PROVE UntilInv'
  OBVIOUS
<1>1. impl = "task" /\ phase = "search" /\ pc = "done" /\ StreamType /\ Held /\ FirstOccurrence
  BY ReadingHolds DEF TaskFound, UntilInv, Searches, IInv
<1>2. UNCHANGED <<vars, impl, stream, given, len, cap>>
  BY DEF TaskFound
<1>3. UNCHANGED <<impl, stream, needle, len, hay, cap, search>> /\ given' \in 0..Len(stream)
      /\ failed \in BOOLEAN
  BY <1>2 DEF vars, search, UntilInv, UntilType
<1>4. ASSUME NEW s, Finish(s, failed), s = Expected
      PROVE  UntilInv'
  <2>1. IsPrefix(s, Expected)
    BY <1>1, <1>4, ExpectedIs, PrefixIs
  <2> QED
    BY <1>1, <1>3, <1>4, <2>1, FinishInv
<1>5. CASE result # NotFound /\ Finish(UpTo(hay, result), failed)
  <2>1. result \in Nat /\ Occurs(result) /\ \A p \in 0..(result - 1) : ~Occurs(p)
    BY <1>1, <1>5 DEF FirstOccurrence
  <2>2. result \in Found(hay)
    BY <1>1, <2>1, OccursIsFound
  <2>3. ASSUME NEW q \in Found(hay) PROVE result <= q
    <3>1. q \in Nat /\ Occurs(q)
      BY <1>1, OccursIsFound DEF Found
    <3> QED
      BY <2>1, <3>1
  <2>4. UpTo(hay, result) = Expected
    BY <1>1, <2>2, <2>3, ExpectedFound
  <2> QED
    BY <1>4, <1>5, <2>4
<1>6. ASSUME result = NotFound
      PROVE  Found(hay) = {} /\ \A p \in 0..Len(hay) : ~Occurs(p)
  <2>1. \A p \in 0..Len(hay) : ~Occurs(p)
    BY <1>1, <1>6 DEF FirstOccurrence, NotFound
  <2>2. ASSUME NEW q \in Found(hay) PROVE FALSE
    <3>1. q \in 0..Len(hay) /\ Occurs(q)
      BY <1>1, OccursIsFound DEF Found, StreamType
    <3> QED
      BY <2>1, <3>1
  <2> QED
    BY <2>1, <2>2
<1>7. CASE result = NotFound /\ Len(hay) >= len /\ Finish(hay, failed)
  <2>1. Len(hay) = Len(Allowed)
    BY <1>1, <1>7, AllowedIs DEF Held, StreamType, Smaller
  <2>2. hay = Expected
    BY <1>1, <1>6, <1>7, <2>1, ExpectedNotYet
  <2> QED
    BY <1>4, <1>7, <2>2
<1>8. CASE result = NotFound /\ Len(hay) < len /\ phase' = "recv" /\ UNCHANGED <<answer, failed>>
  <2>1. UntilType' /\ SoFar' /\ Room'
    BY <1>1, <1>3, <1>2, <1>8 DEF UntilInv, UntilType, SoFar, Room, BufferHolds
  <2>2. NoneYet'
    BY <1>3, <1>6, <1>8 DEF NoneYet, Occurs, Fits, Match
  <2>3. Searches'
    <3>1. IInv /\ UNCHANGED vars
      BY <1>1, <1>2 DEF UntilInv, Searches
    <3>2. IInv'
      BY <3>1, NextIInv
    <3> QED
      BY <1>1, <1>2, <3>1, <3>2 DEF Searches, vars
  <2>4. UntilDelimiter' /\ LoopKeepsAll'
    BY <1>8 DEF UntilDelimiter, LoopKeepsAll
  <2> QED
    BY <2>1, <2>2, <2>3, <2>4 DEF UntilInv
<1> QED
  BY <1>5, <1>7, <1>8 DEF TaskFound

(* So does its recv.  The append is never refused for want of size: the    *)
(* size doubles until it is enough, and what recv was asked for stays      *)
(* within the limit it is cut to.                                          *)
LEMMA TaskRecvInv == UntilInv /\ TaskRecv => UntilInv'
<1> SUFFICES ASSUME UntilInv, TaskRecv PROVE UntilInv'
  OBVIOUS
<1>1. /\ impl = "task" /\ phase = "recv" /\ UNCHANGED <<impl, stream, needle, len>>
      /\ StreamType /\ Held /\ Len(hay) = given /\ given \in 0..Len(stream)
      /\ len \in Nat \ {0} /\ cap \in Nat \ {0} /\ cap <= len /\ Len(hay) <= cap
      /\ failed \in BOOLEAN
  BY ReadingHolds DEF TaskRecv, UntilInv, UntilType, SoFar, Room, BufferHolds
<1>2. Found(hay) = {}
  <2>1. ASSUME NEW q \in Found(hay) PROVE FALSE
    <3>1. q \in 0..Len(hay) /\ Occurs(q)
      BY <1>1, OccursIsFound DEF Found, StreamType
    <3> QED
      BY <1>1, <3>1 DEF UntilInv, NoneYet
  <2> QED
    BY <2>1
<1>3. IsPrefix(hay, Expected) /\ (Len(hay) = Len(Allowed) => hay = Expected)
  BY <1>1, <1>2, ExpectedNotYet
<1>4. ASSUME NEW lost \in BOOLEAN, Finish(hay, lost), UNCHANGED <<hay, cap, search>>,
             given' \in 0..Len(stream), lost \/ hay = Expected
      PROVE  UntilInv'
  BY <1>1, <1>3, <1>4, FinishInv
<1>5. CASE \E chunk \in Handed(Smaller(len - Len(hay), Chunk)) :
             given' = given + Len(chunk) /\ Received(chunk)
  <2>1. Len(hay) < len
    <3>1. PICK chunk \in Handed(Smaller(len - Len(hay), Chunk)) : TRUE
      BY <1>5
    <3>2. PICK n \in 1..Smaller(Smaller(len - Len(hay), Chunk), Len(stream) - given) : TRUE
      BY <3>1 DEF Handed
    <3> QED
      BY <1>1, <3>2, SizesPositive DEF Smaller, StreamType
  <2>2. PICK chunk \in Handed(Smaller(len - Len(hay), Chunk)) :
               given' = given + Len(chunk) /\ Received(chunk)
    BY <1>5
  <2> DEFINE need == Len(hay) + Len(chunk)
  <2>3. /\ chunk \in Seq(Byte) /\ Len(chunk) \in Nat
        /\ given + Len(chunk) \in 0..Len(stream) /\ given + Len(chunk) <= len
        /\ hay \o chunk \in Seq(Byte) /\ Len(hay \o chunk) = given + Len(chunk)
        /\ \A k \in 1..(given + Len(chunk)) : (hay \o chunk)[k] = stream[k]
    BY <1>1, <2>1, HandedIs
  <2>4. need \in Nat /\ need <= len /\ need = given + Len(chunk)
    BY <1>1, <2>3
  <2>5. NextCap(need) \in Nat /\ NextCap(need) >= need /\ NextCap(need) <= len
    <3>1. need \in Nat /\ need <= len /\ cap \in Nat \ {0} /\ len \in Nat
      BY <1>1, <2>4
    <3> HIDE DEF need
    <3>2. Doubled(cap, need) \in Nat /\ Doubled(cap, need) >= need
      BY <3>1, DoubledEnough
    <3> QED
      BY <3>1, <3>2 DEF NextCap, Smaller
  <2>6. CanAppend(chunk)
    BY <2>5 DEF CanAppend
  <2>7. CASE /\ AppendChunk(chunk) /\ CallFind /\ phase' = "search"
             /\ UNCHANGED <<answer, failed>>
    <3>1. hay' = hay \o chunk /\ cap' = IF need <= cap THEN cap ELSE NextCap(need)
      BY <2>7 DEF AppendChunk
    <3>2. Len(hay') <= cap' /\ cap' <= len /\ cap' \in Nat \ {0}
      BY <1>1, <2>3, <2>4, <2>5, <3>1
    <3>3. /\ hay' \in Seq(Byte) /\ Len(hay') = given' /\ given' \in 0..Len(stream) /\ given' <= len
          /\ \A k \in 1..given' : hay'[k] = stream[k]
      BY <2>2, <2>3, <3>1
    <3>4. UntilType'
      BY <1>1, <2>7, <3>2, <3>3 DEF UntilType, StreamType
    <3>5. SoFar' /\ NoneYet' /\ Room'
      BY <1>1, <2>7, <3>2, <3>3 DEF SoFar, NoneYet, Room, BufferHolds
    <3>6. Searches'
      <4>1. Blank'
        BY <1>1, <2>7, <3>3 DEF CallFind, Blank, StreamType
      <4>2. Blank' => IInv'
        BY BlankIInv, PTL
      <4> QED
        BY <1>1, <4>1, <4>2 DEF Searches, Blank
    <3>7. UntilDelimiter' /\ LoopKeepsAll'
      BY <2>7 DEF UntilDelimiter, LoopKeepsAll
    <3> QED
      BY <3>4, <3>5, <3>6, <3>7 DEF UntilInv
  <2>8. CASE Finish(hay, CanAppend(chunk)) /\ UNCHANGED <<hay, cap, search>>
    <3>1. given' \in 0..Len(stream)
      BY <2>2, <2>3
    <3>2. Finish(hay, TRUE)
      BY <2>6, <2>8 DEF Finish
    <3> QED
      BY <1>4, <2>8, <3>1, <3>2
  <2> QED
    BY <2>2, <2>7, <2>8 DEF Received
<1>6. CASE given = Len(stream) /\ Finish(hay, failed) /\ UNCHANGED <<given, hay, cap, search>>
  <2>1. Len(hay) = Len(Allowed)
    BY <1>1, <1>6, AllowedIs DEF Held, StreamType, Smaller
  <2> QED
    BY <1>1, <1>3, <1>4, <1>6, <2>1
<1>7. CASE Finish(hay, TRUE) /\ UNCHANGED <<given, hay, cap, search>>
  BY <1>1, <1>4, <1>7
<1> QED
  BY <1>5, <1>6, <1>7 DEF TaskRecv

(* So does a turn of the library's loop. *)
LEMMA LoopTurnInv == UntilInv /\ LoopTurn => UntilInv'
<1> SUFFICES ASSUME UntilInv, LoopTurn PROVE UntilInv'
  OBVIOUS
<1>1. /\ impl = "loop" /\ phase = "recv" /\ UNCHANGED <<search, impl, stream, needle, len, cap>>
      /\ StreamType /\ Held /\ Len(hay) = given /\ given \in 0..Len(stream) /\ failed \in BOOLEAN
  BY ReadingHolds DEF LoopTurn, UntilInv, UntilType, SoFar
<1>2. /\ Allowed \in Seq(Byte) /\ Expected \in Seq(Byte)
      /\ Len(hay) <= Len(Allowed) /\ \A k \in 1..Len(hay) : hay[k] = Allowed[k]
      /\ IsPrefix(Expected, Allowed)
  <2>1. Expected \in Seq(Byte) /\ IsPrefix(Expected, Allowed)
    BY <1>1, ExpectedIs
  <2>2. /\ Allowed \in Seq(Byte)
        /\ Len(hay) <= Len(Allowed) /\ \A k \in 1..Len(hay) : hay[k] = Allowed[k]
    BY <1>1, AllowedIs DEF Held, StreamType, Smaller
  <2> QED
    BY <2>1, <2>2
<1>3. ASSUME UNCHANGED <<given, hay>>, phase' = "done", failed' \in BOOLEAN,
             IsPrefix(answer', Allowed),
             ~failed' => /\ IsPrefix(Expected, answer')
                         /\ answer' = Expected \/ Len(answer') >= len
      PROVE  UntilInv'
  BY <1>1, <1>3, EndsInv
<1>4. IsPrefix(hay, Allowed)
  <2>1. hay \in Seq(Byte)
    BY <1>1 DEF StreamType
  <2> QED
    BY <1>2, <2>1, PrefixIs
<1>5. ASSUME LoopReturn(hay), UNCHANGED <<given, hay, failed>>, Len(hay) = Len(Allowed),
             hay = Expected \/ Len(hay) >= len
      PROVE  UntilInv'
  <2>1. hay = Allowed
    BY <1>1, <1>2, <1>5, SeqEqual DEF StreamType
  <2> QED
    BY <1>1, <1>2, <1>3, <1>4, <1>5, <2>1 DEF LoopReturn
<1>6. CASE Len(hay) >= len /\ LoopReturn(hay) /\ UNCHANGED <<given, hay, failed>>
  <2>1. Len(hay) = Len(Allowed)
    BY <1>1, <1>6, AllowedIs DEF Held, StreamType, Smaller
  <2> QED
    BY <1>5, <1>6, <2>1
<1>7. CASE /\ Len(hay) < len /\ Found(hay) # {}
           /\ LoopReturn(UpTo(hay, Min(Found(hay)))) /\ UNCHANGED <<given, hay, failed>>
  <2> DEFINE m == Min(Found(hay))
  <2>1. m \in Found(hay) /\ \A q \in Found(hay) : m <= q
    BY <1>7, FirstFound
  <2> HIDE DEF m
  <2>2. UpTo(hay, m) = Expected
    BY <1>1, <2>1, ExpectedFound
  <2>3. answer' = Expected /\ phase' = "done"
    BY <1>7, <2>2 DEF LoopReturn, m
  <2>4. IsPrefix(Expected, Expected)
    BY <1>2, PrefixIs
  <2> QED
    BY <1>1, <1>2, <1>3, <1>7, <2>3, <2>4
<1>8. CASE /\ Len(hay) < len
           /\ \E chunk \in Handed(LoopWant) :
                /\ given' = given + Len(chunk)
                /\ hay' = hay \o chunk
                /\ UNCHANGED <<phase, answer, failed>>
  <2>1. PICK chunk \in Handed(Smaller(len - Len(hay), Chunk)) :
               given' = given + Len(chunk) /\ hay' = hay \o chunk /\ UNCHANGED <<phase, answer, failed>>
    BY <1>8 DEF LoopWant
  <2>2. /\ chunk \in Seq(Byte) /\ Len(chunk) \in Nat
        /\ given + Len(chunk) \in 0..Len(stream) /\ given + Len(chunk) <= len
        /\ hay \o chunk \in Seq(Byte) /\ Len(hay \o chunk) = given + Len(chunk)
        /\ \A k \in 1..(given + Len(chunk)) : (hay \o chunk)[k] = stream[k]
    BY <1>1, <1>8, HandedIs
  <2>3. /\ hay' \in Seq(Byte) /\ Len(hay') = given' /\ given' \in 0..Len(stream) /\ given' <= len
        /\ \A k \in 1..given' : hay'[k] = stream[k]
    BY <2>1, <2>2
  <2>4. UntilType'
    BY <1>1, <2>1, <2>3 DEF UntilInv, UntilType
  <2>5. SoFar' /\ NoneYet' /\ Room'
    BY <1>1, <2>1, <2>3 DEF SoFar, NoneYet, Room, BufferHolds
  <2>6. Searches' /\ UntilDelimiter' /\ LoopKeepsAll'
    BY <1>1, <2>1 DEF UntilInv, Searches, search, UntilDelimiter, LoopKeepsAll
  <2> QED
    BY <2>4, <2>5, <2>6 DEF UntilInv
<1>9. CASE /\ given = Len(stream) /\ Found(hay) = {}
           /\ LoopReturn(hay) /\ UNCHANGED <<given, hay, failed>>
  <2>1. Len(hay) = Len(Allowed)
    BY <1>1, <1>9, AllowedIs DEF Held, StreamType, Smaller
  <2>2. hay = Expected
    BY <1>1, <1>9, <2>1, ExpectedNotYet
  <2> QED
    BY <1>5, <1>9, <2>1, <2>2
<1>10. CASE LoopReturn(hay) /\ failed' = TRUE /\ UNCHANGED <<given, hay>>
  BY <1>3, <1>4, <1>10 DEF LoopReturn
<1> QED
  BY <1>6, <1>7, <1>8, <1>9, <1>10 DEF LoopTurn

(* So does every step. *)
LEMMA UntilNextInv == UntilInv /\ [UntilNext]_untilVars => UntilInv'
<1> SUFFICES ASSUME UntilInv, [UntilNext]_untilVars PROVE UntilInv'
  OBVIOUS
<1>1. CASE UNCHANGED untilVars
  <2>1. UNCHANGED <<impl, stream, given, len, cap, phase, answer, failed>> /\ UNCHANGED vars
    BY <1>1 DEF untilVars
  <2>2. UNCHANGED <<needle, hay, pc>>
    BY <2>1 DEF vars
  <2>3. IInv => IInv'
    BY <2>1, NextIInv
  <2>4. UntilType' /\ SoFar' /\ Room' /\ Searches'
    BY <2>1, <2>2, <2>3 DEF UntilInv, UntilType, SoFar, Room, BufferHolds, Searches
  <2>5. NoneYet'
    BY <2>1, <2>2 DEF UntilInv, NoneYet, Occurs, Fits, Match
  <2>6. Expected' = Expected /\ Allowed' = Allowed
    BY <2>1, <2>2 DEF Expected, Allowed, Found, UpTo
  <2>7. UntilDelimiter' /\ LoopKeepsAll'
    BY <2>1, <2>6 DEF UntilInv, UntilDelimiter, LoopKeepsAll
  <2> QED
    BY <2>4, <2>5, <2>7 DEF UntilInv
<1> QED
  BY <1>1, TaskFindInv, TaskFoundInv, TaskRecvInv, LoopTurnInv DEF UntilNext

(* So it always holds. *)
LEMMA UntilAlways == UntilSpec => []UntilInv
BY UntilInitInv, UntilNextInv, PTL DEF UntilSpec

(* Whatever the stream, the delimiter and the limit, and however recv cuts *)
(* the stream, RT_ASYNC_READ_UNTIL returns the stream up to the first      *)
(* delimiter, the limit or the end, and less only after a recv or an       *)
(* allocation failed; the largest size its buffer may have is never the    *)
(* reason.                                                                 *)
THEOREM TaskReadsUntil == UntilSpec => []UntilDelimiter
<1>1. UntilInv => UntilDelimiter
  BY DEF UntilInv
<1> QED
  BY <1>1, UntilAlways, PTL

(* The memcpy of rt_async_read_until_append stays inside the buffer, and   *)
(* the buffer within the limit, for every first size, limit and chunk.     *)
THEOREM TaskBufferHolds == UntilSpec => []BufferHolds
<1>1. UntilInv => BufferHolds
  BY DEF UntilInv, Room
<1> QED
  BY <1>1, UntilAlways, PTL

(* read_socket_until returns no byte beyond the limit and, unless a read   *)
(* fails, drops none before the first delimiter, for every stream, limit   *)
(* and chunk; bytes behind the delimiter come only with a full limit.      *)
THEOREM LoopReadsUntil == UntilSpec => []LoopKeepsAll
<1>1. UntilInv => LoopKeepsAll
  BY DEF UntilInv
<1> QED
  BY <1>1, UntilAlways, PTL

(* Each search the task makes, of every buffer it may have by then,        *)
(* returns the first occurrence of the delimiter.                          *)
THEOREM TaskSearchesRight == UntilSpec => []FirstOccurrence
<1>1. UntilInv => FirstOccurrence
  BY DEF UntilInv, Searches, IInv, FirstOccurrence
<1> QED
  BY <1>1, UntilAlways, PTL

===============================================================================
