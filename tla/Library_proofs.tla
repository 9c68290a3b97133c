--------------------------- MODULE Library_proofs ---------------------------
(***************************************************************************)
(* Two parts of the standard library.                                      *)
(*                                                                         *)
(* A queue or channel, for every set of values, capacity and compaction    *)
(* threshold.  FifoOrder is its own strengthening: with the type it is     *)
(* inductive.                                                              *)
(*                                                                         *)
(* parallel_map maps every item in its place, for lists and budgets of any *)
(* length, when the threads could be started.  The ranges of chunk_ranges  *)
(* follow each other; thread k's results are the items of range k as far   *)
(* as it got; and what was joined so far is what lies before the next      *)
(* range.                                                                  *)
(***************************************************************************)
EXTENDS Channel, Parallel, TLAPS, SequenceTheorems

-----------------------------------------------------------------------------
(* Queues and channels *)

ChanInv == ChanTypeOK /\ FifoOrder

(* What compaction returns: a queue of the same length with the same items *)
(* from head on.                                                           *)
LEMMA CompactedSame ==
  ASSUME NEW list \in Seq(Value), NEW from \in Nat, from <= Len(list)
  PROVE  LET c == Compacted(list, from)
         IN  /\ c.items \in Seq(Value) /\ c.head \in Nat /\ c.head <= Len(c.items)
             /\ Len(c.items) - c.head = Len(list) - from
             /\ \A k \in 1..(Len(list) - from) : c.items[c.head + k] = list[from + k]
<1> DEFINE tail == SubSeq(list, from + 1, Len(list))
<1>1. CASE from <= Compact \/ from * 2 < Len(list)
  BY <1>1 DEF Compacted
<1>2. CASE ~(from <= Compact \/ from * 2 < Len(list))
  <2>1. Compacted(list, from) = [items |-> tail, head |-> 0]
    BY <1>2 DEF Compacted
  <2>2. /\ tail \in Seq(Value)
        /\ Len(tail) = Len(list) - from
        /\ \A k \in 1..(Len(list) - from) : tail[k] = list[from + k]
    OBVIOUS
  <2>3. 0 <= Compact
    BY ChannelAssumption
  <2> QED BY <2>1, <2>2, <2>3
<1> QED BY <1>1, <1>2

(* A copy moves no more items than there were dead ones. *)
LEMMA CompactedCheap ==
  ASSUME NEW list \in Seq(Value), NEW from \in Nat, from <= Len(list)
  PROVE  LET c == Compacted(list, from)
         IN  \/ c.head = from
             \/ c.head = 0 /\ Len(c.items) \in Nat /\ Len(c.items) <= from
<1>1. CASE from <= Compact \/ from * 2 < Len(list)
  BY <1>1 DEF Compacted
<1>2. CASE ~(from <= Compact \/ from * 2 < Len(list))
  <2>1. Compacted(list, from) = [items |-> SubSeq(list, from + 1, Len(list)), head |-> 0]
    BY <1>2 DEF Compacted
  <2>2. Len(SubSeq(list, from + 1, Len(list))) = Len(list) - from
    OBVIOUS
  <2> QED BY <1>2, <2>1, <2>2
<1> QED BY <1>1, <1>2

LEMMA ChanInvInit == ChanInit => ChanInv
<1> SUFFICES ASSUME ChanInit PROVE ChanTypeOK /\ FifoOrder
  BY DEF ChanInv
<1>1. <<>> \in Seq(Value) /\ Len(<<>>) = 0
  OBVIOUS
<1>2. ChanTypeOK
  BY <1>1 DEF ChanInit, ChanTypeOK
<1>3. Len(items) = 0 /\ Len(sent) = 0 /\ Len(taken) = 0 /\ head = 0
  BY <1>1 DEF ChanInit
<1> QED BY <1>2, <1>3 DEF FifoOrder

LEMMA ChanInvSend == ChanInv /\ ChanSend => ChanInv'
<1> SUFFICES ASSUME ChanInv, ChanSend PROVE ChanInv'
  OBVIOUS
<1> USE DEF ChanInv, ChanTypeOK, FifoOrder
<1>1. CASE closed \/ Full
  BY <1>1 DEF ChanSend
<1>2. CASE ~(closed \/ Full)
  <2> PICK v \in Value : Push(v) /\ answer' = TRUE
    BY <1>2 DEF ChanSend
  <2> USE DEF Push
  <2>1. ChanTypeOK'
    OBVIOUS
  <2>2. head' <= Len(items') /\ Len(sent') = Len(taken') + (Len(items') - head')
    OBVIOUS
  <2>3. \A k \in 1..Len(taken') : taken'[k] = sent'[k]
    OBVIOUS
  <2>4. ASSUME NEW k \in 1..(Len(items') - head')
        PROVE  items'[head' + k] = sent'[Len(taken') + k]
    <3>1. CASE k <= Len(items) - head
      BY <3>1
    <3>2. CASE k = Len(items) - head + 1
      BY <3>2
    <3>3. Len(items') = Len(items) + 1 /\ head' = head
      OBVIOUS
    <3>4. Len(items) \in Nat /\ head \in Nat
      OBVIOUS
    <3> HIDE DEF ChanInv, ChanTypeOK, FifoOrder, Push
    <3>5. k <= Len(items) - head \/ k = Len(items) - head + 1
      BY <3>3, <3>4
    <3> QED BY <3>1, <3>2, <3>5
  <2> QED BY <2>1, <2>2, <2>3, <2>4
<1> QED BY <1>1, <1>2

LEMMA ChanInvRecv == ChanInv /\ ChanRecv => ChanInv'
<1> SUFFICES ASSUME ChanInv, ChanRecv PROVE ChanInv'
  OBVIOUS
<1> USE DEF ChanInv, ChanTypeOK, FifoOrder
<1>1. CASE queue_empty
  BY <1>1 DEF ChanRecv
<1>2. CASE ~queue_empty
  <2> DEFINE c == Compacted(items, head + 1)
  <2>1. head + 1 <= Len(items)
    BY <1>2 DEF queue_empty, queue_len
  <2>2. /\ taken' = Append(taken, items[head + 1])
        /\ items' = c.items /\ head' = c.head
        /\ sent' = sent /\ closed' = closed /\ answer' = TRUE
    BY <1>2 DEF ChanRecv
  <2>3. /\ c.items \in Seq(Value) /\ c.head \in Nat /\ c.head <= Len(c.items)
        /\ Len(c.items) - c.head = Len(items) - (head + 1)
        /\ \A k \in 1..(Len(items) - (head + 1)) : c.items[c.head + k] = items[(head + 1) + k]
    <3>1. head + 1 \in Nat /\ items \in Seq(Value)
      OBVIOUS
    <3> HIDE DEF ChanInv, ChanTypeOK, FifoOrder
    <3> QED BY <2>1, <3>1, CompactedSame
  <2> HIDE DEF c
  <2>4. items[head + 1] \in Value /\ items[head + 1] = sent[Len(taken) + 1]
    BY <2>1
  <2>5. ChanTypeOK'
    <3>1. copied' = copied + (IF c.head = 0 THEN Len(c.items) ELSE 0)
      BY <1>2 DEF ChanRecv, c
    <3>2. copied' \in Nat
      BY <2>3, <3>1
    <3> QED BY <2>2, <2>3, <2>4, <3>2
  <2>6. head' <= Len(items') /\ Len(sent') = Len(taken') + (Len(items') - head')
    BY <2>2, <2>3, <2>4
  <2>7. \A k \in 1..Len(taken') : taken'[k] = sent'[k]
    BY <2>2, <2>4
  <2>8. ASSUME NEW k \in 1..(Len(items') - head')
        PROVE  items'[head' + k] = sent'[Len(taken') + k]
    <3>1. k \in 1..(Len(items) - (head + 1)) /\ k + 1 \in 1..(Len(items) - head)
      BY <2>1, <2>2, <2>3
    <3>2. items'[head' + k] = items[head + (k + 1)]
      BY <3>1, <2>2, <2>3
    <3>3. items[head + (k + 1)] = sent[Len(taken) + (k + 1)]
      BY <3>1
    <3>4. Len(taken') + k = Len(taken) + (k + 1)
      BY <2>2, <2>4, <3>1
    <3> QED BY <2>2, <3>2, <3>3, <3>4
  <2> QED BY <2>5, <2>6, <2>7, <2>8
<1> QED BY <1>1, <1>2

LEMMA ChanInvNext == ChanInv /\ [ChanNext]_chanVars => ChanInv'
<1> SUFFICES ASSUME ChanInv, [ChanNext]_chanVars PROVE ChanInv'
  OBVIOUS
<1>1. CASE ChanSend
  BY <1>1, ChanInvSend
<1>2. CASE ChanRecv
  BY <1>2, ChanInvRecv
<1>3. CASE ChanClose
  BY <1>3 DEF ChanClose, ChanInv, ChanTypeOK, FifoOrder
<1>4. CASE QueueClear
  BY <1>4 DEF QueueClear, ChanInv, ChanTypeOK, FifoOrder
<1>5. CASE UNCHANGED chanVars
  BY <1>5 DEF chanVars, ChanInv, ChanTypeOK, FifoOrder
<1> QED BY <1>1, <1>2, <1>3, <1>4, <1>5 DEF ChanNext

(* The type of a channel: queue_push, queue_pop and chan_close keep it. *)
THEOREM ChannelTypeCorrect == ChanSpec => []ChanTypeOK
<1>1. ChanInv => ChanTypeOK
  BY DEF ChanInv
<1> QED BY ChanInvInit, ChanInvNext, <1>1, PTL DEF ChanSpec

(* queue_pop hands out what queue_push accepted, in order, once each,      *)
(* however often _queue_compact copies the list.                           *)
THEOREM ChannelFifo == ChanSpec => []FifoOrder
<1>1. ChanInv => FifoOrder
  BY DEF ChanInv
<1> QED BY ChanInvInit, ChanInvNext, <1>1, PTL DEF ChanSpec

(* chan_send never lets a bounded channel grow past its capacity. *)
THEOREM ChannelCapacity == ChanSpec => []WithinCapacity
<1>1. ChanInit => WithinCapacity
  BY ChannelAssumption DEF ChanInit, WithinCapacity, queue_len
<1>2. ChanInv /\ WithinCapacity /\ [ChanNext]_chanVars => WithinCapacity'
  <2> SUFFICES ASSUME ChanInv, WithinCapacity, [ChanNext]_chanVars, Capacity > 0
               PROVE  queue_len' <= Capacity
    BY DEF WithinCapacity
  <2> USE ChannelAssumption DEF ChanInv, ChanTypeOK, FifoOrder, WithinCapacity, queue_len
  <2>1. CASE ChanSend
    BY <2>1 DEF ChanSend, Push, Full
  <2>2. CASE ChanRecv
    <3>1. CASE queue_empty
      BY <2>2, <3>1 DEF ChanRecv
    <3>2. CASE ~queue_empty
      <4> DEFINE c == Compacted(items, head + 1)
      <4>1. head + 1 <= Len(items) /\ items' = c.items /\ head' = c.head
        BY <2>2, <3>2 DEF ChanRecv, queue_empty
      <4>2. Len(c.items) - c.head = Len(items) - (head + 1)
        BY <4>1, CompactedSame
      <4> HIDE DEF c
      <4> QED BY <4>1, <4>2
    <3> QED BY <3>1, <3>2
  <2>3. CASE ChanClose
    BY <2>3 DEF ChanClose
  <2>4. CASE QueueClear
    BY <2>4 DEF QueueClear
  <2>5. CASE UNCHANGED chanVars
    BY <2>5 DEF chanVars
  <2> QED BY <2>1, <2>2, <2>3, <2>4, <2>5 DEF ChanNext
<1> QED BY ChanInvInit, ChanInvNext, <1>1, <1>2, PTL DEF ChanSpec

(* What the copies of _queue_compact moved is at most what queue_pop       *)
(* handed out.  The invariant keeps the dead items as the credit of the    *)
(* next copy: it moves no more than there are of them, and drops them.     *)
Credit == copied + head <= Len(taken)

THEOREM ChannelCopiesPaid == ChanSpec => []CopiesPaid
<1>1. ChanInit => Credit
  BY DEF ChanInit, Credit
<1>2. ChanInv /\ Credit /\ [ChanNext]_chanVars => Credit'
  <2> SUFFICES ASSUME ChanInv, Credit, [ChanNext]_chanVars PROVE Credit'
    OBVIOUS
  <2> USE DEF ChanInv, ChanTypeOK, FifoOrder, Credit
  <2>1. CASE ChanSend
    BY <2>1 DEF ChanSend, Push
  <2>2. CASE ChanRecv
    <3>1. CASE queue_empty
      BY <2>2, <3>1 DEF ChanRecv
    <3>2. CASE ~queue_empty
      <4> DEFINE c == Compacted(items, head + 1)
      <4>1. /\ head + 1 <= Len(items) /\ head' = c.head
            /\ taken' = Append(taken, items[head + 1])
            /\ copied' = copied + (IF c.head = 0 THEN Len(c.items) ELSE 0)
        BY <2>2, <3>2 DEF ChanRecv, queue_empty, queue_len
      <4>2. \/ c.head = head + 1
            \/ c.head = 0 /\ Len(c.items) \in Nat /\ Len(c.items) <= head + 1
        <5>1. head + 1 \in Nat /\ items \in Seq(Value) /\ head + 1 <= Len(items)
          BY <4>1
        <5> HIDE DEF ChanInv, ChanTypeOK, FifoOrder, Credit
        <5> QED BY <5>1, CompactedCheap
      <4>3. Len(taken') = Len(taken) + 1
        BY <4>1
      <4> HIDE DEF c
      <4> QED BY <4>1, <4>2, <4>3
    <3> QED BY <3>1, <3>2
  <2>3. CASE ChanClose
    BY <2>3 DEF ChanClose
  <2>4. CASE QueueClear
    BY <2>4 DEF QueueClear
  <2>5. CASE UNCHANGED chanVars
    BY <2>5 DEF chanVars
  <2> QED BY <2>1, <2>2, <2>3, <2>4, <2>5 DEF ChanNext
<1>3. ChanInv /\ Credit => CopiesPaid
  BY DEF ChanInv, ChanTypeOK, Credit, CopiesPaid
<1> QED BY ChanInvInit, ChanInvNext, <1>1, <1>2, <1>3, PTL DEF ChanSpec

(* A closed channel takes nothing more and still gives what it holds. *)
THEOREM ChannelDrains == ChanSpec => ClosedDrains
<1> DEFINE Drains == closed => /\ closed'
                               /\ Len(sent') <= Len(sent)
                               /\ (sent' = sent => (queue_len' = queue_len \/ Len(taken') = Len(taken) + 1))
<1>1. ChanInv /\ [ChanNext]_chanVars => [Drains]_chanVars
  <2> SUFFICES ASSUME ChanInv, ChanNext, closed PROVE Drains
    BY DEF ClosedDrains
  <2> USE DEF ChanInv, ChanTypeOK, FifoOrder
  <2>1. CASE ChanSend
    BY <2>1 DEF ChanSend, queue_len
  <2>2. CASE ChanRecv
    BY <2>2 DEF ChanRecv, queue_len, queue_empty
  <2>3. CASE ChanClose
    BY <2>3 DEF ChanClose, queue_len
  <2>4. CASE QueueClear
    BY <2>4 DEF QueueClear, queue_len
  <2> QED BY <2>1, <2>2, <2>3, <2>4 DEF ChanNext
<1> QED BY ChanInvInit, ChanInvNext, <1>1, PTL DEF ChanSpec, ClosedDrains

-----------------------------------------------------------------------------
(* The parallel map *)

Chunk == [from : Nat, to : Nat]

ChunkType ==
  /\ pc \in {"start", "chunk", "spawn", "join", "done", "crashed"}
  /\ n \in Nat /\ workers \in Nat /\ workers > 0
  /\ start \in Nat /\ start <= n
  /\ ranges \in Seq(Chunk)
  /\ pc = "start" => ranges = <<>>

ChunkInv == ChunkType /\ ChunksCover

PartType ==
  /\ part \in Seq(Seq(Nat)) /\ ok \in Seq(BOOLEAN)
  /\ joined \in Nat /\ out \in Seq(Nat) /\ count \in Int

(* Threads stand for the first ranges, each with its first items done. *)
PartsExact ==
  /\ Len(part) <= Len(ranges) /\ Len(ok) = Len(part)
  /\ \A k \in 1..Len(part) :
       /\ Len(part[k]) <= Size(k)
       /\ \A j \in 1..Len(part[k]) : part[k][j] = ranges[k].from + j

(* What has not begun, and what is complete *)
Stages ==
  /\ pc \in {"start", "chunk"} => part = <<>>
  /\ pc = "join" => Len(part) = Len(ranges)
  /\ pc \in {"start", "chunk", "spawn"} => joined = 0 /\ out = <<>> /\ count = 0

(* Where the last range that was joined ends *)
JoinedTo == IF joined = 0 THEN 0 ELSE ranges[joined].to

(* What was joined lies before the next range. *)
JoinedBelow ==
  pc = "join" => joined <= Len(part) /\ \A j \in 1..Len(out) : out[j] <= JoinedTo

IInv == ChunkInv /\ PartType /\ PartsExact /\ Stages /\ JoinedBelow /\ OrderKept

(* What was joined is a prefix, when every thread could be started. *)
JoinedExact ==
  pc = "join" =>
    /\ Len(out) = JoinedTo
    /\ count = Len(out)
    /\ \A j \in 1..Len(out) : out[j] = j

Exact == AllStarted => JoinedExact /\ InPlace

-----------------------------------------------------------------------------
(* chunk_ranges *)

LEMMA ChunkPositive ==
  ASSUME NEW a \in Nat, NEW w \in Nat, a > 0, w > 0
  PROVE  (a + w - 1) \div w \in Nat /\ (a + w - 1) \div w > 0
<1> DEFINE q == (a + w - 1) \div w
<1>1. q \in Int /\ a + w - 1 < w * (q + 1)
  OBVIOUS
<1>2. ASSUME q <= 0 PROVE FALSE
  <2> HIDE DEF q
  <2>1. w * (q + 1) <= w
    BY <1>1, <1>2
  <2> QED BY <1>1, <2>1
<1> QED BY <1>1, <1>2

LEMMA BudgetPositive ==
  ASSUME n \in Nat, effective \in Int, max \in Int
  PROVE  thread_budget \in Nat /\ thread_budget > 0
BY DEF thread_budget, Capped, Limited

LEMMA SizePositive ==
  ASSUME ChunkInv, NEW k \in 1..Len(ranges)
  PROVE  /\ ranges[k].from \in Nat /\ ranges[k].to \in Nat
         /\ Size(k) \in Nat /\ ranges[k].to = ranges[k].from + Size(k)
         /\ ranges[k].from = (IF k = 1 THEN 0 ELSE ranges[k - 1].to)
<1>1. ranges[k] \in Chunk
  BY DEF ChunkInv, ChunkType
<1>2. ranges[k].from < ranges[k].to /\ ranges[k].from = IF k = 1 THEN 0 ELSE ranges[k - 1].to
  BY DEF ChunkInv, ChunksCover
<1> QED BY <1>1, <1>2 DEF Chunk, Size

(* The arguments: ranges and start do not depend on them once chosen *)
ArgType == effective \in Int /\ max \in Int

LEMMA ChunkInit == Init => ChunkInv /\ ArgType
<1> SUFFICES ASSUME Init PROVE ChunkInv /\ ArgType
  OBVIOUS
<1>1. ranges \in Seq(Chunk) /\ Len(ranges) = 0
  BY DEF Init
<1>2. n \in Nat /\ ArgType
  BY ParallelAssumption DEF Init, ArgType, effective_threads
<1> QED BY <1>1, <1>2 DEF Init, ChunkInv, ChunkType, ChunksCover

LEMMA ChunkStep == ChunkInv /\ ChunkRange => ChunkInv'
<1> SUFFICES ASSUME ChunkInv, ChunkRange PROVE ChunkInv'
  OBVIOUS
<1>1. CASE start < n /\ ranges' = Append(ranges, [from |-> start, to |-> Stop]) /\ start' = Stop /\ UNCHANGED pc
  <2> DEFINE r == [from |-> start, to |-> Stop]
  <2>1. start \in Nat /\ n \in Nat /\ n > 0 /\ ranges \in Seq(Chunk)
    BY <1>1 DEF ChunkInv, ChunkType
  <2>2. chunk \in Nat /\ chunk > 0
    BY <2>1, ChunkPositive DEF chunk, ChunkInv, ChunkType
  <2>3. Stop \in Nat /\ start < Stop /\ Stop <= n
    BY <1>1, <2>1, <2>2 DEF Stop
  <2>4. r \in Chunk /\ r.from = start /\ r.to = Stop
    BY <2>1, <2>3 DEF Chunk
  <2> HIDE DEF r
  <2>5. /\ ranges' \in Seq(Chunk) /\ Len(ranges') = Len(ranges) + 1 /\ Len(ranges) \in Nat
        /\ ranges'[Len(ranges) + 1] = r
        /\ \A k \in 1..Len(ranges) : ranges'[k] = ranges[k]
    BY <1>1, <2>1, <2>4 DEF r
  <2>6. n' = n /\ workers' = workers /\ pc' = "chunk"
    BY <1>1 DEF ChunkRange, args
  <2>7. ASSUME NEW k \in 1..Len(ranges')
        PROVE  /\ ranges'[k].from = (IF k = 1 THEN 0 ELSE ranges'[k - 1].to)
               /\ ranges'[k].from < ranges'[k].to /\ ranges'[k].to <= n'
    <3>1. CASE k \in 1..Len(ranges)
      <4>1. k # 1 => k - 1 \in 1..Len(ranges)
        BY <3>1, <2>5
      <4>2. /\ ranges[k].from = (IF k = 1 THEN 0 ELSE ranges[k - 1].to)
            /\ ranges[k].from < ranges[k].to /\ ranges[k].to <= n
        BY <3>1 DEF ChunkInv, ChunksCover
      <4> QED BY <3>1, <4>1, <4>2, <2>5, <2>6
    <3>2. CASE k = Len(ranges) + 1
      <4>1. start = IF Len(ranges) = 0 THEN 0 ELSE ranges[Len(ranges)].to
        BY <2>1 DEF ChunkInv, ChunksCover
      <4>2. Len(ranges) # 0 => Len(ranges) \in 1..Len(ranges) /\ k - 1 = Len(ranges)
        BY <2>5, <3>2
      <4> QED BY <3>2, <4>1, <4>2, <2>3, <2>4, <2>5, <2>6
    <3> QED BY <3>1, <3>2, <2>5
  <2>8. start' = (IF ranges' = <<>> THEN 0 ELSE ranges'[Len(ranges')].to)
    BY <1>1, <2>4, <2>5
  <2>9. ChunksCover'
    BY <2>6, <2>7, <2>8 DEF ChunksCover
  <2> QED BY <1>1, <2>3, <2>5, <2>6, <2>9 DEF ChunkInv, ChunkType
<1>2. CASE start >= n /\ pc' = "spawn" /\ UNCHANGED <<ranges, start>>
  <2>1. n' = n /\ workers' = workers /\ start = n
    BY <1>2 DEF ChunkRange, args, ChunkInv, ChunkType
  <2> QED BY <1>2, <2>1 DEF ChunkInv, ChunkType, ChunksCover
<1> QED BY <1>1, <1>2 DEF ChunkRange

LEMMA ChunkNext == ChunkInv /\ ArgType /\ [Next]_vars => ChunkInv' /\ ArgType'
<1> SUFFICES ASSUME ChunkInv, ArgType, [Next]_vars PROVE ChunkInv' /\ ArgType'
  OBVIOUS
<1>1. ArgType'
  BY DEF Next, vars, args, ArgType, Serial, Threaded, ChunkRange, Spawn, Work, Join
<1>2. CASE ChunkRange
  BY <1>1, <1>2, ChunkStep
<1>3. CASE Threaded
  <2>1. n \in Nat /\ pc = "start"
    BY <1>3 DEF Threaded, ChunkInv, ChunkType
  <2>2. workers' \in Nat /\ workers' > 0
    BY <1>3, <2>1, BudgetPositive DEF Threaded, ArgType
  <2> QED BY <1>1, <1>3, <2>2 DEF Threaded, args, ChunkInv, ChunkType, ChunksCover
<1>4. CASE Serial \/ Spawn \/ Join \/ (\E i \in 1..Len(part) : Work(i)) \/ UNCHANGED vars
  <2>1. UNCHANGED <<n, workers, ranges, start>>
    BY <1>4 DEF Serial, Spawn, Join, Work, vars, args
  <2>2. \/ pc' = pc
        \/ pc' = "done"
        \/ pc' = "crashed"
        \/ pc = "spawn" /\ pc' = "join"
    BY <1>4 DEF Serial, Spawn, Join, Work, vars
  <2> QED BY <1>1, <2>1, <2>2 DEF ChunkInv, ChunkType, ChunksCover
<1> QED BY <1>1, <1>2, <1>3, <1>4 DEF Next

(* chunk_ranges cuts 0..count into consecutive ranges that are not empty,  *)
(* for every count and number of workers.                                  *)
THEOREM ParallelChunks == Spec => []ChunksCover
<1>1. ChunkInv => ChunksCover
  BY DEF ChunkInv
<1> QED BY ChunkInit, ChunkNext, <1>1, PTL DEF Spec

-----------------------------------------------------------------------------
(* The number of ranges.  Every range but the last has the size of a chunk *)
(* (chunk_ranges), so that what is left once there are k of them begins at *)
(* k chunks; and as many chunks as there are workers cover all the items.  *)

LEMMA ChunksReach ==
  ASSUME NEW a \in Nat, NEW w \in Nat, w > 0
  PROVE  /\ (a + w - 1) \div w \in Int
         /\ a <= w * ((a + w - 1) \div w)
<1> DEFINE q == (a + w - 1) \div w
<1>1. q \in Int /\ a + w - 1 < w * (q + 1)
  OBVIOUS
<1> HIDE DEF q
<1>2. w * (q + 1) = w * q + w /\ w * q \in Int
  BY <1>1
<1>3. a <= w * q
  BY <1>1, <1>2
<1> QED BY <1>1, <1>3 DEF q

ChunkMultiple == start = n \/ start = Len(ranges) * chunk

BudgetInv == BudgetKept /\ ChunkMultiple /\ (pc = "start" => workers = 1)

LEMMA BudgetWithin ==
  ASSUME n \in Nat, effective \in Int, max \in Int
  PROVE  (n > 0 => thread_budget <= n) /\ (max > 0 => thread_budget <= max)
BY DEF thread_budget, Capped, Limited

LEMMA BudgetInit == Init => BudgetInv
<1> SUFFICES ASSUME Init PROVE BudgetInv
  OBVIOUS
<1>1. n \in Nat /\ max \in Int /\ workers = 1 /\ start = 0 /\ Len(ranges) = 0
  BY ParallelAssumption DEF Init
<1>2. chunk \in Int
  BY <1>1, ChunksReach DEF chunk
<1> QED BY <1>1, <1>2 DEF BudgetInv, BudgetKept, ChunkMultiple

LEMMA BudgetNext == ChunkInv /\ ArgType /\ BudgetInv /\ [Next]_vars => BudgetInv'
<1> SUFFICES ASSUME ChunkInv, ArgType, BudgetInv, [Next]_vars PROVE BudgetInv'
  OBVIOUS
<1>1. /\ n \in Nat /\ workers \in Nat /\ workers > 0 /\ start \in Nat /\ start <= n
      /\ ranges \in Seq(Chunk) /\ Len(ranges) \in Nat /\ max \in Int /\ effective \in Int
  BY DEF ChunkInv, ChunkType, ArgType
<1>2. chunk \in Int /\ n <= workers * chunk
  BY <1>1, ChunksReach DEF chunk
<1>3. CASE ChunkRange
  <2>1. n' = n /\ max' = max /\ workers' = workers /\ pc' # "start" /\ chunk' = chunk
    BY <1>3 DEF ChunkRange, args, chunk
  <2>2. CASE start < n /\ ranges' = Append(ranges, [from |-> start, to |-> Stop]) /\ start' = Stop
    <3> DEFINE k == Len(ranges)
               q == chunk
    <3>1. start = k * q
      BY <2>2, <1>1 DEF BudgetInv, ChunkMultiple
    <3>2. Len(ranges') = k + 1
      BY <2>2, <1>1
    <3>3. start' = n \/ start' = start + q
      BY <2>2 DEF Stop
    <3> HIDE DEF k, q
    <3>4. k \in Nat /\ q \in Int /\ n <= workers * q
      BY <1>1, <1>2 DEF k, q
    <3>5. (k + 1) * q = k * q + q
      BY <3>4
    <3>6. start' = n \/ start' = Len(ranges') * q
      BY <3>1, <3>2, <3>3, <3>5
    <3>7. k + 1 <= workers
      <4> SUFFICES ASSUME k >= workers PROVE FALSE
        BY <1>1, <3>4
      <4>1. workers * q <= k * q
        <5>1. q > 0
          BY <1>1, <2>2, <3>1, <3>4
        <5>2. (k - workers) * q >= 0
          BY <1>1, <3>4, <5>1
        <5>3. (k - workers) * q = k * q - workers * q /\ k * q \in Int /\ workers * q \in Int
          BY <1>1, <3>4
        <5> QED BY <5>2, <5>3
      <4> QED BY <4>1, <1>1, <2>2, <3>1, <3>4
    <3> QED BY <2>1, <3>2, <3>6, <3>7 DEF BudgetInv, BudgetKept, ChunkMultiple, q
  <2>3. CASE UNCHANGED <<ranges, start>>
    BY <2>1, <2>3 DEF BudgetInv, BudgetKept, ChunkMultiple
  <2> QED BY <1>3, <2>2, <2>3 DEF ChunkRange
<1>4. CASE Threaded
  <2>1. /\ pc = "start" /\ pc' = "chunk" /\ workers' = thread_budget
        /\ n' = n /\ max' = max /\ UNCHANGED <<ranges, start>>
    BY <1>4 DEF Threaded, args
  <2>2. ranges = <<>> /\ Len(ranges) = 0 /\ start = 0
    BY <2>1 DEF ChunkInv, ChunkType, ChunksCover
  <2>3. /\ workers' \in Nat /\ workers' > 0
        /\ n > 0 => workers' <= n
        /\ max > 0 => workers' <= max
    BY <1>1, <2>1, BudgetPositive, BudgetWithin
  <2>4. chunk' \in Int
    BY <1>1, <2>1, <2>3, ChunksReach DEF chunk
  <2>5. ChunkMultiple'
    <3>1. \A q \in Int : 0 * q = 0
      OBVIOUS
    <3> QED BY <2>1, <2>2, <2>4, <3>1, Zenon DEF ChunkMultiple
  <2> QED BY <2>1, <2>2, <2>3, <2>5 DEF BudgetInv, BudgetKept
<1>5. CASE Serial \/ Spawn \/ Join \/ (\E i \in 1..Len(part) : Work(i)) \/ UNCHANGED vars
  <2>1. UNCHANGED <<n, max, workers, ranges, start>> /\ (pc' = "start" => pc = "start")
    BY <1>5 DEF Serial, Spawn, Join, Work, vars, args
  <2> QED BY <2>1 DEF BudgetInv, BudgetKept, ChunkMultiple, chunk
<1> QED BY <1>3, <1>4, <1>5 DEF Next

(* parallel_map starts no more threads than it was allowed, and none that  *)
(* has nothing to do, for every number of items and every budget.          *)
THEOREM ParallelBudget == Spec => []BudgetKept
<1>1. BudgetInv => BudgetKept
  BY DEF BudgetInv
<1> QED BY ChunkInit, ChunkNext, BudgetInit, BudgetNext, <1>1, PTL DEF Spec

-----------------------------------------------------------------------------
(* The threads and the join *)

LEMMA IInvInit == Init => IInv /\ Exact
<1> SUFFICES ASSUME Init PROVE IInv /\ Exact
  OBVIOUS
<1>1. ChunkInv
  BY ChunkInit
<1>2. part \in Seq(Seq(Nat)) /\ ok \in Seq(BOOLEAN) /\ out \in Seq(Nat) /\ Len(part) = 0 /\ Len(ok) = 0 /\ Len(ranges) = 0
      /\ Len(out) = 0
  BY DEF Init
<1>3. PartType /\ PartsExact /\ Stages
  BY <1>2 DEF Init, PartType, PartsExact, Stages
<1>4. JoinedBelow /\ OrderKept
  BY <1>2 DEF Init, JoinedBelow, OrderKept
<1>5. Exact
  BY DEF Init, Exact, JoinedExact, InPlace
<1> QED BY <1>1, <1>3, <1>4, <1>5 DEF IInv

LEMMA SerialKeeps == ASSUME IInv, Serial, ChunkInv' PROVE IInv' /\ Exact'
<1>1. pc = "start" /\ pc' = "done" /\ n \in Nat /\ count' = n /\ out' = [i \in 1..n |-> i]
      /\ UNCHANGED <<n, ranges, part, ok, joined>>
  BY DEF Serial, args, IInv, ChunkInv, ChunkType
<1>2. out' \in Seq(Nat) /\ Len(out') = n /\ \A i \in 1..n : out'[i] = i
  BY <1>1
<1>3. part = <<>> /\ Len(part) = 0
  BY <1>1 DEF IInv, Stages
<1>4. PartType' /\ PartsExact'
  BY <1>1, <1>2, <1>3 DEF IInv, PartType, PartsExact
<1>5. Stages' /\ JoinedBelow' /\ JoinedExact' /\ InPlace'
  BY <1>1 DEF Stages, JoinedBelow, JoinedExact, InPlace
<1>6. OrderKept'
  BY <1>1, <1>2 DEF OrderKept
<1> QED BY <1>4, <1>5, <1>6 DEF IInv, Exact

LEMMA EarlyKeeps == ASSUME IInv, Threaded \/ ChunkRange, ChunkInv' PROVE IInv' /\ Exact'
<1>1. /\ pc \in {"start", "chunk"} /\ pc' \in {"chunk", "spawn"}
      /\ UNCHANGED <<n, part, ok, joined, out, count>>
  BY DEF Threaded, ChunkRange, args
<1>2. part = <<>> /\ Len(part) = 0
  BY <1>1 DEF IInv, Stages
<1>3. Len(ranges') \in Nat
  BY DEF ChunkInv, ChunkType
<1>4. PartType' /\ PartsExact'
  BY <1>1, <1>2, <1>3 DEF IInv, PartType, PartsExact
<1>5. Stages' /\ JoinedBelow' /\ JoinedExact' /\ InPlace' /\ OrderKept'
  BY <1>1, <1>2 DEF IInv, Stages, JoinedBelow, JoinedExact, InPlace, OrderKept
<1> QED BY <1>4, <1>5 DEF IInv, Exact

(* What a thread's list and the list of handles are after an append. *)
LEMMA AppendedNext ==
  ASSUME NEW s \in Seq(Nat), NEW f \in Nat
  PROVE  LET m == Append(s, f + Len(s) + 1)
         IN  /\ m \in Seq(Nat) /\ Len(m) = Len(s) + 1
             /\ m[Len(s) + 1] = f + (Len(s) + 1)
             /\ \A j \in 1..Len(s) : m[j] = s[j]
<1>1. f + Len(s) + 1 \in Nat /\ f + Len(s) + 1 = f + (Len(s) + 1)
  OBVIOUS
<1> QED BY <1>1, AppendProperties

LEMMA SpawnKeeps == ASSUME IInv, Spawn, ChunkInv' PROVE IInv' /\ Exact'
<1>1. pc = "spawn" /\ UNCHANGED <<n, ranges, start, joined, out, count>>
      /\ joined = 0 /\ out = <<>> /\ count = 0
  BY DEF Spawn, args, IInv, Stages
<1>2. /\ part \in Seq(Seq(Nat)) /\ ok \in Seq(BOOLEAN) /\ ranges \in Seq(Chunk)
      /\ Len(part) \in Nat /\ Len(ranges) \in Nat
  BY DEF IInv, PartType, ChunkInv, ChunkType
<1>3. Len(out') = 0 /\ OrderKept'
  <2>1. Len(out') = 0
    BY <1>1
  <2> QED BY <2>1 DEF OrderKept
<1>4. CASE Len(part) < Len(ranges) /\ part' = Append(part, <<>>) /\ pc' = pc
  <2>1. PICK made \in BOOLEAN : ok' = Append(ok, made)
    BY <1>4, <1>2, ParallelAssumption DEF Spawn
  <2>2. <<>> \in Seq(Nat) /\ Len(<<>>) = 0
    OBVIOUS
  <2>3. /\ part' \in Seq(Seq(Nat)) /\ Len(part') = Len(part) + 1
        /\ part'[Len(part) + 1] = <<>>
        /\ \A k \in 1..Len(part) : part'[k] = part[k]
    BY <1>2, <1>4, <2>2
  <2>4. ok' \in Seq(BOOLEAN) /\ Len(ok') = Len(part) + 1
    <3>1. Len(ok) = Len(part)
      BY DEF IInv, PartsExact
    <3> QED BY <1>2, <2>1, <3>1, AppendProperties
  <2>5. ASSUME NEW k \in 1..Len(part')
        PROVE  /\ Len(part'[k]) <= Size(k)'
               /\ \A j \in 1..Len(part'[k]) : part'[k][j] = ranges'[k].from + j
    <3>1. Size(k)' = Size(k)
      BY <1>1 DEF Size
    <3>2. CASE k \in 1..Len(part)
      BY <3>1, <3>2, <1>1, <2>3 DEF IInv, PartsExact
    <3>3. CASE k = Len(part) + 1
      <4>1. k \in 1..Len(ranges)
        BY <3>3, <1>2, <1>4
      <4>2. Size(k) \in Nat
        BY <4>1, SizePositive DEF IInv
      <4>3. Len(part'[k]) = 0
        BY <3>3, <2>2, <2>3
      <4> QED BY <3>1, <4>2, <4>3
    <3> QED BY <3>2, <3>3, <2>3, <1>2
  <2>6. PartType' /\ PartsExact'
    BY <1>1, <1>2, <1>4, <2>3, <2>4, <2>5 DEF IInv, PartType, PartsExact
  <2>7. Stages' /\ JoinedBelow' /\ JoinedExact' /\ InPlace'
    BY <1>1, <1>4 DEF Stages, JoinedBelow, JoinedExact, InPlace
  <2> QED BY <1>3, <2>6, <2>7 DEF IInv, Exact
<1>5. CASE Len(part) = Len(ranges) /\ pc' = "join" /\ UNCHANGED <<part, ok>>
  <2>1. PartType' /\ PartsExact'
    BY <1>1, <1>5 DEF IInv, PartType, PartsExact, Size
  <2>2. Stages' /\ JoinedBelow' /\ JoinedExact' /\ InPlace'
    BY <1>1, <1>2, <1>3, <1>5 DEF Stages, JoinedBelow, JoinedExact, InPlace, JoinedTo
  <2> QED BY <1>3, <2>1, <2>2 DEF IInv, Exact
<1> QED BY <1>4, <1>5 DEF Spawn

LEMMA WorkKeeps ==
  ASSUME IInv, Exact, NEW i \in 1..Len(part), Work(i), ChunkInv' PROVE IInv' /\ Exact'
<1> DEFINE more == Append(part[i], ranges[i].from + Len(part[i]) + 1)
<1>1. /\ part' = [part EXCEPT ![i] = more]
      /\ Len(part[i]) < Size(i)
      /\ UNCHANGED <<pc, n, ranges, start, ok, joined, out, count>>
  BY DEF Work, args
<1>2. /\ part \in Seq(Seq(Nat)) /\ part[i] \in Seq(Nat) /\ Len(part[i]) \in Nat
      /\ i \in 1..Len(ranges) /\ Len(part) \in Nat
  BY DEF IInv, PartType, PartsExact, ChunkInv, ChunkType
<1>3. ranges[i].from \in Nat /\ Size(i) \in Nat
  BY <1>2, SizePositive DEF IInv
<1>4. /\ more \in Seq(Nat) /\ Len(more) = Len(part[i]) + 1
      /\ more[Len(part[i]) + 1] = ranges[i].from + (Len(part[i]) + 1)
      /\ \A j \in 1..Len(part[i]) : more[j] = part[i][j]
  BY <1>2, <1>3, AppendedNext
<1> HIDE DEF more
<1>5. /\ part' \in Seq(Seq(Nat)) /\ Len(part') = Len(part)
      /\ part'[i] = more
      /\ \A k \in 1..Len(part) : k # i => part'[k] = part[k]
  BY <1>1, <1>2, <1>4
<1>6. ASSUME NEW k \in 1..Len(part')
      PROVE  /\ Len(part'[k]) <= Size(k)'
             /\ \A j \in 1..Len(part'[k]) : part'[k][j] = ranges'[k].from + j
  <2>1. Size(k)' = Size(k) /\ k \in 1..Len(part)
    BY <1>1, <1>5 DEF Size
  <2>2. CASE k # i
    BY <2>1, <2>2, <1>1, <1>5 DEF IInv, PartsExact
  <2>3. CASE k = i
    <3>1. \A j \in 1..Len(part[i]) : part[i][j] = ranges[i].from + j
      BY <2>1, <2>3, <1>1 DEF IInv, PartsExact
    <3>2. ASSUME NEW j \in 1..Len(more) PROVE more[j] = ranges[i].from + j
      <4>1. CASE j \in 1..Len(part[i])
        BY <3>1, <4>1, <1>4
      <4>2. CASE j = Len(part[i]) + 1
        BY <4>2, <1>4
      <4> QED BY <4>1, <4>2, <1>2, <1>4
    <3> QED BY <2>1, <2>3, <3>1, <3>2, <1>1, <1>2, <1>3, <1>4, <1>5
  <2> QED BY <2>2, <2>3
<1>7. PartType' /\ PartsExact'
  BY <1>1, <1>5, <1>6 DEF IInv, PartType, PartsExact
<1>8. pc \notin {"start", "chunk"}
  BY <1>2 DEF IInv, Stages
<1>9. Stages' /\ JoinedBelow' /\ OrderKept'
  BY <1>1, <1>5, <1>8 DEF IInv, Stages, JoinedBelow, JoinedTo, OrderKept
<1>10. Exact'
  BY <1>1 DEF Exact, AllStarted, JoinedExact, JoinedTo, InPlace
<1> QED BY <1>7, <1>9, <1>10 DEF IInv

(* The list of results once those of the next thread are put behind it. *)
LEMMA Concatenated ==
  ASSUME NEW s \in Seq(Nat), NEW t \in Seq(Nat)
  PROVE  /\ s \o t \in Seq(Nat) /\ Len(s \o t) = Len(s) + Len(t)
         /\ \A j \in 1..Len(s) : (s \o t)[j] = s[j]
         /\ \A j \in 1..Len(t) : (s \o t)[Len(s) + j] = t[j]
<1>1. /\ s \o t \in Seq(Nat)
      /\ Len(s \o t) = Len(s) + Len(t)
      /\ \A j \in 1..Len(s) + Len(t) : (s \o t)[j] = IF j <= Len(s) THEN s[j] ELSE t[j - Len(s)]
  BY ConcatProperties, Zenon
<1>2. Len(s) \in Nat /\ Len(t) \in Nat
  OBVIOUS
<1>3. ASSUME NEW j \in 1..Len(s) PROVE (s \o t)[j] = s[j]
  <2>1. j \in 1..Len(s) + Len(t) /\ j <= Len(s)
    BY <1>2
  <2> QED BY <2>1, <1>1
<1>4. ASSUME NEW j \in 1..Len(t) PROVE (s \o t)[Len(s) + j] = t[j]
  <2>1. /\ Len(s) + j \in 1..Len(s) + Len(t)
        /\ ~(Len(s) + j <= Len(s)) /\ (Len(s) + j) - Len(s) = j
    BY <1>2
  <2> QED BY <2>1, <1>1
<1> QED BY <1>1, <1>3, <1>4

LEMMA JoinKeeps == ASSUME IInv, Exact, Join, ChunkInv' PROVE IInv' /\ Exact'
<1>1. pc = "join" /\ UNCHANGED <<n, ranges, start, part, ok>>
  BY DEF Join, args
<1>2. /\ joined \in Nat /\ joined <= Len(part) /\ Len(part) = Len(ranges) /\ Len(part) \in Nat
      /\ out \in Seq(Nat) /\ Len(out) \in Nat /\ count \in Int
      /\ \A j \in 1..Len(out) : out[j] \in Nat /\ out[j] <= JoinedTo
      /\ start = n /\ n \in Nat /\ ok \in Seq(BOOLEAN) /\ Len(ok) = Len(part)
  BY <1>1 DEF IInv, PartType, PartsExact, Stages, JoinedBelow, ChunkInv, ChunkType, ChunksCover
<1>3. PartsExact' /\ AllStarted' = AllStarted
  BY <1>1 DEF IInv, PartsExact, Size, AllStarted
<1>4. AllStarted => /\ Len(out) = JoinedTo /\ count = Len(out)
                    /\ \A j \in 1..Len(out) : out[j] = j
  BY <1>1 DEF Exact, JoinedExact
<1>5. CASE joined < Len(part)
  <2> DEFINE i == joined + 1
  <2>1. i \in 1..Len(part) /\ i \in 1..Len(ranges)
    BY <1>2, <1>5
  <2>2. /\ ranges[i].from \in Nat /\ Size(i) \in Nat /\ ranges[i].to = ranges[i].from + Size(i)
        /\ ranges[i].from = (IF i = 1 THEN 0 ELSE ranges[i - 1].to)
    BY <2>1, SizePositive DEF IInv
  <2>3. ranges[i].from = JoinedTo
    BY <1>2, <2>2 DEF JoinedTo
  <2>4. part[i] \in Seq(Nat) /\ \A j \in 1..Len(part[i]) : part[i][j] = ranges[i].from + j
    <3>1. \A k \in 1..Len(part) : /\ part[k] \in Seq(Nat)
                                  /\ \A j \in 1..Len(part[k]) : part[k][j] = ranges[k].from + j
      BY DEF IInv, PartType, PartsExact
    <3> QED BY <2>1, <3>1
  <2>5. CASE ok[i]
    <3>1. /\ Len(part[i]) = Size(i) /\ out' = out \o part[i]
          /\ count' = count + Size(i) /\ joined' = i /\ pc' = pc
      BY <1>5, <2>5 DEF Join
    <3> HIDE DEF i
    <3>2. /\ out' \in Seq(Nat) /\ Len(out') = Len(out) + Size(i)
          /\ \A j \in 1..Len(out) : out'[j] = out[j]
          /\ \A j \in 1..Len(part[i]) : out'[Len(out) + j] = part[i][j]
      BY <1>2, <2>4, <3>1, Concatenated
    <3>3. ASSUME NEW j \in 1..Len(out'), j > Len(out)
          PROVE  out'[j] = ranges[i].from + (j - Len(out))
      <4>1. j - Len(out) \in 1..Len(part[i]) /\ Len(out) + (j - Len(out)) = j
        BY <3>3, <1>2, <2>2, <3>1, <3>2
      <4>2. out'[Len(out) + (j - Len(out))] = ranges[i].from + (j - Len(out))
        BY <4>1, <2>4, <3>2
      <4> QED BY <4>1, <4>2
    <3>below. \A j \in 1..Len(out) : out'[j] \in Nat /\ out'[j] <= ranges[i].from
      BY <1>2, <2>3, <3>2
    <3>4. JoinedTo' = ranges[i].to /\ joined' <= Len(part')
      BY <1>1, <1>2, <2>1, <3>1 DEF JoinedTo
    <3>5. ASSUME NEW j \in 1..Len(out') PROVE out'[j] <= JoinedTo'
      <4>1. CASE j \in 1..Len(out)
        BY <4>1, <2>2, <3>4, <3>below
      <4>2. CASE j > Len(out)
        <5>1. out'[j] = ranges[i].from + (j - Len(out))
          BY <4>2, <3>3
        <5>2. j \in Nat /\ j <= Len(out) + Size(i)
          BY <3>2, <1>2, <2>2
        <5> QED BY <5>1, <5>2, <1>2, <2>2, <3>4
      <4> QED BY <4>1, <4>2, <1>2, <3>2
    <3>6. JoinedBelow'
      BY <3>4, <3>5 DEF JoinedBelow
    <3>7. ASSUME NEW j \in 1..Len(out'), NEW k \in 1..Len(out'), j < k PROVE out'[j] < out'[k]
      <4>1. CASE k <= Len(out)
        <5>1. j \in 1..Len(out) /\ k \in 1..Len(out)
          BY <3>7, <4>1, <1>2
        <5> QED BY <5>1, <3>7, <3>2 DEF IInv, OrderKept
      <4>2. CASE j <= Len(out) /\ k > Len(out)
        <5>1. j \in 1..Len(out)
          BY <4>2, <1>2
        <5>2. out'[j] \in Nat /\ out'[j] <= ranges[i].from
          BY <5>1, <3>below
        <5>3. out'[k] = ranges[i].from + (k - Len(out))
          BY <4>2, <3>3
        <5>4. k \in Nat /\ Len(out') \in Nat
          BY <3>2
        <5> QED BY <5>2, <5>3, <5>4, <4>2, <1>2, <2>2
      <4>3. CASE j > Len(out) /\ k > Len(out)
        <5>1. out'[j] = ranges[i].from + (j - Len(out)) /\ out'[k] = ranges[i].from + (k - Len(out))
          BY <4>3, <3>3
        <5>2. j \in Nat /\ k \in Nat
          BY <3>2
        <5> QED BY <5>1, <5>2, <3>7, <1>2, <2>2
      <4> QED BY <4>1, <4>2, <4>3, <3>7, <1>2
    <3>8. OrderKept'
      BY <3>7 DEF OrderKept
    <3>9. PartType' /\ Stages'
      BY <1>1, <1>2, <2>1, <2>2, <3>1, <3>2 DEF IInv, PartType, Stages
    <3>10. ASSUME AllStarted PROVE JoinedExact' /\ InPlace'
      <4>1. ASSUME NEW j \in 1..Len(out') PROVE out'[j] = j
        <5>1. CASE j \in 1..Len(out)
          BY <5>1, <3>10, <1>4, <3>2
        <5>2. CASE j > Len(out)
          <6>1. out'[j] = ranges[i].from + (j - Len(out))
            BY <5>2, <3>3
          <6>2. j \in Nat /\ ranges[i].from = Len(out)
            BY <3>2, <3>10, <1>4, <2>3
          <6> QED BY <6>1, <6>2, <1>2
        <5> QED BY <5>1, <5>2, <1>2, <3>2
      <4>2. Len(out') = JoinedTo' /\ count' = Len(out')
        BY <3>10, <1>2, <1>4, <2>2, <2>3, <3>1, <3>2, <3>4
      <4> QED BY <4>1, <4>2, <1>1, <3>1 DEF JoinedExact, InPlace
    <3> QED BY <1>3, <3>6, <3>8, <3>9, <3>10 DEF IInv, Exact
  <2>6. CASE ~ok[i]
    <3>1. /\ UNCHANGED out /\ count' \in Int
          /\ \/ joined' = i /\ pc' = pc
             \/ joined' = joined /\ pc' = "crashed"
      BY <1>2, <1>5, <2>6 DEF Join, JoinError
    <3>2. ~AllStarted
      BY <1>2, <2>1, <2>6 DEF AllStarted
    <3>3. JoinedBelow'
      <4>1. CASE joined' = i /\ pc' = pc
        <5>1. JoinedTo' = ranges[i].to
          BY <4>1, <1>1, <1>2 DEF JoinedTo
        <5> QED BY <4>1, <5>1, <1>1, <1>2, <2>1, <2>2, <2>3, <3>1 DEF JoinedBelow
      <4>2. CASE pc' = "crashed"
        BY <4>2 DEF JoinedBelow
      <4> QED BY <3>1, <4>1, <4>2
    <3>4. PartType' /\ Stages' /\ OrderKept'
      BY <1>1, <1>2, <2>1, <3>1 DEF IInv, PartType, Stages, OrderKept
    <3> QED BY <1>3, <3>2, <3>3, <3>4 DEF IInv, Exact
  <2> QED BY <2>5, <2>6
<1>6. CASE joined = Len(part)
  <2>1. pc' = "done" /\ UNCHANGED <<out, count, joined>>
    BY <1>6, <1>2 DEF Join
  <2>2. JoinedTo = n
    <3>1. CASE Len(ranges) = 0
      BY <3>1, <1>1, <1>2, <1>6 DEF IInv, ChunkInv, ChunkType, ChunksCover, JoinedTo
    <3>2. CASE Len(ranges) # 0
      BY <3>2, <1>1, <1>2, <1>6 DEF IInv, ChunkInv, ChunkType, ChunksCover, JoinedTo
    <3> QED BY <3>1, <3>2
  <2>3. AllStarted => out = [i \in 1..n |-> i] /\ count = n
    BY <1>2, <1>4, <2>2
  <2>4. Exact'
    BY <1>1, <1>3, <2>1, <2>3 DEF Exact, JoinedExact, InPlace
  <2>5. PartType' /\ Stages' /\ JoinedBelow' /\ OrderKept'
    BY <1>1, <2>1 DEF IInv, PartType, Stages, JoinedBelow, OrderKept
  <2> QED BY <1>3, <2>4, <2>5 DEF IInv
<1> QED BY <1>2, <1>5, <1>6

LEMMA IInvNext == IInv /\ Exact /\ ArgType /\ [Next]_vars => IInv' /\ Exact' /\ ArgType'
<1> SUFFICES ASSUME IInv, Exact, ArgType, [Next]_vars PROVE IInv' /\ Exact' /\ ArgType'
  OBVIOUS
<1>1. ChunkInv' /\ ArgType'
  BY ChunkNext DEF IInv
<1>2. CASE Serial
  BY <1>1, <1>2, SerialKeeps
<1>3. CASE Threaded \/ ChunkRange
  BY <1>1, <1>3, EarlyKeeps
<1>4. CASE Spawn
  BY <1>1, <1>4, SpawnKeeps
<1>5. ASSUME NEW i \in 1..Len(part), Work(i) PROVE IInv' /\ Exact'
  BY <1>1, <1>5, WorkKeeps
<1>6. CASE Join
  BY <1>1, <1>6, JoinKeeps
<1>7. CASE UNCHANGED vars
  <2>1. IInv'
    BY <1>1, <1>7 DEF vars, IInv, PartType, PartsExact, Size, Stages, JoinedBelow, JoinedTo, OrderKept
  <2>2. Exact'
    BY <1>7 DEF vars, Exact, AllStarted, JoinedExact, JoinedTo, InPlace
  <2> QED BY <1>1, <2>1, <2>2
<1> QED BY <1>1, <1>2, <1>3, <1>4, <1>5, <1>6, <1>7 DEF Next

(* parallel_map: every item in its place and parallel_each's count exact,  *)
(* for every length, budget and order of the threads, when every thread    *)
(* could be started.                                                       *)
THEOREM ParallelMapInOrder == Spec => []MapInOrder
<1>1. IInv /\ Exact => MapInOrder
  BY DEF Exact, MapInOrder
<1> QED BY ChunkInit, IInvInit, IInvNext, <1>1, PTL DEF Spec

(* Whichever threads could not be started, what parallel_map returns keeps *)
(* the order of the items and has none of them twice.                      *)
THEOREM ParallelOrder == Spec => []OrderKept
<1>1. IInv => OrderKept
  BY DEF IInv
<1> QED BY ChunkInit, IInvInit, IInvNext, <1>1, PTL DEF Spec
==============================================================================
