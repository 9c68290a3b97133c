------------------------------- MODULE Channel -------------------------------
(***************************************************************************)
(* Queues and channels of lib/core/collections.ny: a list of items, the    *)
(* position of the first live one, a closed flag and a capacity.  Items    *)
(* before head are dead; they are dropped when they are many and at least  *)
(* half of the list.  Every operation runs to its end: channels are        *)
(* cooperative, tasks change only at an await.                             *)
(***************************************************************************)
EXTENDS Integers, Sequences

CONSTANTS
  Value,
  Capacity,   \* 0: unbounded
  Compact,    \* the dead items kept without question (64)
  MaxSent     \* bound: values accepted

ASSUME ChannelAssumption == Capacity \in Nat /\ Compact \in Nat /\ MaxSent \in Nat

VARIABLES
  items, head, closed,
  sent, taken,  \* history: values accepted, and values handed out, in order
  copied,       \* history: the items moved by all the copies so far
  answer        \* what the last operation returned

chanVars == <<items, head, closed, sent, taken, copied, answer>>

queue_len == IF Len(items) - head < 0 THEN 0 ELSE Len(items) - head
queue_empty == queue_len = 0

ChanInit ==
  /\ items = <<>> /\ head = 0 /\ closed = FALSE
  /\ sent = <<>> /\ taken = <<>> /\ copied = 0
  /\ answer = FALSE

(* queue_push *)
Push(v) ==
  /\ items' = Append(items, v)
  /\ sent' = Append(sent, v)
  /\ UNCHANGED <<head, closed, taken, copied>>

(* Fault: full only when the capacity is already passed *)
FullLate == Capacity > 0 /\ queue_len > Capacity

Full == Capacity > 0 /\ queue_len >= Capacity

(* Fault: only the capacity is asked *)
ChanSendClosed ==
  /\ Len(sent) < MaxSent
  /\ ~Full
  /\ \E v \in Value : Push(v) /\ answer' = TRUE

(* chan_send and chan_try_send *)
ChanSend ==
  /\ Len(sent) < MaxSent
  /\ IF closed \/ Full
     THEN answer' = FALSE /\ UNCHANGED <<items, head, closed, sent, taken, copied>>
     ELSE \E v \in Value : Push(v) /\ answer' = TRUE

(* Fault: the copy starts one item late *)
CompactedLate(list, from) ==
  IF from <= Compact \/ from * 2 < Len(list)
  THEN [items |-> list, head |-> from]
  ELSE [items |-> SubSeq(list, from + 2, Len(list)), head |-> 0]

(* Fault: the list is copied whenever the dead items are many, however     *)
(* many live ones stand behind them                                        *)
CompactedEager(list, from) ==
  IF from <= Compact
  THEN [items |-> list, head |-> from]
  ELSE [items |-> SubSeq(list, from + 1, Len(list)), head |-> 0]

(* _queue_compact *)
Compacted(list, from) ==
  IF from <= Compact \/ from * 2 < Len(list)
  THEN [items |-> list, head |-> from]
  ELSE [items |-> SubSeq(list, from + 1, Len(list)), head |-> 0]

(* queue_pop, and with it chan_recv, chan_try_recv and queue_try_pop *)
ChanRecv ==
  /\ IF queue_empty
     THEN answer' = FALSE /\ UNCHANGED <<items, head, taken, copied>>
     ELSE /\ answer' = TRUE
          /\ taken' = Append(taken, items[head + 1])
          /\ LET c == Compacted(items, head + 1)
             IN  /\ items' = c.items /\ head' = c.head
                 /\ copied' = copied + (IF c.head = 0 THEN Len(c.items) ELSE 0)
  /\ UNCHANGED <<closed, sent>>

ChanClose ==
  /\ closed' = TRUE
  /\ answer' = TRUE
  /\ UNCHANGED <<items, head, sent, taken, copied>>

(* queue_clear: what was queued is gone *)
QueueClear ==
  /\ items' = <<>> /\ head' = 0
  /\ sent' = taken
  /\ answer' = TRUE
  /\ UNCHANGED <<closed, taken, copied>>

ChanNext == ChanSend \/ ChanRecv \/ ChanClose \/ QueueClear

ChanSpec == ChanInit /\ [][ChanNext]_chanVars

-----------------------------------------------------------------------------
(* Properties *)

(* The queue's fields and its histories are sequences of values. *)
ChanTypeOK ==
  /\ items \in Seq(Value) /\ head \in Nat /\ closed \in BOOLEAN
  /\ sent \in Seq(Value) /\ taken \in Seq(Value) /\ copied \in Nat
  /\ answer \in BOOLEAN

(* First in, first out, and none lost or doubled, whatever compaction did: *)
(* what was handed out and what is still queued are together, in order,    *)
(* what was accepted.                                                      *)
FifoOrder ==
  /\ head <= Len(items)
  /\ Len(sent) = Len(taken) + (Len(items) - head)
  /\ \A k \in 1..Len(taken) : taken[k] = sent[k]
  /\ \A k \in 1..(Len(items) - head) : items[head + k] = sent[Len(taken) + k]

(* A bounded channel never queues more than its capacity. *)
WithinCapacity == Capacity > 0 => queue_len <= Capacity

(* Receiving is cheap in the long run: all the copies _queue_compact made  *)
(* together moved no more items than the queue has handed out, whatever    *)
(* was sent, closed and cleared between them.  Each copy is paid by the    *)
(* receives since the one before.                                          *)
CopiesPaid == copied <= Len(taken)

(* A closed channel takes nothing more, and what it holds can still be     *)
(* received: it shrinks only by what is handed out or cleared.             *)
ClosedDrains ==
  [][closed => /\ closed'
               /\ Len(sent') <= Len(sent)
               /\ (sent' = sent => (queue_len' = queue_len \/ Len(taken') = Len(taken) + 1))]_chanVars
==============================================================================
