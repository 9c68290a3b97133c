---------------------------- MODULE RtAsync_proofs ----------------------------
(***************************************************************************)
(* Proofs about RtAsync, for every set of handles, every bound and every   *)
(* way the program shares and reuses its handles.                          *)
(***************************************************************************)
EXTENDS RtAsync, SequenceTheorems, TLAPS

-----------------------------------------------------------------------------
(* What one call of rt_async_progress_task may do to a task *)

(* u is what t may become: still what it was for everyone but its own      *)
(* kind, or finished with a result.                                        *)
Advance(t, u) ==
  /\ u \in Task
  /\ u.kind = t.kind
  /\ \/ u.state = t.state /\ u.result = t.result
     \/ u.state = "DONE" /\ u.result \in Results

(* Completing a task finishes it with the given result. *)
LEMMA CompleteAdvance ==
  ASSUME NEW t \in Task, NEW r \in Results
  PROVE  Advance(t, Complete(t, r)) /\ Complete(t, r).state = "DONE"
BY BoundsAssumption DEF Advance, Complete, Task, States, Results, NoDeadline

(* A kind's attempt leaves the task alone, counts bytes, or completes it. *)
LEMMA TransferAdvance ==
  ASSUME NEW t \in Task, NEW p \in Answers \cup {"bad"}
  PROVE  /\ t.kind \in SendKinds => Advance(t, SendBytes(t, p))
         /\ Advance(t, ReadUntil(t, p))
  <1>1. ASSUME NEW r \in 1..MaxLen, t.off + r <= t.len
        PROVE  /\ [t EXCEPT !.off = t.off + r] \in Task
               /\ Advance(t, [t EXCEPT !.off = t.off + r])
               /\ \A s \in Results : Advance(t, Complete([t EXCEPT !.off = t.off + r], s))
    <2>1. [t EXCEPT !.off = t.off + r] \in Task
      BY <1>1, BoundsAssumption DEF Task
    <2>2. Advance(t, [t EXCEPT !.off = t.off + r])
      BY <2>1 DEF Advance, Task
    <2>3. \A s \in Results : Advance(t, Complete([t EXCEPT !.off = t.off + r], s))
      BY <2>1, CompleteAdvance DEF Advance, Task
    <2> QED BY <2>1, <2>2, <2>3
  <1>2. ASSUME NEW r \in 1..MaxLen, t.off + r <= t.len
        PROVE  Advance(t, Sent(t, r))
    <2> DEFINE u == [t EXCEPT !.off = t.off + r]
    <2>1. "ok" \in Results /\ "short" \in Results
      BY DEF Results
    <2>2. Advance(t, u) /\ Advance(t, Complete(u, "ok")) /\ Advance(t, Complete(u, "short"))
      BY <1>1, <1>2, <2>1
    <2>3. u.off \in Int /\ t.len \in Int
      BY <1>1, <1>2, BoundsAssumption DEF Task
    <2>4. Sent(t, r) \in {u, Complete(u, "ok"), Complete(u, "short")}
      BY <2>3 DEF Sent
    <2> QED BY <2>2, <2>4
  <1>3. t.off \in Nat /\ t.len \in Nat /\ t.len <= MaxLen /\ t.off <= MaxLen
    BY BoundsAssumption DEF Task
  <1>4. Advance(t, t)
    BY DEF Advance
  <1>5. \A s \in {"ok", "short", "err"} : Advance(t, Complete(t, s))
    BY CompleteAdvance DEF Results
  <1>6. Advance(t, SendBytes(t, p))
    <2>1. CASE t.off >= t.len
      BY <2>1, <1>3, <1>4, <1>5 DEF SendBytes, Answers
    <2>2. CASE t.off < t.len /\ p \notin {"part", "all"}
      BY <2>2, <1>3, <1>4, <1>5 DEF SendBytes, Answers
    <2>3. CASE t.off < t.len /\ p = "part"
      <3>1. Advance(t, Sent(t, 1))
        BY <2>3, <1>2, <1>3, BoundsAssumption
      <3> QED BY <2>3, <3>1, <1>3 DEF SendBytes
    <2>4. CASE t.off < t.len /\ p = "all"
      <3>1. Advance(t, Sent(t, t.len - t.off))
        BY <2>4, <1>2, <1>3, BoundsAssumption
      <3> QED BY <2>4, <3>1, <1>3 DEF SendBytes
    <2> QED BY <2>1, <2>2, <2>3, <2>4, <1>3
  <1>7. Advance(t, ReadUntil(t, p))
    <2>1. CASE t.needle = 0 \/ t.off >= t.len
      BY <2>1, <1>5 DEF ReadUntil
    <2>2. CASE t.needle # 0 /\ t.off < t.len /\ p \notin {"part", "all"}
      BY <2>2, <1>3, <1>4, <1>5 DEF ReadUntil, Answers
    <2>3. CASE t.needle # 0 /\ t.off < t.len /\ p \in {"part", "all"}
      <3> DEFINE u == [t EXCEPT !.off = t.off + 1]
      <3>1. Advance(t, u) /\ Advance(t, Complete(u, "ok"))
        BY <2>3, <1>1, <1>3, BoundsAssumption DEF Results
      <3>2. ReadUntil(t, p) \in {u, Complete(u, "ok")}
        BY <2>3, <1>3 DEF ReadUntil, Received
      <3> QED BY <3>1, <3>2
    <2> QED BY <2>1, <2>2, <2>3, <1>3 DEF Task
  <1> QED BY <1>6, <1>7

(* Whatever the kernel answers, rt_async_progress_task advances the task. *)
LEMMA ProgressAdvance ==
  ASSUME NEW t \in Task, NEW a \in Answers, NEW block \in BOOLEAN
  PROVE  Advance(t, Progress(t, a, block))
  <1>1. Advance(t, t)
    BY DEF Advance
  <1>2. \A s \in {"ok", "short", "err"} : Advance(t, Complete(t, s))
    BY CompleteAdvance DEF Results
  <1>3. CASE Expired(t)
    BY <1>2, <1>3 DEF Progress
  <1>4. ASSUME ~Expired(t) PROVE Advance(t, Progress(t, a, block))
    <2> DEFINE p == FdReady(t, a)
    <2>1. p \in Answers \cup {"bad"}
      BY DEF FdReady
    <2>2. SUFFICES Advance(t, Attempt(t, p, block))
      BY <1>4 DEF Progress
    <2> HIDE DEF p
    <2>3. Advance(t, Timer(t, block))
      BY <1>1, <1>2 DEF Timer
    <2>4. Advance(t, WaitFd(t, p)) /\ Advance(t, Accept(t, p)) /\ Advance(t, Recv(t, p))
      BY <2>1, <1>1, <1>2 DEF WaitFd, Accept, Recv, Answers
    <2>5. Advance(t, ReadSocket(t, p))
      BY <2>1, <1>1, <1>2 DEF ReadSocket
    <2>6. Advance(t, Connect(t, p))
      <3> DEFINE u == [t EXCEPT !.started = TRUE]
      <3>1. u \in Task /\ Advance(t, u)
        BY DEF Advance, Task
      <3>2. Advance(t, Complete(u, "ok")) /\ Advance(t, Complete(u, "err"))
        BY <3>1, CompleteAdvance DEF Advance, Results, Task
      <3>3. ConnectStart(t, p) \in {u, Complete(u, "ok"), Complete(u, "err")}
        BY <2>1 DEF ConnectStart, Answers
      <3>4. ConnectPoll(t, p) \in {t, Complete(t, "ok"), Complete(t, "err")}
        BY <2>1 DEF ConnectPoll, Answers
      <3> QED BY <3>1, <3>2, <3>3, <3>4, <1>1, <1>2 DEF Connect
    <2>7. t.kind \in AllKinds
      BY DEF Task
    <2>8. t.kind \in SendKinds => Advance(t, SendBytes(t, p))
      BY <2>1, TransferAdvance
    <2>9. Advance(t, ReadUntil(t, p))
      BY <2>1, TransferAdvance
    <2> QED
      BY <2>3, <2>4, <2>5, <2>6, <2>7, <2>8, <2>9, <1>1
      DEF Attempt, AllKinds, FdKinds, SendKinds
  <1> QED BY <1>3, <1>4

(* Time only changes what remains until the deadline. *)
LEMMA ElapseType ==
  ASSUME NEW t \in Task, NEW d \in Nat
  PROVE  /\ Elapse(t, d) \in Task
         /\ Elapse(t, d).state = t.state
         /\ Elapse(t, d).kind = t.kind
         /\ Elapse(t, d).result = t.result
BY BoundsAssumption DEF Elapse, Task, NoDeadline

-----------------------------------------------------------------------------
(* Lists *)

(* rt_async_all_remove takes one element away and keeps the others. *)
LEMMA UnlinkElems ==
  ASSUME NEW s \in Seq(Handles), Injective(s), NEW h \in Elems(s)
  PROVE  /\ Unlink(s, h) \in Seq(Handles)
         /\ Injective(Unlink(s, h))
         /\ Elems(Unlink(s, h)) = Elems(s) \ {h}
  <1> DEFINE k == CHOOSE i \in DOMAIN s : s[i] = h
             u == [i \in 1..(Len(s) - 1) |-> IF i < k THEN s[i] ELSE s[i + 1]]
  <1>1. k \in DOMAIN s /\ s[k] = h
    BY DEF Elems
  <1>2. Len(s) \in Nat /\ DOMAIN s = 1..Len(s) /\ \A i \in 1..Len(s) : s[i] \in Handles
    OBVIOUS
  <1>3. Unlink(s, h) = u
    BY DEF Unlink
  <1> HIDE DEF k
  <1>4. Len(s) - 1 \in Nat
    BY <1>1, <1>2
  <1>5. u \in Seq(Handles) /\ Len(u) = Len(s) - 1 /\ DOMAIN u = 1..(Len(s) - 1)
    <2>1. \A i \in 1..(Len(s) - 1) : u[i] \in Handles
      BY <1>1, <1>2
    <2> QED BY <2>1, <1>4
  <1>6. Injective(u)
    BY <1>1, <1>2, <1>5 DEF Injective
  <1>7. \A i \in DOMAIN u : u[i] \in Elems(s) \ {h}
    BY <1>1, <1>2, <1>5 DEF Injective, Elems
  <1>8. ASSUME NEW x \in Elems(s) \ {h} PROVE x \in Elems(u)
    <2>1. PICK j \in DOMAIN s : s[j] = x
      BY <1>8 DEF Elems
    <2>2. CASE j < k
      <3>1. j \in DOMAIN u /\ u[j] = x
        BY <2>1, <2>2, <1>1, <1>2, <1>5
      <3> QED BY <3>1 DEF Elems
    <2>3. CASE j > k
      <3>1. j - 1 \in DOMAIN u /\ u[j - 1] = x
        BY <2>1, <2>3, <1>1, <1>2, <1>5
      <3> QED BY <3>1 DEF Elems
    <2>4. j # k
      BY <1>1, <1>8, <2>1
    <2> QED BY <2>2, <2>3, <2>4, <1>1, <1>2, <2>1
  <1>9. Elems(u) = Elems(s) \ {h}
    BY <1>7, <1>8 DEF Elems
  <1> QED BY <1>3, <1>5, <1>6, <1>9

(* A task added at the head of g_async_all. *)
LEMMA ConsElems ==
  ASSUME NEW s \in Seq(Handles), Injective(s), NEW h \in Handles, h \notin Elems(s)
  PROVE  /\ <<h>> \o s \in Seq(Handles)
         /\ Injective(<<h>> \o s)
         /\ Elems(<<h>> \o s) = Elems(s) \cup {h}
  <1> DEFINE u == <<h>> \o s
  <1>1. /\ u \in Seq(Handles) /\ Len(u) = Len(s) + 1 /\ Len(s) \in Nat
        /\ u[1] = h /\ \A i \in 1..Len(s) : u[i + 1] = s[i]
        /\ DOMAIN u = 1..(Len(s) + 1) /\ DOMAIN s = 1..Len(s)
    OBVIOUS
  <1> HIDE DEF u
  <1>2. \A i \in DOMAIN u : i = 1 \/ (i - 1 \in DOMAIN s /\ u[i] = s[i - 1])
    <2> TAKE i \in DOMAIN u
    <2>1. i # 1 => i - 1 \in 1..Len(s) /\ (i - 1) + 1 = i
      BY <1>1
    <2> QED BY <2>1, <1>1
  <1>3. Injective(u)
    BY <1>1, <1>2 DEF Injective, Elems
  <1>4. Elems(u) = Elems(s) \cup {h}
    <2>1. \A x \in Elems(u) : x \in Elems(s) \cup {h}
      BY <1>1, <1>2 DEF Elems
    <2>2. \A x \in Elems(s) : x \in Elems(u)
      <3> TAKE x \in Elems(s)
      <3>1. PICK i \in DOMAIN s : s[i] = x
        BY DEF Elems
      <3>2. i + 1 \in DOMAIN u /\ u[i + 1] = x
        BY <1>1, <3>1
      <3> QED BY <3>2 DEF Elems
    <2>3. h \in Elems(u)
      <3>1. 1 \in DOMAIN u
        BY <1>1
      <3> QED BY <3>1, <1>1 DEF Elems
    <2> QED BY <2>1, <2>2, <2>3
  <1> QED BY <1>1, <1>3, <1>4 DEF u

(* rt_async_ready_push and rt_async_ready_pop. *)
LEMMA PushElems ==
  ASSUME NEW s \in Seq(Handles), Injective(s), NEW h \in Handles, h \notin Elems(s)
  PROVE  /\ Append(s, h) \in Seq(Handles)
         /\ Injective(Append(s, h))
         /\ Elems(Append(s, h)) = Elems(s) \cup {h}
  <1> DEFINE u == Append(s, h)
  <1>1. /\ u \in Seq(Handles) /\ Len(s) \in Nat /\ DOMAIN s = 1..Len(s)
        /\ DOMAIN u = 1..(Len(s) + 1) /\ u[Len(s) + 1] = h
        /\ \A i \in 1..Len(s) : u[i] = s[i]
    OBVIOUS
  <1> HIDE DEF u
  <1>2. Injective(u)
    BY <1>1 DEF Injective, Elems
  <1>3. \A x \in Elems(u) : x \in Elems(s) \cup {h}
    BY <1>1 DEF Elems
  <1>4. \A x \in Elems(s) \cup {h} : x \in Elems(u)
    <2>1. Len(s) + 1 \in DOMAIN u /\ \A i \in DOMAIN s : i \in DOMAIN u
      BY <1>1
    <2> QED BY <2>1, <1>1 DEF Elems
  <1> QED BY <1>1, <1>2, <1>3, <1>4 DEF u

(* rt_async_ready_pop takes the head away and keeps the order. *)
LEMMA PopElems ==
  ASSUME NEW s \in Seq(Handles), Injective(s), s # <<>>
  PROVE  /\ Tail(s) \in Seq(Handles)
         /\ Head(s) \in Elems(s) /\ Head(s) \in Handles
         /\ Injective(Tail(s))
         /\ Elems(Tail(s)) = Elems(s) \ {Head(s)}
  <1> DEFINE u == Tail(s)
  <1>1. /\ u \in Seq(Handles) /\ Len(s) \in Nat \ {0} /\ DOMAIN s = 1..Len(s)
        /\ DOMAIN u = 1..(Len(s) - 1) /\ Head(s) = s[1] /\ Head(s) \in Handles
        /\ \A i \in 1..(Len(s) - 1) : u[i] = s[i + 1]
    OBVIOUS
  <1> HIDE DEF u
  <1>2. 1 \in DOMAIN s /\ \A i \in DOMAIN u : i + 1 \in DOMAIN s /\ i + 1 # 1
    BY <1>1
  <1>3. Injective(u)
    BY <1>1, <1>2 DEF Injective
  <1>4. \A x \in Elems(u) : x \in Elems(s) \ {Head(s)}
    BY <1>1, <1>2 DEF Elems, Injective
  <1>5. ASSUME NEW x \in Elems(s) \ {Head(s)} PROVE x \in Elems(u)
    <2>1. PICK i \in DOMAIN s : s[i] = x
      BY DEF Elems
    <2>2. i - 1 \in DOMAIN u /\ u[i - 1] = x
      BY <2>1, <1>1, <1>5
    <2> QED BY <2>2 DEF Elems
  <1>6. Head(s) \in Elems(s)
    BY <1>1, <1>2 DEF Elems
  <1> QED BY <1>1, <1>3, <1>4, <1>5, <1>6 DEF u

-----------------------------------------------------------------------------
(* The inductive invariant: the three structural invariants together.      *)
(* None is inductive alone: a return needs the RUNNING record of its frame *)
(* to be linked, and a scan relies on the ready list being exact to meet   *)
(* no CALL task.  Freed records are clean for the refinement below.        *)

FreedClean == \A h \in Handles : task[h].state = "FREE" => task[h].result = "none"

IInv == TypeOK /\ AllExact /\ ReadyExact /\ StackExact /\ FreedClean

(* The top frame exists, and replacing it disturbs no other frame. *)
LEMMA TopFrame ==
  ASSUME TypeOK
  PROVE  /\ Len(stack) \in Nat \ {0} /\ DOMAIN stack = 1..Len(stack)
         /\ Len(stack) \in DOMAIN stack /\ Top \in Frame
         /\ \A f \in Frame :
              /\ WithTop(f) \in Seq(Frame) /\ WithTop(f) # <<>>
              /\ Len(WithTop(f)) = Len(stack) /\ DOMAIN WithTop(f) = DOMAIN stack
              /\ WithTop(f)[Len(stack)] = f
              /\ \A i \in DOMAIN stack : i # Len(stack) => WithTop(f)[i] = stack[i]
BY DEF TypeOK, Top, WithTop

(* Replacing the top frame by one of the same function keeps StackExact. *)
LEMMA SameFunction ==
  ASSUME TypeOK, StackExact, NEW f \in Frame, f.who = Top.who, stack' = WithTop(f),
         \A h \in Handles : task'[h].state = "RUNNING" <=> task[h].state = "RUNNING"
  PROVE  StackExact'
  <1>1. \A i \in DOMAIN stack : stack'[i].who = stack[i].who
    BY TopFrame DEF Top
  <1>2. DOMAIN stack' = DOMAIN stack /\ Len(stack') = Len(stack) /\ 1 \in DOMAIN stack
    BY TopFrame
  <1>3. \A i \in DOMAIN stack : i < Len(stack) => stack'[i].on = stack[i].on
    BY TopFrame
  <1> QED BY <1>1, <1>2, <1>3 DEF StackExact

(* Spending an operation of the top frame keeps it a frame. *)
LEMMA SpendFrame ==
  ASSUME TypeOK, MayAct
  PROVE  Spend(Top) \in Frame /\ Spend(Top).who = Top.who /\ Spend(Top).on = Top.on
BY TopFrame, BoundsAssumption DEF MayAct, Spend, Frame

-----------------------------------------------------------------------------

(* No task exists before the program's first call of the scheduler. *)
LEMMA InitIInv == Init => IInv
  <1> SUFFICES ASSUME Init PROVE IInv
    OBVIOUS
  <1>1. FreeTask \in Task
    BY BoundsAssumption DEF FreeTask, Task, States, AllKinds, Results, NoDeadline
  <1>2. [who |-> Main, on |-> None, fuel |-> 0] \in Frame
    BY BoundsAssumption DEF Frame
  <1>3. stack \in Seq(Frame) /\ stack # <<>> /\ DOMAIN stack = {1} /\ Len(stack) = 1
    BY <1>2 DEF Init
  <1>4. TypeOK
    BY <1>1, <1>3 DEF Init, TypeOK
  <1>5. Elems(all) = {} /\ Elems(ready) = {} /\ Injective(all) /\ Injective(ready)
    BY DEF Init, Elems, Injective
  <1>6. \A h \in Handles : task[h].state = "FREE" /\ task[h].result = "none"
    BY DEF Init, FreeTask
  <1>7. AllExact /\ ReadyExact /\ FreedClean
    BY <1>5, <1>6 DEF AllExact, ReadyExact, Live, FreedClean
  <1>8. StackExact
    BY <1>3, <1>6, HandlesAssumption DEF Init, StackExact
  <1> QED BY <1>4, <1>7, <1>8 DEF IInv

(* Creating a task, up to its entry in the ready list. *)
LEMMA NewTaskIInv ==
  ASSUME IInv, NEW h \in Handles, NEW t \in Task, NewTask(h, t),
         t.result = "none" \/ t.state = "DONE", t.state \in {"READY", "WAITING", "DONE"},
         t.state = "READY" => t.kind = "CALL", t.state = "WAITING" => t.kind # "CALL",
         ready' = IF t.state = "READY" THEN Append(ready, h) ELSE ready,
         knows' \in [Handles \cup {Main} -> SUBSET Handles]
  PROVE  IInv'
  <1> USE DEF IInv
  <1>1. task[h].state = "FREE" /\ h \notin Elems(all) /\ h \notin Elems(ready)
    BY DEF NewTask, Live, AllExact, ReadyExact
  <1>2. task' \in [Handles -> Task] /\ task'[h] = t /\ \A g \in Handles \ {h} : task'[g] = task[g]
    BY DEF NewTask, TypeOK
  <1>3. all' \in Seq(Handles) /\ Injective(all') /\ Elems(all') = Elems(all) \cup {h}
    BY <1>1, ConsElems DEF NewTask, TypeOK, AllExact
  <1>4. AllExact'
    BY <1>1, <1>2, <1>3 DEF AllExact, Live
  <1>5. /\ ready' \in Seq(Handles) /\ Injective(ready')
        /\ Elems(ready') = IF t.state = "READY" THEN Elems(ready) \cup {h} ELSE Elems(ready)
    BY <1>1, PushElems DEF TypeOK, ReadyExact
  <1>6. ReadyExact'
    BY <1>1, <1>2, <1>5 DEF ReadyExact
  <1>7. stack' \in Seq(Frame) /\ stack' # <<>> /\ StackExact'
    BY <1>1, <1>2, SpendFrame, TopFrame, SameFunction DEF NewTask
  <1>8. TypeOK'
    BY <1>2, <1>3, <1>5, <1>7 DEF TypeOK, NewTask
  <1>9. FreedClean'
    BY <1>2 DEF FreedClean
  <1> QED BY <1>4, <1>6, <1>7, <1>8, <1>9

(* Every rt_async_* constructor makes one task record: a CALL task that is *)
(* queued, a task that waits, or one that is finished already.             *)
Unsent(t) == t.kind \in SendKinds => t.off = 0 /\ t.left = NoDeadline
NewRecord(t) ==
  \/ t.state = "READY" /\ t.kind = "CALL" /\ t.result = "none"
  \/ t.state = "WAITING" /\ t.kind # "CALL" /\ t.result = "none" /\ Unsent(t)
  \/ t.state = "DONE" /\ t.result \in Results /\ t.kind = "TIMER"

(* A constructor allocates h with the record t, and its frame holds h. *)
Constructs(h, t) ==
  /\ NewTask(h, t)
  /\ NewRecord(t)
  /\ ready' = IF t.state = "READY" THEN Append(ready, h) ELSE ready
  /\ knows' = IF t.state = "READY" THEN [Holding(h) EXCEPT ![h] = Args] ELSE Holding(h)

(* All constructors have this shape. *)
LEMMA CreateNew ==
  ASSUME Create, prog \in Programs
  PROVE  \E h \in Handles, t \in Task : Constructs(h, t)
  <1>2. FreeTask \in Task /\ FreeTask.result = "none"
    BY BoundsAssumption DEF FreeTask, Task, States, AllKinds, Results, NoDeadline
  <1>3. ASSUME NEW h \in Handles, NEW t \in Task, t.result = "none", t.kind # "CALL",
               Unsent(t), Waiting(h, t)
        PROVE  \E u \in Task : Constructs(h, u)
    <2> DEFINE u == [t EXCEPT !.state = "WAITING"]
    <2>1. u \in Task /\ u.state = "WAITING" /\ u.result = "none" /\ u.kind # "CALL"
          /\ Unsent(u)
      BY <1>3 DEF Task, States, Unsent
    <2>2. NewTask(h, u) /\ knows' = Holding(h) /\ ready' = ready
      BY <1>3 DEF Waiting
    <2> QED BY <2>1, <2>2 DEF Constructs, NewRecord
  <1>4. ASSUME NEW h \in Handles, TaskNew(h) PROVE \E u \in Task : Constructs(h, u)
    <2> DEFINE u == [FreeTask EXCEPT !.kind = "CALL", !.state = "READY"]
    <2>1. u \in Task /\ u.state = "READY" /\ u.result = "none" /\ u.kind = "CALL"
      BY <1>2 DEF Task, States, AllKinds
    <2> QED BY <2>1, <1>4 DEF TaskNew, Constructs, NewRecord
  <1>5. ASSUME NEW h \in Handles, Value(h) PROVE \E u \in Task : Constructs(h, u)
    <2> DEFINE u == Complete(FreeTask, "ok")
    <2>1. u \in Task /\ u.state = "DONE"
      BY <1>2, CompleteAdvance DEF Advance, Results
    <2>2. u.result \in Results /\ u.kind = "TIMER"
      BY DEF Complete, FreeTask, Results
    <2> QED BY <2>1, <2>2, <1>5 DEF Value, Constructs, NewRecord
  <1>6. ASSUME NEW h \in Handles, NEW ms \in 0..MaxDelay, SleepMs(h, ms) PROVE \E u \in Task : Constructs(h, u)
    <2>1. /\ [FreeTask EXCEPT !.left = ms] \in Task
          /\ [FreeTask EXCEPT !.left = ms].result = "none"
          /\ [FreeTask EXCEPT !.left = ms].kind # "CALL"
          /\ Unsent([FreeTask EXCEPT !.left = ms])
      BY <1>2, BoundsAssumption DEF Task, FreeTask, Unsent, SendKinds
    <2> QED BY <2>1, <1>3, <1>6 DEF SleepMs
  <1>11. ASSUME NEW k \in AllKinds, k # "CALL", NEW fd \in prog.fds
        PROVE  /\ FdTask(k, fd) \in Task
               /\ FdTask(k, fd).result = "none" /\ FdTask(k, fd).kind = k
               /\ FdTask(k, fd).off = 0 /\ FdTask(k, fd).left = NoDeadline
    <2>1. fd \in {"open", "neg"}
      BY <1>11, ProgramAssumption
    <2> QED BY <2>1, <1>11, <1>2 DEF FdTask, Task, FreeTask
  <1>7. ASSUME NEW h \in Handles, NEW fd \in prog.fds, NEW ms \in {NoDeadline} \cup 0..MaxDelay,
               WaitFdNew(h, fd, ms)
        PROVE  \E u \in Task : Constructs(h, u)
    <2> DEFINE t == [FdTask("WAIT_FD", fd) EXCEPT !.left = ms]
    <2>1. "WAIT_FD" \in AllKinds
      BY DEF AllKinds
    <2>2. t \in Task /\ t.result = "none" /\ t.kind # "CALL" /\ Unsent(t)
      BY <1>11, <2>1 DEF Task, Unsent, SendKinds
    <2> QED BY <2>2, <1>3, <1>7 DEF WaitFdNew
  <1>8. ASSUME NEW h \in Handles, NEW fd \in prog.fds, NEW k \in FdKinds, SocketNew(h, k, fd)
        PROVE  \E u \in Task : Constructs(h, u)
    <2>1. k \in AllKinds /\ k # "CALL"
      BY DEF FdKinds, AllKinds
    <2>2. FdTask(k, fd) \in Task /\ Unsent(FdTask(k, fd))
      BY <2>1, <1>11 DEF Unsent
    <2> QED BY <2>1, <2>2, <1>11, <1>3, <1>8 DEF SocketNew
  <1>9. ASSUME NEW h \in Handles, NEW fd \in prog.fds, NEW k \in SendKinds, NEW n \in 0..MaxLen,
               SendNew(h, k, fd, n)
        PROVE  \E u \in Task : Constructs(h, u)
    <2> DEFINE t == [FdTask(k, fd) EXCEPT !.len = n]
    <2>1. k \in AllKinds /\ k # "CALL"
      BY DEF SendKinds, AllKinds
    <2>2. t \in Task /\ t.result = "none" /\ t.kind # "CALL" /\ Unsent(t)
      BY <2>1, <1>11 DEF Task, Unsent
    <2> QED BY <2>2, <1>3, <1>9 DEF SendNew, SnapshotSend
  <1>10. ASSUME NEW h \in Handles, NEW fd \in prog.fds, NEW m \in 0..1,
                NEW n \in 1..MaxLen, ReadUntilNew(h, fd, m, n)
         PROVE  \E u \in Task : Constructs(h, u)
    <2> DEFINE t == [FdTask("READ_UNTIL", fd) EXCEPT !.needle = m, !.len = n]
    <2>1. "READ_UNTIL" \in AllKinds /\ n \in 0..MaxLen
      BY BoundsAssumption DEF AllKinds
    <2>2. /\ FdTask("READ_UNTIL", fd) \in Task
          /\ FdTask("READ_UNTIL", fd).result = "none"
          /\ FdTask("READ_UNTIL", fd).kind = "READ_UNTIL"
      BY <1>11, <2>1
    <2>3. t \in Task
      BY <2>1, <2>2 DEF Task
    <2>4. t.result = "none" /\ t.kind # "CALL" /\ Unsent(t)
      BY <2>2 DEF Task, Unsent, SendKinds
    <2> QED BY <2>3, <2>4, <1>3, <1>10 DEF ReadUntilNew
  <1> QED BY <1>4, <1>5, <1>6, <1>7, <1>8, <1>9, <1>10 DEF Create

(* Every rt_async_* constructor keeps the invariant. *)
LEMMA CreateIInv ==
  ASSUME IInv, Create
  PROVE  IInv'
  <1>1. PICK h \in Handles, t \in Task : Constructs(h, t)
    BY CreateNew DEF IInv, TypeOK
  <1>2. Top.who \in Handles \cup {Main}
    BY TopFrame DEF IInv, Frame
  <1>3. knows' \in [Handles \cup {Main} -> SUBSET Handles]
    <2>1. Holding(h) \in [Handles \cup {Main} -> SUBSET Handles]
      BY <1>2 DEF Holding, IInv, TypeOK
    <2>2. Args \in SUBSET Handles
      BY <1>2 DEF Args, IInv, TypeOK
    <2> QED BY <1>1, <2>1, <2>2 DEF Constructs
  <1> QED BY <1>1, <1>3, NewTaskIInv DEF Constructs, NewRecord

(* rt_async_await_blocking before its loop, and what a frame's function    *)
(* does that leaves every task alone.                                      *)
LEMMA TopOnlyIInv ==
  ASSUME IInv, NEW f \in Frame, f.who = Top.who, stack' = WithTop(f),
         UNCHANGED <<task, all, ready, pass, knows, prog>>
  PROVE  IInv'
  <1> USE DEF IInv
  <1>1. stack' \in Seq(Frame) /\ stack' # <<>>
    BY TopFrame
  <1>2. StackExact'
    BY SameFunction
  <1>3. TypeOK'
    BY <1>1 DEF TypeOK
  <1> QED BY <1>2, <1>3 DEF AllExact, ReadyExact, FreedClean, Live

(* rt_async_await_blocking up to its loop keeps the invariant. *)
LEMMA AwaitIInv ==
  ASSUME IInv, \/ \E h \in Handles : AwaitBegin(h) \/ AwaitUnknown(h)
               \/ AwaitFreed \/ Refused
  PROVE  IInv'
  <1> USE DEF IInv
  <1>1. ASSUME NEW h \in Handles, AwaitBegin(h) PROVE IInv'
    <2> DEFINE f == [Spend(Top) EXCEPT !.on = h]
    <2>1. f \in Frame /\ f.who = Top.who
      BY <1>1, SpendFrame DEF AwaitBegin, Frame
    <2> QED BY <2>1, <1>1, TopOnlyIInv DEF AwaitBegin
  <1>2. ASSUME NEW h \in Handles, AwaitUnknown(h) PROVE IInv'
    BY <1>2, SpendFrame, TopOnlyIInv DEF AwaitUnknown
  <1>3. ASSUME AwaitFreed PROVE IInv'
    <2>1. [Top EXCEPT !.on = None] \in Frame /\ [Top EXCEPT !.on = None].who = Top.who
      BY TopFrame DEF Frame
    <2> QED BY <2>1, <1>3, TopOnlyIInv DEF AwaitFreed
  <1>4. ASSUME Refused PROVE IInv'
    BY <1>4, SpendFrame, TopOnlyIInv DEF Refused
  <1> QED BY <1>1, <1>2, <1>3, <1>4

(* The await that frees its task. *)
LEMMA AwaitReturnIInv ==
  ASSUME IInv, AwaitReturn
  PROVE  IInv'
  <1> USE DEF IInv
  <1> DEFINE h == Top.on
             f == [Top EXCEPT !.on = None]
  <1>1. h \in Handles /\ task[h].state = "DONE"
    BY TopFrame DEF AwaitReturn, Executing, Frame
  <1>2. f \in Frame /\ f.who = Top.who
    BY TopFrame DEF Frame
  <1>3. FreeTask \in Task /\ FreeTask.state = "FREE" /\ FreeTask.result = "none"
    BY BoundsAssumption DEF FreeTask, Task, States, AllKinds, Results, NoDeadline
  <1>4. /\ task' \in [Handles -> Task] /\ task'[h] = FreeTask
        /\ \A g \in Handles \ {h} : task'[g] = task[g]
    BY <1>1, <1>3 DEF AwaitReturn, TypeOK
  <1>5. h \in Elems(all)
    BY <1>1 DEF AllExact, Live
  <1>6. all' \in Seq(Handles) /\ Injective(all') /\ Elems(all') = Elems(all) \ {h}
    BY <1>5, UnlinkElems DEF AwaitReturn, AllExact, TypeOK
  <1>7. AllExact'
    BY <1>1, <1>3, <1>4, <1>6 DEF AllExact, Live
  <1>8. ReadyExact'
    BY <1>1, <1>3, <1>4 DEF ReadyExact, AwaitReturn
  <1>9. stack' \in Seq(Frame) /\ stack' # <<>> /\ StackExact'
    BY <1>1, <1>2, <1>3, <1>4, TopFrame, SameFunction DEF AwaitReturn
  <1>10. knows' \in [Handles \cup {Main} -> SUBSET Handles]
    BY DEF AwaitReturn, TypeOK
  <1>11. TypeOK'
    BY <1>4, <1>6, <1>9, <1>10 DEF TypeOK, AwaitReturn
  <1>12. FreedClean'
    BY <1>3, <1>4 DEF FreedClean
  <1> QED BY <1>7, <1>8, <1>9, <1>11, <1>12

(* A function returns: its frame goes, its record is still linked. *)
LEMMA ReturnIInv ==
  ASSUME IInv, Return
  PROVE  IInv'
  <1> USE DEF IInv
  <1> DEFINE h == Top.who
             n == Len(stack)
  <1>1. h \in Handles /\ n \in Nat \ {0} /\ n \in DOMAIN stack /\ stack[n].who = h
        /\ DOMAIN stack = 1..n
    BY TopFrame DEF Return, Frame, Top
  <1>2. task[h].state = "RUNNING" /\ task[h] \in Task
    BY <1>1 DEF StackExact, TypeOK
  <1>3. Complete(task[h], "ok") \in Task /\ Complete(task[h], "ok").state = "DONE"
        /\ Complete(task[h], "ok").kind = task[h].kind
    BY <1>2, CompleteAdvance DEF Advance, Results
  <1>4. /\ task' \in [Handles -> Task] /\ task'[h] = Complete(task[h], "ok")
        /\ \A g \in Handles \ {h} : task'[g] = task[g]
    BY <1>1, <1>3 DEF Return, TypeOK
  <1>5. n # 1
    BY <1>1, HandlesAssumption DEF StackExact
  <1>6. /\ stack' \in Seq(Frame) /\ stack' # <<>> /\ Len(stack') = n - 1
        /\ DOMAIN stack' = 1..(n - 1) /\ \A i \in 1..(n - 1) : stack'[i] = stack[i]
    <2>1. n - 1 \in 1..n
      BY <1>1, <1>5
    <2>2. stack \in Seq(Frame) /\ stack' = SubSeq(stack, 1, n - 1)
      BY DEF TypeOK, Return
    <2>3. stack' \in Seq(Frame) /\ Len(stack') = n - 1
          /\ \A i \in 1..(n - 1) : stack'[i] = stack[i]
      BY <2>1, <2>2, <1>1, SubSeqProperties
    <2> QED BY <2>1, <2>3
  <1>7. AllExact'
    BY <1>2, <1>3, <1>4 DEF AllExact, Live, Return
  <1>8. ReadyExact'
    BY <1>2, <1>3, <1>4 DEF ReadyExact, Return
  <1>9. StackExact'
    <2>1. stack'[1].who = Main /\ 1 \in 1..(n - 1)
      BY <1>1, <1>5, <1>6 DEF StackExact
    <2>2. \A i, j \in DOMAIN stack' : stack'[i].who = stack'[j].who => i = j
      BY <1>1, <1>6 DEF StackExact
    <2>3. \A i \in DOMAIN stack' : i < Len(stack') => stack'[i].on # None
      BY <1>1, <1>6 DEF StackExact
    <2>4. \A i \in 1..(n - 1) : stack[i].who # h
      BY <1>1 DEF StackExact
    <2>5. ASSUME NEW g \in Handles
          PROVE  task'[g].state = "RUNNING" <=> \E i \in DOMAIN stack' : stack'[i].who = g
      <3>1. CASE g = h
        BY <3>1, <2>4, <1>3, <1>4, <1>6
      <3>2. CASE g # h
        <4>1. (\E i \in DOMAIN stack : stack[i].who = g) <=> \E i \in 1..(n - 1) : stack[i].who = g
          BY <3>2, <1>1
        <4>2. (\E i \in DOMAIN stack' : stack'[i].who = g) <=> \E i \in 1..(n - 1) : stack[i].who = g
          BY <1>6
        <4>3. task'[g] = task[g]
          BY <3>2, <1>4
        <4>4. task[g].state = "RUNNING" <=> \E i \in DOMAIN stack : stack[i].who = g
          BY DEF StackExact
        <4> QED BY <4>1, <4>2, <4>3, <4>4
      <3> QED BY <3>1, <3>2
    <2> QED BY <2>1, <2>2, <2>3, <2>5, <1>6 DEF StackExact
  <1>10. TypeOK'
    BY <1>1, <1>4, <1>6 DEF TypeOK, Return
  <1>11. FreedClean'
    BY <1>3, <1>4 DEF FreedClean
  <1> QED BY <1>7, <1>8, <1>9, <1>10, <1>11

(* The scheduler calls the function of the first ready task. *)
LEMMA RunReadyIInv ==
  ASSUME IInv, RunReady
  PROVE  IInv'
  <1> USE DEF IInv
  <1> DEFINE h == Head(ready)
             n == Len(stack)
             f == [who |-> h, on |-> None, fuel |-> MaxOps]
  <1>1. /\ ready' \in Seq(Handles) /\ h \in Elems(ready) /\ h \in Handles
        /\ Injective(ready') /\ Elems(ready') = Elems(ready) \ {h}
    BY PopElems DEF RunReady, ReadyExact, TypeOK
  <1>2. task[h].state = "READY" /\ task[h].kind = "CALL" /\ task[h] \in Task
    BY <1>1 DEF ReadyExact, TypeOK
  <1>3. /\ task' \in [Handles -> Task] /\ task'[h] = [task[h] EXCEPT !.state = "RUNNING"]
        /\ \A g \in Handles \ {h} : task'[g] = task[g]
    BY <1>1, <1>2 DEF RunReady, TypeOK, Task, States
  <1>4. task'[h].state = "RUNNING" /\ task'[h].kind = "CALL"
    BY <1>2, <1>3 DEF Task
  <1>5. f \in Frame
    BY <1>1, BoundsAssumption DEF Frame
  <1>6. /\ stack' \in Seq(Frame) /\ stack' # <<>> /\ Len(stack') = n + 1
        /\ DOMAIN stack' = 1..(n + 1) /\ DOMAIN stack = 1..n /\ n \in Nat \ {0}
        /\ stack'[n + 1] = f /\ \A i \in 1..n : stack'[i] = stack[i]
    <2>1. stack \in Seq(Frame) /\ n \in Nat \ {0} /\ DOMAIN stack = 1..n
      BY TopFrame DEF TypeOK
    <2>2. stack' = Append(stack, f)
      BY DEF RunReady
    <2> HIDE DEF f, n
    <2>3. /\ stack' \in Seq(Frame) /\ Len(stack') = n + 1
          /\ stack'[n + 1] = f /\ \A i \in 1..n : stack'[i] = stack[i]
      BY <1>5, <2>1, <2>2, AppendProperties DEF n
    <2> QED BY <2>1, <2>3
  <1>7. AllExact'
    BY <1>2, <1>3, <1>4 DEF AllExact, Live, RunReady
  <1>8. ReadyExact'
    BY <1>1, <1>2, <1>3, <1>4 DEF ReadyExact
  <1>9. StackExact'
    <2>1. \A i \in 1..n : stack[i].who # h
      BY <1>1, <1>2, <1>6 DEF StackExact
    <2>2. stack'[1].who = Main
      BY <1>6 DEF StackExact
    <2>3. stack'[n + 1].who = h
      BY <1>6
    <2>4. \A i, j \in DOMAIN stack' : stack'[i].who = stack'[j].who => i = j
      <3> SUFFICES ASSUME NEW i \in 1..(n + 1), NEW j \in 1..(n + 1),
                          stack'[i].who = stack'[j].who
                   PROVE  i = j
        BY <1>6
      <3>1. CASE i \in 1..n /\ j \in 1..n
        BY <3>1, <1>6 DEF StackExact
      <3>2. CASE i = n + 1 \/ j = n + 1
        BY <3>2, <2>1, <2>3, <1>6
      <3> QED BY <3>1, <3>2, <1>6
    <2>5. \A i \in DOMAIN stack' : i < Len(stack') => stack'[i].on # None
      BY <1>6 DEF StackExact, RunReady, Looping, Top
    <2>6. ASSUME NEW g \in Handles
          PROVE  task'[g].state = "RUNNING" <=> \E i \in DOMAIN stack' : stack'[i].who = g
      <3>1. CASE g = h
        BY <3>1, <2>3, <1>4, <1>6
      <3>2. CASE g # h
        <4>1. (\E i \in DOMAIN stack' : stack'[i].who = g) <=> \E i \in 1..n : stack[i].who = g
          BY <3>2, <2>3, <1>6
        <4> QED BY <4>1, <3>2, <1>3, <1>6 DEF StackExact
      <3> QED BY <3>1, <3>2
    <2> QED BY <2>2, <2>4, <2>5, <2>6 DEF StackExact
  <1>10. TypeOK'
    BY <1>1, <1>3, <1>6 DEF TypeOK, RunReady
  <1>11. FreedClean'
    BY <1>3, <1>4 DEF FreedClean
  <1> QED BY <1>7, <1>8, <1>9, <1>10, <1>11

-----------------------------------------------------------------------------
(* The scan of g_async_all *)

(* What a scan does to each task: nothing, or one rt_async_progress_task. *)
LEMMA ScanTasks ==
  ASSUME IInv, NEW ans \in [Asking -> Answers], ScanWith(ans)
  PROVE  /\ Slept(ans) \in Nat
         /\ \A h \in Handles :
              /\ Progressed(ans, h) \in Task
              /\ task'[h] = Elapse(IF h \in Visited(ans) THEN Progressed(ans, h) ELSE task[h],
                                   Slept(ans))
              /\ task'[h] \in Task /\ task'[h].kind = task[h].kind
              /\ \/ task'[h].state = task[h].state /\ task'[h].result = task[h].result
                 \/ /\ task[h].state = "WAITING" /\ task'[h].state = "DONE"
                    /\ task'[h].result \in Results /\ h \in Visited(ans)
                    /\ Progressed(ans, h).state = "DONE"
         /\ task' \in [Handles -> Task]
  <1> USE DEF IInv
  <1>1. \A h \in Handles : task[h] \in Task
    BY DEF TypeOK
  <1>2. Elems(ready) = {}
    BY DEF ScanWith, Elems
  <1>3. \A h \in Handles : task[h].state # "READY"
    BY <1>2 DEF ReadyExact
  <1>4. \A h \in Handles : Told(ans, h) \in Answers
    BY DEF Told, Answers
  <1>5. Block \in BOOLEAN
    BY DEF Block
  <1>6. ASSUME NEW h \in Handles
        PROVE  /\ Progressed(ans, h) \in Task /\ Progressed(ans, h).kind = task[h].kind
               /\ \/ Progressed(ans, h).state = task[h].state
                     /\ Progressed(ans, h).result = task[h].result
                  \/ task[h].state = "WAITING" /\ Progressed(ans, h).state = "DONE"
                     /\ Progressed(ans, h).result \in Results
    <2>1. CASE Pending(task[h])
      <3>1. task[h].state = "WAITING"
        BY <2>1, <1>3 DEF Pending
      <3>2. Advance(task[h], Progress(task[h], Told(ans, h), Block))
        BY <1>1, <1>4, <1>5, ProgressAdvance
      <3> QED BY <2>1, <3>1, <3>2 DEF Progressed, Advance
    <2>2. CASE ~Pending(task[h])
      BY <2>2, <1>1 DEF Progressed
    <2> QED BY <2>1, <2>2
  <1>7. Slept(ans) \in Nat
    <2>1. CASE Sleepers(ans) = {}
      BY <2>1 DEF Slept
    <2>2. CASE Sleepers(ans) # {}
      <3> DEFINE g == CHOOSE x \in Sleepers(ans) : TRUE
      <3>1. g \in Sleepers(ans)
        BY <2>2
      <3>2. g \in Visited(ans)
        BY <3>1 DEF Sleepers
      <3> HIDE DEF g
      <3>3. g \in Handles
        <4>1. \A i \in DOMAIN all : all[i] \in Handles
          BY DEF TypeOK
        <4> QED BY <3>2, <4>1 DEF Visited
      <3>4. task[g].left \in Int
        BY <3>3, <1>1, BoundsAssumption DEF Task, NoDeadline
      <3> QED BY <3>4 DEF Slept, g
    <2> QED BY <2>1, <2>2
  <1>8. \A h \in Handles :
          task'[h] = Elapse(IF h \in Visited(ans) THEN Progressed(ans, h) ELSE task[h],
                            Slept(ans))
    BY DEF ScanWith
  <1>9. ASSUME NEW h \in Handles
        PROVE  /\ task'[h] \in Task /\ task'[h].kind = task[h].kind
               /\ \/ task'[h].state = task[h].state /\ task'[h].result = task[h].result
                  \/ /\ task[h].state = "WAITING" /\ task'[h].state = "DONE"
                     /\ task'[h].result \in Results /\ h \in Visited(ans)
                     /\ Progressed(ans, h).state = "DONE"
    <2>1. CASE h \in Visited(ans)
      <3>1. task'[h] = Elapse(Progressed(ans, h), Slept(ans))
        BY <2>1, <1>8
      <3> QED BY <2>1, <3>1, <1>6, <1>7, ElapseType
    <2>2. CASE h \notin Visited(ans)
      <3>1. task'[h] = Elapse(task[h], Slept(ans))
        BY <2>2, <1>8
      <3> QED BY <3>1, <1>1, <1>7, ElapseType
    <2> QED BY <2>1, <2>2
  <1>10. task' \in [Handles -> Task]
    <2>1. task' = [h \in Handles |-> task'[h]]
      BY DEF ScanWith
    <2> QED BY <2>1, <1>9
  <1> QED BY <1>6, <1>7, <1>8, <1>9, <1>10

(* A scan of g_async_all keeps the invariant. *)
LEMMA ScanIInv ==
  ASSUME IInv, Scan
  PROVE  IInv'
  <1> USE DEF IInv
  <1>1. PICK ans \in [Asking -> Answers] : ScanWith(ans)
    BY DEF Scan
  <1>2. /\ task' \in [Handles -> Task]
        /\ \A h \in Handles :
             /\ task'[h].kind = task[h].kind
             /\ \/ task'[h].state = task[h].state /\ task'[h].result = task[h].result
                \/ task[h].state = "WAITING" /\ task'[h].state = "DONE"
    BY <1>1, ScanTasks
  <1>3. UNCHANGED <<all, ready, stack, knows, prog>> /\ pass' \in {"poll", "block"}
    BY <1>1 DEF ScanWith
  <1>4. TypeOK'
    BY <1>2, <1>3 DEF TypeOK
  <1>5. AllExact'
    BY <1>2, <1>3 DEF AllExact, Live
  <1>6. ReadyExact'
    BY <1>2, <1>3 DEF ReadyExact
  <1>7. StackExact'
    BY <1>2, <1>3 DEF StackExact
  <1>8. FreedClean'
    BY <1>2 DEF FreedClean
  <1> QED BY <1>4, <1>5, <1>6, <1>7, <1>8

(* Time changes no field of a task that the lists depend on. *)
LEMMA TickTasks ==
  ASSUME IInv, Tick
  PROVE  /\ task' \in [Handles -> Task]
         /\ \A h \in Handles : /\ task'[h].kind = task[h].kind
                               /\ task'[h].state = task[h].state
                               /\ task'[h].result = task[h].result
  <1>1. \A h \in Handles : task[h] \in Task /\ task'[h] = Elapse(task[h], 1)
    BY DEF IInv, TypeOK, Tick
  <1>2. \A h \in Handles : /\ task'[h] \in Task
                           /\ task'[h].kind = task[h].kind
                           /\ task'[h].state = task[h].state
                           /\ task'[h].result = task[h].result
    BY <1>1, ElapseType
  <1>3. task' = [h \in Handles |-> task'[h]]
    BY DEF Tick
  <1> QED BY <1>2, <1>3

(* Time going by keeps the invariant. *)
LEMMA TickIInv ==
  ASSUME IInv, Tick
  PROVE  IInv'
  <1> USE DEF IInv
  <1>1. UNCHANGED <<all, ready, stack, pass, knows, prog>>
    BY DEF Tick
  <1>2. TypeOK'
    BY <1>1, TickTasks DEF TypeOK
  <1>3. AllExact' /\ FreedClean'
    BY <1>1, TickTasks DEF AllExact, Live, FreedClean
  <1>4. ReadyExact'
    BY <1>1, TickTasks DEF ReadyExact
  <1>5. StackExact'
    BY <1>1, TickTasks DEF StackExact
  <1> QED BY <1>2, <1>3, <1>4, <1>5

(* The invariant is inductive. *)
LEMMA NextIInv == IInv /\ [Next]_vars => IInv'
  <1> SUFFICES ASSUME IInv, [Next]_vars PROVE IInv'
    OBVIOUS
  <1>1. CASE Create
    BY <1>1, CreateIInv
  <1>2. CASE (\E h \in Handles : AwaitBegin(h) \/ AwaitUnknown(h)) \/ AwaitFreed \/ Refused
    BY <1>2, AwaitIInv
  <1>3. CASE Return
    BY <1>3, ReturnIInv
  <1>4. CASE AwaitReturn
    BY <1>4, AwaitReturnIInv
  <1>5. CASE RunReady
    BY <1>5, RunReadyIInv
  <1>6. CASE Scan
    BY <1>6, ScanIInv
  <1>7. CASE Tick
    BY <1>7, TickIInv
  <1>8. CASE UNCHANGED vars
    BY <1>8 DEF IInv, vars, TypeOK, AllExact, ReadyExact, StackExact, FreedClean, Live
  <1> QED BY <1>1, <1>2, <1>3, <1>4, <1>5, <1>6, <1>7, <1>8 DEF Next

(* The inductive invariant holds in every reachable state. *)
THEOREM Invariance == Spec => []IInv
  <1>1. Init => IInv
    BY InitIInv
  <1>2. IInv /\ [Next]_vars => IInv'
    BY NextIInv
  <1> QED BY <1>1, <1>2, PTL DEF Spec

(* Every variable of the scheduler keeps its type. *)
THEOREM TypeCorrect == Spec => []TypeOK
  <1>1. IInv => TypeOK
    BY DEF IInv
  <1> QED BY <1>1, Invariance, PTL

(* The task lists and the stack of awaits stay exact, however the program  *)
(* nests, shares and repeats its awaits: no list links a freed task, each  *)
(* function is called once, and a returning function finds its record.     *)
THEOREM ListsStayExact == Spec => []ListsExact
  <1>1. IInv => ListsExact
    BY DEF IInv, ListsExact
  <1> QED BY <1>1, Invariance, PTL

-----------------------------------------------------------------------------
(* Awaits in progress, in a program that awaits each handle once *)

(* No two awaits in progress loop on the same task. *)
AwaitedOnce ==
  \A i, j \in DOMAIN stack :
    stack[i].on = stack[j].on /\ stack[i].on # None => i = j

OnceInv == ~prog.reawait => AwaitedOnce

(* What a step does to the stack: every frame keeps its function and what  *)
(* it awaits, but for the top one, which awaits h from now on (or nothing);*)
(* or the top frame goes; or a frame is pushed for h, which awaits nothing.*)
TopAwaits(h) ==
  /\ DOMAIN stack' = DOMAIN stack
  /\ \A i \in DOMAIN stack :
       /\ stack'[i].who = stack[i].who
       /\ stack'[i].on = IF i = Len(stack) THEN h ELSE stack[i].on

TopLeaves ==
  /\ DOMAIN stack' = 1..(Len(stack) - 1)
  /\ \A i \in 1..(Len(stack) - 1) : stack'[i] = stack[i]

TopCalls(h) ==
  /\ DOMAIN stack' = 1..(Len(stack) + 1)
  /\ \A i \in 1..Len(stack) : stack'[i] = stack[i]
  /\ stack'[Len(stack) + 1].who = h /\ stack'[Len(stack) + 1].on = None

(* Replacing the top frame. *)
LEMMA TopChange ==
  ASSUME TypeOK, NEW f \in Frame, f.who = Top.who, stack' = WithTop(f)
  PROVE  TopAwaits(f.on)
BY TopFrame DEF TopAwaits, Top

(* A step that leaves the stack alone is one whose top frame awaits what   *)
(* it did.                                                                 *)
LEMMA TopKept ==
  ASSUME TypeOK, stack' = stack
  PROVE  TopAwaits(Top.on)
BY TopFrame DEF TopAwaits, Top

(* A constructor allocates one address. *)
LEMMA CreateStep ==
  ASSUME IInv, Create
  PROVE  /\ TopAwaits(Top.on)
         /\ \E h \in Handles :
              /\ ~Live(h) /\ Live(h)'
              /\ \A g \in Handles \ {h} : task'[g] = task[g]
  <1> USE DEF IInv
  <1>1. PICK h \in Handles, t \in Task : Constructs(h, t)
    BY CreateNew DEF IInv, TypeOK
  <1>2. MayAct /\ ~Live(h) /\ stack' = WithTop(Spend(Top))
    BY <1>1 DEF Constructs, NewTask
  <1>3. TopAwaits(Top.on)
    BY <1>2, SpendFrame, TopChange
  <1>4. task'[h] = t /\ \A g \in Handles \ {h} : task'[g] = task[g]
    BY <1>1 DEF Constructs, NewTask, TypeOK
  <1>5. Live(h)'
    BY <1>1, <1>4 DEF Constructs, NewRecord, Live
  <1> QED BY <1>2, <1>3, <1>4, <1>5

(* What each of the other actions does to the stack. *)
LEMMA AwaitBeginStep ==
  ASSUME IInv, NEW h \in Handles, AwaitBegin(h)
  PROVE  TopAwaits(h)
  <1> DEFINE f == [Spend(Top) EXCEPT !.on = h]
  <1>1. f \in Frame /\ f.who = Top.who /\ f.on = h
    BY SpendFrame DEF AwaitBegin, Frame, IInv
  <1> QED BY <1>1, TopChange DEF AwaitBegin, IInv

(* An await of an unknown handle, or a refused task, is over at once. *)
LEMMA AwaitUnknownStep ==
  ASSUME IInv, Refused \/ \E h \in Handles : AwaitUnknown(h)
  PROVE  TopAwaits(Top.on)
BY SpendFrame, TopChange DEF AwaitUnknown, Refused, IInv

(* An await ends. *)
LEMMA AwaitEndStep ==
  ASSUME IInv, AwaitReturn \/ AwaitFreed
  PROVE  TopAwaits(None) /\ Top.on \in Handles
  <1> DEFINE f == [Top EXCEPT !.on = None]
  <1>1. f \in Frame /\ f.who = Top.who /\ f.on = None
    BY TopFrame DEF Frame, IInv
  <1>2. stack' = WithTop(f)
    BY DEF AwaitReturn, AwaitFreed
  <1>3. TopAwaits(None)
    BY <1>1, <1>2, TopChange DEF IInv
  <1>4. Top.on \in Handles
    BY TopFrame DEF AwaitReturn, AwaitFreed, Executing, Frame, IInv
  <1> QED BY <1>3, <1>4

(* A function's frame goes, or a new one comes. *)
LEMMA CallStep ==
  ASSUME IInv
  PROVE  /\ Return => TopLeaves
         /\ RunReady => TopCalls(Head(ready))
  <1>1. stack \in Seq(Frame) /\ Len(stack) \in Nat \ {0}
    BY TopFrame DEF IInv, TypeOK
  <1>2. ASSUME Return PROVE TopLeaves
    <2>1. \A n \in Nat \ {0, 1} : n - 1 \in 1..n
      OBVIOUS
    <2>2. stack' = SubSeq(stack, 1, Len(stack) - 1)
      BY <1>2 DEF Return
    <2>3. CASE Len(stack) = 1
      BY <2>2, <2>3, <1>1 DEF TopLeaves
    <2>4. CASE Len(stack) # 1
      <3>1. Len(stack) - 1 \in 1..Len(stack)
        BY <2>1, <2>4, <1>1, Zenon
      <3> QED BY <2>2, <3>1, <1>1, SubSeqProperties DEF TopLeaves
    <2> QED BY <2>3, <2>4
  <1>3. ASSUME RunReady PROVE TopCalls(Head(ready))
    <2> DEFINE f == [who |-> Head(ready), on |-> None, fuel |-> MaxOps]
    <2>1. Head(ready) \in Handles
      BY <1>3, PopElems DEF RunReady, ReadyExact, TypeOK, IInv
    <2>2. f \in Frame /\ f.who = Head(ready) /\ f.on = None
      BY <2>1, BoundsAssumption DEF Frame
    <2>3. stack' = Append(stack, f)
      BY <1>3 DEF RunReady
    <2> HIDE DEF f
    <2> QED BY <2>2, <2>3, <1>1, AppendProperties DEF TopCalls
  <1> QED BY <1>2, <1>3

(* The program that runs stays the same. *)
LEMMA ProgKept ==
  ASSUME [Next]_vars
  PROVE  prog' = prog
  <1>1. CASE Create
    BY <1>1 DEF Create, TaskNew, Value, SleepMs, WaitFdNew, SocketNew, SendNew, ReadUntilNew,
                Waiting, NewTask
  <1> QED
    BY <1>1 DEF Next, AwaitBegin, AwaitUnknown, AwaitFreed, Refused, Return, AwaitReturn,
                RunReady, Scan, ScanWith, Tick, vars

(* A program that awaits a handle only when nobody does never awaits one   *)
(* twice at the same time.                                                 *)
LEMMA NextOnce == IInv /\ OnceInv /\ [Next]_vars => OnceInv'
  <1> SUFFICES ASSUME IInv, ~prog.reawait, AwaitedOnce, [Next]_vars PROVE AwaitedOnce'
    BY ProgKept DEF OnceInv
  <1>1. TypeOK /\ DOMAIN stack = 1..Len(stack) /\ Len(stack) \in Nat \ {0}
    BY TopFrame DEF IInv
  <1>2. ASSUME TopAwaits(Top.on) PROVE AwaitedOnce'
    BY <1>1, <1>2 DEF TopAwaits, AwaitedOnce, Top
  <1>3. ASSUME TopAwaits(None) PROVE AwaitedOnce'
    BY <1>1, <1>3 DEF TopAwaits, AwaitedOnce
  <1>4. ASSUME NEW h \in Handles, AwaitBegin(h) PROVE AwaitedOnce'
    <2>1. TopAwaits(h) /\ \A i \in DOMAIN stack : stack[i].on # h
      BY <1>4, AwaitBeginStep DEF AwaitBegin, Awaited
    <2> QED BY <2>1, <1>1 DEF TopAwaits, AwaitedOnce
  <1>5. ASSUME TopLeaves PROVE AwaitedOnce'
    BY <1>1, <1>5 DEF TopLeaves, AwaitedOnce
  <1>6. ASSUME NEW h, TopCalls(h) PROVE AwaitedOnce'
    BY <1>1, <1>6 DEF TopCalls, AwaitedOnce
  <1>7. Scan \/ Tick \/ UNCHANGED vars => stack' = stack
    BY DEF Scan, ScanWith, Tick, vars
  <1>8. Scan \/ Tick \/ UNCHANGED vars => TopAwaits(Top.on)
    BY <1>1, <1>7, TopKept
  <1> QED BY <1>2, <1>3, <1>4, <1>5, <1>6, <1>8, CreateStep, AwaitUnknownStep,
             AwaitEndStep, CallStep DEF Next

(* A step frees no task but the one the top frame has finished awaiting. *)
LEMMA LiveKept ==
  ASSUME IInv, [Next]_vars, ~AwaitReturn, NEW h \in Handles, Live(h)
  PROVE  Live(h)'
  <1> USE DEF IInv, Live
  <1>1. CASE Create
    BY <1>1, CreateStep
  <1>2. CASE task' = task
    BY <1>2
  <1>3. CASE Return
    <2>1. Top.who \in Handles /\ task[Top.who] \in Task
      BY <1>3, TopFrame DEF Return, Frame, TypeOK
    <2>2. Complete(task[Top.who], "ok").state = "DONE"
      BY <2>1, CompleteAdvance DEF Results
    <2> QED BY <1>3, <2>1, <2>2 DEF Return, TypeOK
  <1>4. CASE RunReady
    BY <1>4 DEF RunReady, TypeOK, Task
  <1>5. CASE Scan
    BY <1>5, ScanTasks DEF Scan
  <1>6. CASE Tick
    BY <1>6, TickTasks
  <1> QED
    BY <1>1, <1>2, <1>3, <1>4, <1>5, <1>6
    DEF Next, AwaitBegin, AwaitUnknown, AwaitFreed, Refused, vars

(* A program that awaits each handle once keeps every awaited task alive. *)
LEMMA NextDangling ==
  IInv /\ OnceInv /\ NoDanglingAwait /\ [Next]_vars => NoDanglingAwait'
  <1> SUFFICES ASSUME IInv, AwaitedOnce, AwaitsLive, [Next]_vars
               PROVE  AwaitsLive'
    BY ProgKept DEF OnceInv, NoDanglingAwait
  <1>1. /\ TypeOK /\ DOMAIN stack = 1..Len(stack) /\ Len(stack) \in Nat \ {0}
        /\ \A i \in DOMAIN stack : stack[i].on \in Handles \cup {None}
    <2>1. TypeOK /\ DOMAIN stack = 1..Len(stack) /\ Len(stack) \in Nat \ {0}
      BY TopFrame DEF IInv
    <2>2. \A i \in DOMAIN stack : stack[i] \in Frame
      BY <2>1 DEF TypeOK
    <2> QED BY <2>1, <2>2 DEF Frame
  <1>2. ~AwaitFreed
    BY <1>1 DEF AwaitFreed, AwaitsLive, Executing, Top
  <1>3. CASE AwaitReturn
    <2>1. TopAwaits(None) /\ Top.on \in Handles
      BY <1>3, AwaitEndStep
    <2>2. \A h \in Handles \ {Top.on} : task'[h] = task[h]
      BY <1>1, <1>3 DEF AwaitReturn, TypeOK
    <2>3. \A i \in DOMAIN stack : i # Len(stack) => stack[i].on # Top.on
      BY <1>1, <2>1, HandlesAssumption DEF AwaitedOnce, Top
    <2> QED BY <2>1, <2>2, <2>3, <1>1 DEF TopAwaits, AwaitsLive, Live
  <1>4. ASSUME ~AwaitReturn PROVE AwaitsLive'
    <2>1. \A h \in Handles : Live(h) => Live(h)'
      BY <1>4, LiveKept
    <2>2. ASSUME TopAwaits(Top.on) PROVE AwaitsLive'
      <3> SUFFICES ASSUME NEW i \in DOMAIN stack, stack'[i].on # None
                   PROVE  task'[stack'[i].on].state # "FREE"
        BY <2>2 DEF AwaitsLive, TopAwaits, Live
      <3>1. stack'[i].on = stack[i].on
        BY <2>2 DEF TopAwaits, Top
      <3>2. stack[i].on \in Handles /\ Live(stack[i].on)
        BY <3>1, <1>1 DEF AwaitsLive
      <3> QED BY <3>1, <3>2, <2>1 DEF Live
    <2>3. ASSUME NEW h \in Handles, AwaitBegin(h) PROVE AwaitsLive'
      <3>1. TopAwaits(h) /\ Live(h) /\ task' = task
        BY <2>3, AwaitBeginStep DEF AwaitBegin, IInv, AllExact
      <3> QED BY <3>1, <1>1 DEF TopAwaits, AwaitsLive, Live
    <2>4. ASSUME TopLeaves PROVE AwaitsLive'
      <3> SUFFICES ASSUME NEW i \in 1..(Len(stack) - 1), stack'[i].on # None
                   PROVE  task'[stack'[i].on].state # "FREE"
        BY <2>4 DEF AwaitsLive, TopLeaves, Live
      <3>1. stack'[i] = stack[i] /\ i \in DOMAIN stack
        BY <2>4, <1>1 DEF TopLeaves
      <3> QED BY <3>1, <2>1, <1>1 DEF AwaitsLive, Live
    <2>5. ASSUME NEW h, TopCalls(h) PROVE AwaitsLive'
      <3> SUFFICES ASSUME NEW i \in 1..(Len(stack) + 1), stack'[i].on # None
                   PROVE  task'[stack'[i].on].state # "FREE"
        BY <2>5 DEF AwaitsLive, TopCalls, Live
      <3>1. stack'[i] = stack[i] /\ i \in DOMAIN stack
        BY <2>5, <1>1 DEF TopCalls
      <3> QED BY <3>1, <2>1, <1>1 DEF AwaitsLive, Live
    <2>6. Scan \/ Tick \/ UNCHANGED vars => TopAwaits(Top.on)
      <3>1. Scan \/ Tick \/ UNCHANGED vars => stack' = stack
        BY DEF Scan, ScanWith, Tick, vars
      <3> QED BY <1>1, <3>1, TopKept
    <2> QED BY <1>2, <1>4, <2>2, <2>3, <2>4, <2>5, <2>6, CreateStep, AwaitUnknownStep,
               CallStep DEF Next
  <1> QED BY <1>3, <1>4

(* If the program never awaits a handle that is or was awaited elsewhere,  *)
(* no await ever reads a freed task: the loop of rt_async_await_blocking   *)
(* is the only reader of the record between its completion and its free.   *)
THEOREM AwaitsStayLive == Spec => []NoDanglingAwait
  <1>1. Init => OnceInv /\ NoDanglingAwait
    BY DEF Init, OnceInv, AwaitedOnce, NoDanglingAwait, AwaitsLive
  <1>2. IInv /\ OnceInv /\ [Next]_vars => OnceInv'
    BY NextOnce
  <1>3. IInv /\ OnceInv /\ NoDanglingAwait /\ [Next]_vars => NoDanglingAwait'
    BY NextDangling
  <1> QED BY <1>1, <1>2, <1>3, Invariance, PTL DEF Spec

-----------------------------------------------------------------------------
(* The count a transfer reports *)

(* What is true of a SEND or WRITE_ALL task all along: it has no deadline, *)
(* a refused descriptor took nothing, one that waits has bytes left (or    *)
(* sent none), and one that is done reports how far it came.               *)
Counted(t) ==
  t.kind \in SendKinds =>
    /\ t.left = NoDeadline
    /\ t.fd = "neg" => t.off = 0
    /\ t.state = "WAITING" => t.off = 0 \/ t.off < t.len
    /\ t.state = "DONE" =>
         /\ t.result = "ok" => t.off = t.len
         /\ t.result = "short" => t.off \in 1..(t.len - 1)
         /\ t.result = "err" => t.off = 0

AllCounted == \A h \in Handles : Counted(task[h])

(* One rt_async_progress_task keeps the count right. *)
LEMMA ProgressCounted ==
  ASSUME NEW t \in Task, Counted(t), t.state = "WAITING", NEW a \in Answers,
         NEW block \in BOOLEAN
  PROVE  Counted(Progress(t, a, block))
  <1>1. Progress(t, a, block).kind = t.kind
    BY ProgressAdvance DEF Advance
  <1>2. CASE t.kind \notin SendKinds
    BY <1>1, <1>2 DEF Counted
  <1>3. CASE t.kind \in SendKinds
    <2> DEFINE p == FdReady(t, a)
    <2>1. Progress(t, a, block) = SendBytes(t, p)
      BY <1>3 DEF Counted, Progress, Expired, NoDeadline, Attempt, SendKinds
    <2>2. p \in Answers \cup {"bad"} /\ (p = "bad" <=> t.fd = "neg")
      BY DEF FdReady, Answers, Task
    <2> HIDE DEF p
    <2>3. t.off \in Nat /\ t.len \in Nat
      BY BoundsAssumption DEF Task
    <2>4. ASSUME NEW r \in 1..(t.len - t.off), t.fd # "neg" PROVE Counted(Sent(t, r))
      <3> DEFINE u == [t EXCEPT !.off = t.off + r]
      <3>1. u.off = t.off + r /\ u.len = t.len /\ u.left = t.left /\ u.fd = t.fd
            /\ u.state = t.state /\ u.kind = t.kind
        BY DEF Task
      <3>2. CASE u.off >= t.len
        <4>1. Sent(t, r) = Complete(u, "ok")
          BY <3>2, <3>1, <2>3, <2>4 DEF Sent
        <4> QED BY <4>1, <3>1, <3>2, <2>3, <2>4 DEF Counted, Complete, NoDeadline, Task
      <3>3. CASE u.off < t.len /\ t.kind = "SEND"
        <4>1. Sent(t, r) = Complete(u, "short")
          BY <3>3, <3>1, <2>3, <2>4 DEF Sent
        <4> QED BY <4>1, <3>1, <3>3, <2>3, <2>4 DEF Counted, Complete, NoDeadline, Task
      <3>4. CASE u.off < t.len /\ t.kind # "SEND"
        <4>1. Sent(t, r) = u
          BY <3>4, <3>1, <2>3, <2>4 DEF Sent
        <4> QED BY <4>1, <3>1, <3>4, <1>3, <2>3, <2>4 DEF Counted
      <3> QED BY <3>1, <3>2, <3>3, <3>4, <2>3, <2>4
    <2>5. CASE p = "bad"
      <3>1. SendBytes(t, p) = Complete(t, "err")
        BY <2>5 DEF SendBytes
      <3> QED BY <3>1, <2>1, <2>2, <2>5, <1>3 DEF Counted, Complete, Task
    <2>6. CASE p = "idle"
      BY <2>6, <2>1 DEF SendBytes
    <2>7. CASE p \in {"all", "part", "fail"} /\ t.off >= t.len
      <3>1. SendBytes(t, p) = Complete(t, "ok")
        BY <2>7, <2>3 DEF SendBytes
      <3>2. t.off = 0 /\ t.len = 0
        BY <2>7, <2>3, <1>3 DEF Counted
      <3> QED BY <3>1, <3>2, <2>1, <1>3 DEF Counted, Complete, Task
    <2>8. CASE p = "fail" /\ t.off < t.len
      <3>1. SendBytes(t, p) = Complete(t, IF t.off > 0 THEN "short" ELSE "err")
        BY <2>8, <2>3 DEF SendBytes
      <3> QED BY <3>1, <2>1, <2>3, <2>8, <1>3 DEF Counted, Complete, Task
    <2>9. CASE p = "part" /\ t.off < t.len
      <3>1. SendBytes(t, p) = Sent(t, 1) /\ 1 \in 1..(t.len - t.off)
        BY <2>9, <2>3 DEF SendBytes
      <3> QED BY <3>1, <2>1, <2>2, <2>4, <2>9
    <2>10. CASE p = "all" /\ t.off < t.len
      <3>1. SendBytes(t, p) = Sent(t, t.len - t.off) /\ t.len - t.off \in 1..(t.len - t.off)
        BY <2>10, <2>3 DEF SendBytes
      <3> QED BY <3>1, <2>1, <2>2, <2>4, <2>10
    <2> QED BY <2>2, <2>3, <2>5, <2>6, <2>7, <2>8, <2>9, <2>10 DEF Answers
  <1> QED BY <1>2, <1>3

(* Time does not touch the count. *)
LEMMA ElapseCounted ==
  ASSUME NEW t \in Task, Counted(t), NEW d \in Nat
  PROVE  Counted(Elapse(t, d))
  <1>1. CASE t.kind \in SendKinds
    BY <1>1 DEF Counted, Elapse
  <1>2. CASE t.kind \notin SendKinds
    BY <1>2, ElapseType DEF Counted
  <1> QED BY <1>1, <1>2

(* Every step keeps the counts right. *)
LEMMA NextCounted == IInv /\ AllCounted /\ [Next]_vars => AllCounted'
  <1> SUFFICES ASSUME IInv, AllCounted, [Next]_vars, NEW h \in Handles
               PROVE  Counted(task'[h])
    BY DEF AllCounted
  <1> USE DEF IInv
  <1>1. \A g \in Handles : task[g] \in Task /\ Counted(task[g])
    BY DEF TypeOK, AllCounted
  <1>2. CASE Create
    <2>1. PICK g \in Handles, t \in Task : Constructs(g, t)
      BY <1>2, CreateNew DEF IInv, TypeOK
    <2>2. task' = [task EXCEPT ![g] = t]
      BY <2>1 DEF Constructs, NewTask
    <2>3. Counted(t)
      BY <2>1 DEF Constructs, NewRecord, Unsent, Counted, SendKinds
    <2> QED BY <2>2, <2>3, <1>1 DEF TypeOK
  <1>3. CASE task' = task
    BY <1>1, <1>3
  <1>4. CASE Return
    <2>1. Top.who \in Handles /\ task[Top.who].state = "RUNNING"
      <3>1. Top.who \in Handles
        BY <1>4, TopFrame DEF Return, Frame
      <3>2. Len(stack) \in DOMAIN stack /\ stack[Len(stack)].who = Top.who
        BY TopFrame DEF Top
      <3> QED BY <3>1, <3>2 DEF StackExact
    <2>2. task[Top.who].kind = "CALL"
      BY <2>1 DEF ReadyExact
    <2>3. Complete(task[Top.who], "ok").kind = "CALL"
      BY <2>1, <2>2, <1>1, CompleteAdvance DEF Advance, Results
    <2>4. Counted(Complete(task[Top.who], "ok"))
      BY <2>3 DEF Counted, SendKinds
    <2> QED BY <1>1, <1>4, <2>1, <2>4 DEF Return, TypeOK
  <1>5. CASE AwaitReturn
    <2>1. Counted(FreeTask)
      BY DEF FreeTask, Counted, SendKinds
    <2> QED BY <1>1, <1>5, <2>1 DEF AwaitReturn, TypeOK
  <1>6. CASE RunReady
    <2>1. Head(ready) \in Handles /\ task[Head(ready)].kind = "CALL"
      BY <1>6, PopElems DEF RunReady, ReadyExact, TypeOK
    <2>2. Counted([task[Head(ready)] EXCEPT !.state = "RUNNING"])
      BY <2>1, <1>1 DEF Counted, SendKinds, Task
    <2> QED BY <1>1, <1>6, <2>1, <2>2 DEF RunReady, TypeOK
  <1>7. CASE Scan
    <2>1. PICK ans \in [Asking -> Answers] : ScanWith(ans)
      BY <1>7 DEF Scan
    <2>2. /\ Slept(ans) \in Nat /\ Progressed(ans, h) \in Task
          /\ task'[h] = Elapse(IF h \in Visited(ans) THEN Progressed(ans, h) ELSE task[h],
                               Slept(ans))
      BY <2>1, ScanTasks
    <2>3. Counted(Progressed(ans, h))
      <3>1. CASE Pending(task[h])
        <4>1. task[h].state = "WAITING"
          BY <3>1, <2>1 DEF Pending, ScanWith, Elems, ReadyExact
        <4>2. Told(ans, h) \in Answers /\ Block \in BOOLEAN
          BY DEF Told, Answers, Block
        <4> QED BY <3>1, <4>1, <4>2, <1>1, ProgressCounted DEF Progressed
      <3>2. CASE ~Pending(task[h])
        BY <3>2, <1>1 DEF Progressed
      <3> QED BY <3>1, <3>2
    <2> QED BY <2>2, <2>3, <1>1, ElapseCounted
  <1>8. CASE Tick
    BY <1>8, <1>1, ElapseCounted DEF Tick
  <1> QED
    BY <1>2, <1>3, <1>4, <1>5, <1>6, <1>7, <1>8
    DEF Next, AwaitBegin, AwaitUnknown, AwaitFreed, Refused, vars

(* A SEND or WRITE_ALL that is done reports all bytes, a count short of    *)
(* them or an error exactly when all, some or none of them went out.       *)
THEOREM CountsAreTrue == Spec => []CountTrue
  <1>1. Init => AllCounted
    BY DEF Init, AllCounted, Counted, FreeTask, SendKinds
  <1>2. IInv /\ AllCounted /\ [Next]_vars => AllCounted'
    BY NextCounted
  <1>3. IInv /\ AllCounted => CountTrue
    BY DEF AllCounted, Counted, CountTrue
  <1> QED BY <1>1, <1>2, <1>3, Invariance, PTL DEF Spec

-----------------------------------------------------------------------------
(* The scheduler implements AsyncTasks *)

(* A scan completes one task at most. *)
LEMMA ScanCompletesOne ==
  ASSUME IInv, NEW ans \in [Asking -> Answers], ScanWith(ans),
         NEW g \in Handles, task[g].state # "DONE", task'[g].state = "DONE",
         NEW h \in Handles, task[h].state # "DONE", task'[h].state = "DONE"
  PROVE  g = h
  <1>1. \A x \in {g, h} : x \in Visited(ans) /\ task[x].state = "WAITING"
                          /\ Progressed(ans, x).state = "DONE"
    BY ScanTasks
  <1>2. \A x \in {g, h} : \E i \in DOMAIN all : all[i] = x /\ \A k \in Hits(ans) : i <= k
    BY <1>1 DEF Visited
  <1>3. PICK i \in DOMAIN all : all[i] = g /\ \A k \in Hits(ans) : i <= k
    BY <1>2
  <1>4. PICK j \in DOMAIN all : all[j] = h /\ \A k \in Hits(ans) : j <= k
    BY <1>2
  <1>5. i \in Hits(ans) /\ j \in Hits(ans)
    BY <1>1, <1>3, <1>4 DEF Hits, Pending
  <1>6. i \in Nat /\ j \in Nat
    BY DEF IInv, TypeOK
  <1>7. i = j
    BY <1>3, <1>4, <1>5, <1>6
  <1> QED BY <1>3, <1>4, <1>7

(* When only h changes, so do the abstract variables. *)
LEMMA OneTask ==
  ASSUME TypeOK, NEW h \in Handles,
         \A g \in Handles \ {h} : task'[g].state = task[g].state /\ task'[g].result = task[g].result
  PROVE  /\ statusMap' = [statusMap EXCEPT ![h] = StatusOf(task'[h])]
         /\ valueMap' = [valueMap EXCEPT ![h] = task'[h].result]
         /\ statusMap[h] = StatusOf(task[h]) /\ valueMap[h] = task[h].result
  <1>1. \A g \in Handles \ {h} : StatusOf(task'[g]) = StatusOf(task[g])
    BY DEF StatusOf
  <1> QED BY <1>1 DEF statusMap, valueMap

(* When no task changes, neither do the abstract variables. *)
LEMMA SameTasks ==
  ASSUME \A g \in Handles : StatusOf(task'[g]) = StatusOf(task[g]) /\ task'[g].result = task[g].result
  PROVE  UNCHANGED <<statusMap, valueMap>>
BY DEF statusMap, valueMap

(* What AsyncTasks sees of each state of a task record. *)
LEMMA StatusValues ==
  ASSUME NEW t
  PROVE  /\ t.state = "FREE" => StatusOf(t) = "none"
         /\ t.state \in {"READY", "RUNNING", "WAITING"} => StatusOf(t) = "pending"
         /\ t.state = "DONE" => StatusOf(t) = "done"
BY DEF StatusOf

(* A new task is submitted, finished or not. *)
LEMMA NewTaskAbs ==
  ASSUME IInv, NEW h \in Handles, NEW t, NewTask(h, t),
         \/ t.state \in {"READY", "WAITING"} /\ t.result = "none"
         \/ t.state = "DONE" /\ t.result \in Results
  PROVE  Tasks!AbsNext
  <1>1. TypeOK /\ FreedClean
    BY DEF IInv
  <1>2. task[h].state = "FREE" /\ task[h].result = "none"
    BY <1>1 DEF NewTask, Live, FreedClean
  <1>3. task'[h] = t /\ \A g \in Handles \ {h} : task'[g] = task[g]
    BY <1>1 DEF NewTask, TypeOK
  <1>4. /\ statusMap' = [statusMap EXCEPT ![h] = StatusOf(t)]
        /\ valueMap' = [valueMap EXCEPT ![h] = t.result]
        /\ statusMap[h] = "none" /\ valueMap[h] = "none"
    BY <1>1, <1>2, <1>3, OneTask, StatusValues
  <1>5. CASE t.state = "DONE" /\ t.result \in Results
    <2>1. Tasks!SubmitFinished(h, t.result)
      BY <1>4, <1>5, StatusValues DEF Tasks!SubmitFinished
    <2> QED BY <2>1, <1>5 DEF Tasks!AbsNext
  <1>6. CASE t.state \in {"READY", "WAITING"} /\ t.result = "none"
    <2>1. valueMap' = valueMap
      BY <1>4, <1>6 DEF valueMap
    <2>2. Tasks!Submit(h)
      BY <1>4, <1>6, <2>1, StatusValues DEF Tasks!Submit
    <2> QED BY <2>2 DEF Tasks!AbsNext
  <1> QED BY <1>5, <1>6

(* A pending task is finished. *)
LEMMA FinishAbs ==
  ASSUME IInv, NEW h \in Handles, task[h].state \in {"READY", "RUNNING", "WAITING"},
         task'[h].state = "DONE", task'[h].result \in Results,
         \A g \in Handles \ {h} : task'[g].state = task[g].state /\ task'[g].result = task[g].result
  PROVE  Tasks!AbsNext
  <1>1. Tasks!Finish(h, task'[h].result)
    BY OneTask, StatusValues DEF IInv, Tasks!Finish
  <1> QED BY <1>1 DEF Tasks!AbsNext

(* Every rt_async_* constructor submits one handle. *)
LEMMA CreateAbs ==
  ASSUME IInv, Create
  PROVE  Tasks!AbsNext
  <1>1. PICK h \in Handles, t \in Task : Constructs(h, t)
    BY CreateNew DEF IInv, TypeOK
  <1> QED BY <1>1, NewTaskAbs DEF Constructs, NewRecord

(* Every step of the scheduler is a step of AsyncTasks or changes nothing  *)
(* that AsyncTasks sees.                                                   *)
LEMMA StepAbs == IInv /\ [Next]_vars => [Tasks!AbsNext]_<<statusMap, valueMap>>
  <1> SUFFICES ASSUME IInv, [Next]_vars
               PROVE  Tasks!AbsNext \/ UNCHANGED <<statusMap, valueMap>>
    OBVIOUS
  <1> USE DEF IInv
  <1>1. CASE Create
    BY <1>1, CreateAbs
  <1>2. CASE task' = task
    BY <1>2, SameTasks
  <1>3. CASE Return
    <2> DEFINE h == Top.who
    <2>1. h \in Handles /\ task[h].state = "RUNNING"
      <3>1. h \in Handles
        BY <1>3, TopFrame DEF Return, Frame
      <3>2. Len(stack) \in DOMAIN stack /\ stack[Len(stack)].who = h
        BY TopFrame DEF Top
      <3> QED BY <3>1, <3>2 DEF StackExact
    <2>2. task[h] \in Task
      BY <2>1 DEF TypeOK
    <2>3. /\ task'[h] = Complete(task[h], "ok")
          /\ \A g \in Handles \ {h} : task'[g] = task[g]
      BY <1>3, <2>1 DEF Return, TypeOK
    <2>4. task'[h].state = "DONE" /\ task'[h].result \in Results
      BY <2>2, <2>3 DEF Complete, Task, Results
    <2> QED BY <2>1, <2>3, <2>4, FinishAbs
  <1>4. CASE AwaitReturn
    <2> DEFINE h == Top.on
    <2>1. h \in Handles /\ task[h].state = "DONE"
      BY <1>4, TopFrame DEF AwaitReturn, Executing, Frame
    <2>2. task'[h] = FreeTask /\ \A g \in Handles \ {h} : task'[g] = task[g]
      BY <1>4, <2>1 DEF AwaitReturn, TypeOK
    <2>3. task'[h].state = "FREE" /\ task'[h].result = "none"
      BY <2>2 DEF FreeTask
    <2>4. Tasks!Collect(h)
      BY <2>1, <2>2, <2>3, OneTask, StatusValues DEF Tasks!Collect, Tasks!NoValue
    <2> QED BY <2>1, <2>4 DEF Tasks!AbsNext
  <1>5. CASE RunReady
    <2> DEFINE h == Head(ready)
    <2>1. h \in Handles /\ task[h].state = "READY"
      BY <1>5, PopElems DEF RunReady, ReadyExact, TypeOK
    <2>2. task[h] \in Task
      BY <2>1 DEF TypeOK
    <2>3. /\ task'[h] = [task[h] EXCEPT !.state = "RUNNING"]
          /\ \A g \in Handles \ {h} : task'[g] = task[g]
      BY <1>5, <2>1 DEF RunReady, TypeOK
    <2>4. task'[h].state = "RUNNING" /\ task'[h].result = task[h].result
      BY <2>2, <2>3 DEF Task
    <2>5. \A g \in Handles : /\ StatusOf(task'[g]) = StatusOf(task[g])
                             /\ task'[g].result = task[g].result
      <3>1. StatusOf(task'[h]) = "pending" /\ StatusOf(task[h]) = "pending"
        BY <2>1, <2>4, StatusValues
      <3> QED BY <3>1, <2>3, <2>4
    <2> QED BY <2>5, SameTasks
  <1>6. CASE Scan
    <2>1. PICK ans \in [Asking -> Answers] : ScanWith(ans)
      BY <1>6 DEF Scan
    <2>2. \A h \in Handles :
            \/ task'[h].state = task[h].state /\ task'[h].result = task[h].result
            \/ task[h].state = "WAITING" /\ task'[h].state = "DONE" /\ task'[h].result \in Results
      BY <2>1, ScanTasks
    <2>3. CASE \A h \in Handles : task'[h].state = task[h].state
      <3>1. \A g \in Handles : /\ StatusOf(task'[g]) = StatusOf(task[g])
                               /\ task'[g].result = task[g].result
        BY <2>2, <2>3 DEF StatusOf
      <3> QED BY <3>1, SameTasks
    <2>4. CASE \E h \in Handles : task'[h].state # task[h].state
      <3>1. PICK h \in Handles : task'[h].state # task[h].state
        BY <2>4
      <3>2. task[h].state = "WAITING" /\ task'[h].state = "DONE" /\ task'[h].result \in Results
        BY <2>2, <3>1
      <3>3. \A g \in Handles \ {h} :
              task'[g].state = task[g].state /\ task'[g].result = task[g].result
        BY <2>1, <2>2, <3>2, ScanCompletesOne
      <3> QED BY <3>2, <3>3, FinishAbs
    <2> QED BY <2>3, <2>4
  <1>7. CASE Tick
    <2>1. \A g \in Handles : /\ StatusOf(task'[g]) = StatusOf(task[g])
                             /\ task'[g].result = task[g].result
      BY <1>7, TickTasks DEF StatusOf
    <2> QED BY <2>1, SameTasks
  <1> QED
    BY <1>1, <1>2, <1>3, <1>4, <1>5, <1>6, <1>7
    DEF Next, AwaitBegin, AwaitUnknown, AwaitFreed, Refused, vars

(* Whatever the program does with its handles, each one it gets finishes   *)
(* once, with one result that stays, and is collected once.                *)
THEOREM ImplementsTasks == Spec => TasksSpec
  <1>1. Init => Tasks!AbsInit
    <2> SUFFICES ASSUME Init PROVE Tasks!AbsInit
      OBVIOUS
    <2>1. \A h \in Handles : task[h] = FreeTask
      BY DEF Init
    <2>2. StatusOf(FreeTask) = "none" /\ FreeTask.result = "none"
      BY DEF StatusOf, FreeTask
    <2> QED BY <2>1, <2>2 DEF Tasks!AbsInit, Tasks!NoValue, statusMap, valueMap
  <1>2. IInv /\ [Next]_vars => [Tasks!AbsNext]_<<statusMap, valueMap>>
    BY StepAbs
  <1>3. Tasks!AbsSpec <=> Tasks!AbsInit /\ [][Tasks!AbsNext]_<<statusMap, valueMap>>
    BY DEF Tasks!AbsSpec, Tasks!absVars
  <1> QED BY <1>1, <1>2, <1>3, Invariance, PTL DEF Spec, TasksSpec
=============================================================================
