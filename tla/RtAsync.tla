------------------------------- MODULE RtAsync -------------------------------
(***************************************************************************)
(* The cooperative async scheduler of the runtime (src/rt/os.c).           *)
(*                                                                         *)
(* Everything runs on one thread.  A task is a heap record linked into the *)
(* list g_async_all; a CALL task is also queued on the ready list.  There  *)
(* is no event loop: rt_async_await_blocking calls the scheduler until its *)
(* task is done, and the scheduler runs a ready CALL task by calling its   *)
(* function, which may itself await.  The awaits in progress are therefore *)
(* frames of one C stack, modelled by the variable stack.                  *)
(*                                                                         *)
(* Time is kept relative: left is what remains until deadline_ms.          *)
(***************************************************************************)
EXTENDS Integers, Sequences

CONSTANTS
  Handles,    \* addresses calloc may return for a task record
  Main,       \* the frame of the program itself
  None,       \* no handle
  MaxDelay,   \* bound: longest timer or timeout, in ticks
  MaxLen,     \* bound: longest transfer, in chunks
  MaxOps,     \* bound: operations the function of one CALL task performs
  Programs    \* the programs that may run: [room: the addresses it gets,
              \*   kinds: the task kinds it creates,
              \*   fds: the descriptors it passes, "open" and "neg" (fd < 0),
              \*   share: does it pass the handles it holds to the tasks it spawns?
              \*   reawait: may it await a handle that is, or was, awaited elsewhere?]

FdKinds == {"ACCEPT", "CONNECT", "RECV", "READ_SOCKET"}
SendKinds == {"SEND", "WRITE_ALL"}
AllKinds == {"CALL", "TIMER", "WAIT_FD", "READ_UNTIL"} \cup FdKinds \cup SendKinds

ASSUME HandlesAssumption == Main \notin Handles /\ None \notin Handles /\ Main # None
ASSUME BoundsAssumption == MaxDelay \in Nat /\ MaxLen \in Nat \ {0} /\ MaxOps \in Nat
ASSUME ProgramAssumption ==
  Programs \subseteq [room : SUBSET Handles, kinds : SUBSET AllKinds,
                     fds : SUBSET {"open", "neg"}, share : BOOLEAN, reawait : BOOLEAN]

VARIABLES
  task,    \* the record of each address
  all,     \* g_async_all, newest first
  ready,   \* g_async_ready_head .. g_async_ready_tail
  stack,   \* frames of the C stack, the running one last
  pass,    \* which of the two scans of rt_async_scheduler_step comes next
  knows,   \* handles the program holds in each frame
  prog     \* the program that runs

vars == <<task, all, ready, stack, pass, knows, prog>>

NoDeadline == -1
Results == {"ok", "short", "err"}
States == {"FREE", "READY", "RUNNING", "WAITING", "DONE"}

Task == [state : States, kind : AllKinds, result : Results \cup {"none"},
         left : {NoDeadline} \cup 0..MaxDelay, fd : {"open", "neg"},
         off : 0..MaxLen, len : 0..MaxLen, needle : 0..1, started : BOOLEAN]

Frame == [who : Handles \cup {Main}, on : Handles \cup {None}, fuel : 0..MaxOps]

FreeTask == [state |-> "FREE", kind |-> "TIMER", result |-> "none",
             left |-> NoDeadline, fd |-> "open", off |-> 0, len |-> 0,
             needle |-> 0, started |-> FALSE]

-----------------------------------------------------------------------------
(* Lists *)

Elems(s) == {s[i] : i \in DOMAIN s}

Top == stack[Len(stack)]
WithTop(f) == [stack EXCEPT ![Len(stack)] = f]

(* Fault: only the head of the list is ever unlinked *)
UnlinkHeadOnly(s, h) == IF s # <<>> /\ s[1] = h THEN Tail(s) ELSE s

(* rt_async_all_remove: unlink h from the list *)
Unlink(s, h) ==
  IF h \in Elems(s)
  THEN LET k == CHOOSE i \in DOMAIN s : s[i] = h
       IN  [i \in 1..(Len(s) - 1) |-> IF i < k THEN s[i] ELSE s[i + 1]]
  ELSE s

Live(h) == task[h].state # "FREE"
Pending(t) == t.state \in {"READY", "WAITING"}
(* rt_async_complete.  The deadline of a finished task is not read again. *)
Complete(t, r) == [t EXCEPT !.state = "DONE", !.result = r, !.left = NoDeadline]

-----------------------------------------------------------------------------
(* rt_async_progress_task, one kind at a time.  p is what the kernel says  *)
(* of the descriptor: it is refused ("bad", rt_async_fd_ready < 0); it is  *)
(* not ready, or the call would block after all ("idle"); it is ready with *)
(* all or part of the bytes asked for, or with a failure (an error or the  *)
(* end of the stream).                                                     *)

Answers == {"idle", "all", "part", "fail"}
FdReady(t, a) == IF t.fd = "neg" THEN "bad" ELSE a

Timer(t, block) == IF t.left <= 0 \/ block THEN Complete(t, "ok") ELSE t

WaitFd(t, p) ==
  CASE p = "idle" -> t
    [] p = "bad"  -> Complete(t, "err")
    [] p \in {"all", "part", "fail"} -> Complete(t, "ok")

Accept(t, p) ==
  CASE p \in {"bad", "idle"} -> t
    [] p = "fail" -> Complete(t, "err")
    [] p \in {"all", "part"} -> Complete(t, "ok")

(* connect() at the first call: done at once, refused, or in progress *)
ConnectStart(t, p) ==
  LET u == [t EXCEPT !.started = TRUE]
  IN  CASE p \in {"bad", "fail"} -> Complete(u, "err")
        [] p = "all" -> Complete(u, "ok")
        [] p \in {"idle", "part"} -> u

ConnectPoll(t, p) ==
  CASE p \in {"bad", "idle"} -> t
    [] p = "fail" -> Complete(t, "err")
    [] p \in {"all", "part"} -> Complete(t, "ok")

Connect(t, p) == IF t.started THEN ConnectPoll(t, p) ELSE ConnectStart(t, p)

Recv(t, p) ==
  CASE p \in {"bad", "fail"} -> Complete(t, "err")
    [] p = "idle" -> t
    [] p \in {"all", "part"} -> Complete(t, "ok")

(* Fault: the offset runs one past what send() took *)
SentOneMore(t, r) ==
  LET u == [t EXCEPT !.off = t.off + r + 1]
  IN  IF u.off >= t.len \/ t.kind = "SEND" THEN Complete(u, "ok") ELSE u

(* SEND finishes with what one send() took, WRITE_ALL when all is sent *)
Sent(t, r) ==
  LET u == [t EXCEPT !.off = t.off + r]
  IN  CASE u.off >= t.len -> Complete(u, "ok")
        [] u.off < t.len /\ t.kind = "SEND" -> Complete(u, "short")
        [] u.off < t.len /\ t.kind # "SEND" -> u

(* Fault: a failure is an error however much was sent before it *)
SendBytesError(t, p) ==
  CASE p \in {"bad", "fail"} -> Complete(t, "err")
    [] p = "idle" -> t
    [] p \in {"all", "part"} /\ t.off >= t.len -> Complete(t, "ok")
    [] p = "part" /\ t.off < t.len -> Sent(t, 1)
    [] p = "all" /\ t.off < t.len -> Sent(t, t.len - t.off)

SendBytes(t, p) ==
  CASE p = "bad" -> Complete(t, "err")
    [] p = "idle" -> t
    [] p \notin {"bad", "idle"} /\ t.off >= t.len -> Complete(t, "ok")
    [] p = "fail" /\ t.off < t.len -> Complete(t, IF t.off > 0 THEN "short" ELSE "err")
    [] p = "part" /\ t.off < t.len -> Sent(t, 1)
    [] p = "all" /\ t.off < t.len -> Sent(t, t.len - t.off)

ReadSocket(t, p) ==
  IF p \in {"bad", "idle"} THEN t ELSE Complete(t, "ok")

(* "all" brings bytes that complete the needle, "part" bytes that do not *)
Received(t, found) ==
  LET u == [t EXCEPT !.off = t.off + 1]
  IN  IF found \/ u.off >= t.len THEN Complete(u, "ok") ELSE u

ReadUntil(t, p) ==
  IF t.needle = 0 \/ t.off >= t.len
  THEN Complete(t, "ok")
  ELSE CASE p \in {"bad", "idle"} -> t
         [] p = "fail" -> Complete(t, "ok")
         [] p \in {"all", "part"} -> Received(t, p = "all")

(* A CALL task is left alone: it is started from the ready list, and is    *)
(* never met, still pending, by a scan of g_async_all (see ReadyExact).    *)
Attempt(t, p, block) ==
  CASE t.kind = "CALL" -> t
    [] t.kind = "TIMER" -> Timer(t, block)
    [] t.kind = "WAIT_FD" -> WaitFd(t, p)
    [] t.kind = "ACCEPT" -> Accept(t, p)
    [] t.kind = "CONNECT" -> Connect(t, p)
    [] t.kind = "RECV" -> Recv(t, p)
    [] t.kind \in SendKinds -> SendBytes(t, p)
    [] t.kind = "READ_SOCKET" -> ReadSocket(t, p)
    [] t.kind = "READ_UNTIL" -> ReadUntil(t, p)

Expired(t) == t.left = 0 /\ t.kind # "TIMER"

Progress(t, a, block) ==
  IF Expired(t) THEN Complete(t, "err") ELSE Attempt(t, FdReady(t, a), block)

(* d ticks go by *)
Elapse(t, d) ==
  IF t.left = NoDeadline THEN t
  ELSE [t EXCEPT !.left = IF t.left > d THEN t.left - d ELSE 0]

-----------------------------------------------------------------------------
(* What the running function does: it creates tasks and awaits them *)

Init ==
  /\ task = [h \in Handles |-> FreeTask]
  /\ all = <<>>
  /\ ready = <<>>
  /\ stack = <<[who |-> Main, on |-> None, fuel |-> 0]>>
  /\ pass = "poll"
  /\ knows = [f \in Handles \cup {Main} |-> {}]
  /\ prog \in Programs

(* The function of the top frame is executing.  The functions of CALL      *)
(* tasks perform at most MaxOps operations; the program itself any number. *)
Executing == Top.on = None
MayAct == Executing /\ (Top.who = Main \/ Top.fuel > 0)
Spend(f) == IF f.who = Main THEN f ELSE [f EXCEPT !.fuel = f.fuel - 1]

(* rt_async_task_alloc, then the constructor's own assignments *)
NewTask(h, t) ==
  /\ MayAct
  /\ ~Live(h) /\ h \in prog.room
  /\ t.kind \in prog.kinds
  /\ task' = [task EXCEPT ![h] = t]
  /\ all' = <<h>> \o all
  /\ stack' = WithTop(Spend(Top))
  /\ UNCHANGED <<pass, prog>>

Holding(h) == [knows EXCEPT ![Top.who] = @ \cup {h}]

(* A constructor returns 0: more than 15 arguments or none where some were *)
(* announced, or no memory for the record, the copied arguments or bytes.  *)
(* It leaves nothing behind, and awaiting 0 returns at once.               *)
Refused ==
  /\ MayAct
  /\ stack' = WithTop(Spend(Top))
  /\ UNCHANGED <<task, all, ready, pass, knows, prog>>

(* The handles among the arguments copied for a new task *)
Args == IF prog.share THEN knows[Top.who] ELSE {}

(* rt_async_task_new: the one constructor that queues its task.  Handles   *)
(* reach the new task through the arguments copied for it.                 *)
TaskNew(h) ==
  /\ NewTask(h, [FreeTask EXCEPT !.kind = "CALL", !.state = "READY"])
  /\ ready' = Append(ready, h)
  /\ knows' = [Holding(h) EXCEPT ![h] = Args]

(* The constructors whose task waits in g_async_all only *)
Waiting(h, t) ==
  /\ NewTask(h, [t EXCEPT !.state = "WAITING"])
  /\ knows' = Holding(h)
  /\ UNCHANGED ready

(* rt_async_value, and rt_async_read_socket_until when it has no memory *)
Value(h) ==
  /\ NewTask(h, Complete(FreeTask, "ok"))
  /\ knows' = Holding(h)
  /\ UNCHANGED ready

(* rt_async_sleep_ms; rt_async_yield is a sleep of 0 *)
SleepMs(h, ms) == Waiting(h, [FreeTask EXCEPT !.left = ms])

FdTask(k, fd) == [FreeTask EXCEPT !.kind = k, !.fd = fd]

WaitFdNew(h, fd, timeout) == Waiting(h, [FdTask("WAIT_FD", fd) EXCEPT !.left = timeout])

(* rt_async_recv, _accept, _connect and _read_socket *)
SocketNew(h, k, fd) == Waiting(h, FdTask(k, fd))

(* The bytes to send are copied; a copy that fails frees the task again,   *)
(* as in Refused.                                                          *)
SnapshotSend(t, n) == [t EXCEPT !.len = n]

(* rt_async_send, _write_socket_part and _write_socket_all *)
SendNew(h, k, fd, n) == Waiting(h, SnapshotSend(FdTask(k, fd), n))

ReadUntilNew(h, fd, needle, n) ==
  Waiting(h, [FdTask("READ_UNTIL", fd) EXCEPT !.needle = needle, !.len = n])

Create ==
  \E h \in Handles :
    \/ TaskNew(h)
    \/ Value(h)
    \/ \E ms \in 0..MaxDelay : SleepMs(h, ms)
    \/ \E fd \in prog.fds :
         \/ \E ms \in {NoDeadline} \cup 0..MaxDelay : WaitFdNew(h, fd, ms)
         \/ \E k \in FdKinds : SocketNew(h, k, fd)
         \/ \E k \in SendKinds, n \in 0..MaxLen : SendNew(h, k, fd, n)
         \/ \E needle \in 0..1, n \in 1..MaxLen : ReadUntilNew(h, fd, needle, n)

Awaited(h) == \E i \in DOMAIN stack : stack[i].on = h

(* rt_async_await_blocking, up to its loop *)
AwaitBegin(h) ==
  /\ MayAct
  /\ h \in knows[Top.who]
  /\ prog.reawait \/ ~Awaited(h)
  /\ h \in Elems(all)
  /\ stack' = WithTop([Spend(Top) EXCEPT !.on = h])
  /\ UNCHANGED <<task, all, ready, pass, knows, prog>>

(* rt_async_find_task does not find h: the await returns the handle itself *)
AwaitUnknown(h) ==
  /\ MayAct
  /\ h \in knows[Top.who]
  /\ h \notin Elems(all)
  /\ stack' = WithTop(Spend(Top))
  /\ UNCHANGED <<task, all, ready, pass, knows, prog>>

(* Faults: the return value is not recorded; the record is freed with the  *)
(* frame, before anyone awaited it                                         *)
ReturnForgotten ==
  /\ Executing
  /\ Top.who # Main
  /\ stack' = SubSeq(stack, 1, Len(stack) - 1)
  /\ knows' = [knows EXCEPT ![Top.who] = {}]
  /\ UNCHANGED <<task, all, ready, pass, prog>>

ReturnFrees ==
  /\ Executing
  /\ Top.who # Main
  /\ task' = [task EXCEPT ![Top.who] = FreeTask]
  /\ all' = Unlink(all, Top.who)
  /\ stack' = SubSeq(stack, 1, Len(stack) - 1)
  /\ knows' = [knows EXCEPT ![Top.who] = {}]
  /\ UNCHANGED <<ready, pass, prog>>

(* The function of a CALL task returns and its frame is gone *)
Return ==
  /\ Executing
  /\ Top.who # Main
  /\ task' = [task EXCEPT ![Top.who] = Complete(@, "ok")]
  /\ stack' = SubSeq(stack, 1, Len(stack) - 1)
  /\ knows' = [knows EXCEPT ![Top.who] = {}]
  /\ UNCHANGED <<all, ready, pass, prog>>

-----------------------------------------------------------------------------
(* The loop of rt_async_await_blocking, in the top frame *)

Looping == Top.on # None /\ task[Top.on].state # "DONE"

(* Fault: the await gives up on, and frees, a task that still waits *)
AwaitReturnEarly ==
  /\ ~Executing
  /\ task[Top.on].state \in {"DONE", "WAITING"}
  /\ all' = Unlink(all, Top.on)
  /\ task' = [task EXCEPT ![Top.on] = FreeTask]
  /\ stack' = WithTop([Top EXCEPT !.on = None])
  /\ knows' = [f \in DOMAIN knows |-> knows[f] \ {Top.on}]
  /\ UNCHANGED <<ready, pass, prog>>

(* The awaited task is done: take its result, unlink it and free it.  A    *)
(* program that never reuses an awaited handle forgets it here.            *)
AwaitReturn ==
  /\ ~Executing
  /\ task[Top.on].state = "DONE"
  /\ all' = Unlink(all, Top.on)
  /\ task' = [task EXCEPT ![Top.on] = FreeTask]
  /\ stack' = WithTop([Top EXCEPT !.on = None])
  /\ knows' = IF prog.reawait THEN knows ELSE [f \in DOMAIN knows |-> knows[f] \ {Top.on}]
  /\ UNCHANGED <<ready, pass, prog>>

(* The awaited record was freed by another await of the same handle: the   *)
(* loop reads freed memory.  It may see a final state there, and leave     *)
(* with whatever it finds as the result, or not, and keep on looping.      *)
AwaitFreed ==
  /\ ~Executing
  /\ ~Live(Top.on)
  /\ pass = "poll"
  /\ stack' = WithTop([Top EXCEPT !.on = None])
  /\ UNCHANGED <<task, all, ready, pass, knows, prog>>

(* Fault: the ready list is read without being popped *)
RunReadyPeek ==
  /\ Looping
  /\ pass = "poll"
  /\ ready # <<>>
  /\ task' = [task EXCEPT ![Head(ready)].state = "RUNNING"]
  /\ stack' = Append(stack, [who |-> Head(ready), on |-> None, fuel |-> MaxOps])
  /\ UNCHANGED <<all, ready, pass, knows, prog>>

(* rt_async_scheduler_step: a ready task is popped and its function called *)
RunReady ==
  /\ Looping
  /\ pass = "poll"
  /\ ready # <<>>
  /\ ready' = Tail(ready)
  /\ task' = [task EXCEPT ![Head(ready)].state = "RUNNING"]
  /\ stack' = Append(stack, [who |-> Head(ready), on |-> None, fuel |-> MaxOps])
  /\ UNCHANGED <<all, pass, knows, prog>>

(* The tasks whose progress depends on what the kernel says of their       *)
(* descriptor, and what one scan is told; block is the scan's argument.    *)
Asking == {h \in Handles : Pending(task[h]) /\ task[h].kind \notin {"CALL", "TIMER"}}
Told(ans, h) == IF h \in Asking THEN ans[h] ELSE "idle"
Block == pass = "block"

Progressed(ans, h) ==
  IF Pending(task[h]) THEN Progress(task[h], Told(ans, h), Block) ELSE task[h]

(* The positions of the tasks a scan would complete, and those it reaches: *)
(* it stops at the first task it completes.                                *)
Hits(ans) ==
  {i \in DOMAIN all : Pending(task[all[i]]) /\ Progressed(ans, all[i]).state = "DONE"}
Visited(ans) ==
  LET hits == Hits(ans)
  IN  {all[i] : i \in {j \in DOMAIN all : \A k \in hits : j <= k}}

(* A blocking scan sleeps out the whole delay of the first timer it meets *)
Sleepers(ans) == {h \in Visited(ans) : Block /\ Pending(task[h]) /\ task[h].kind = "TIMER"}
Slept(ans) ==
  LET delta == task[CHOOSE h \in Sleepers(ans) : TRUE].left
  IN  IF Sleepers(ans) # {} /\ delta > 0 THEN delta ELSE 0

ScanWith(ans) ==
  /\ Looping
  /\ ready = <<>>
  /\ LET visited == Visited(ans)
         slept == Slept(ans)
     IN  task' = [h \in Handles |->
                    Elapse(IF h \in visited THEN Progressed(ans, h) ELSE task[h], slept)]
  /\ pass' = IF Hits(ans) = {} /\ ~Block THEN "block" ELSE "poll"
  /\ UNCHANGED <<all, ready, stack, knows, prog>>

Scan == \E ans \in [Asking -> Answers] : ScanWith(ans)

(* Time goes by: in the function that runs, in poll() or in nanosleep() *)
Tick ==
  /\ \E h \in Handles : task[h].left > 0
  /\ task' = [h \in Handles |-> Elapse(task[h], 1)]
  /\ UNCHANGED <<all, ready, stack, pass, knows, prog>>

Next ==
  \/ Create \/ Refused
  \/ \E h \in Handles : AwaitBegin(h) \/ AwaitUnknown(h)
  \/ Return \/ AwaitReturn \/ AwaitFreed
  \/ RunReady \/ Scan \/ Tick

Spec == Init /\ [][Next]_vars

(* Scans in which the kernel has no answer, or one for h alone.  Fairness  *)
(* of these two makes the same demands on an await that never ends as      *)
(* fairness of every combination of answers, and is cheap to check.        *)
QuietScan == ScanWith([g \in Asking |-> "idle"])
Answered(h) ==
  /\ h \in Asking
  /\ \E a \in {"all", "fail"} : ScanWith([g \in Asking |-> IF g = h THEN a ELSE "idle"])

(* The loop of an await keeps calling the scheduler, functions of CALL     *)
(* tasks end, time goes by, and what is asked of an open descriptor again  *)
(* and again is answered one day.                                          *)
Fairness ==
  /\ WF_vars(Return) /\ WF_vars(AwaitReturn)
  /\ WF_vars(RunReady) /\ WF_vars(QuietScan) /\ WF_vars(Tick)
  /\ \A h \in Handles : SF_vars(Answered(h))

FairSpec == Spec /\ Fairness

-----------------------------------------------------------------------------
(* Properties *)

Injective(s) == \A i, j \in DOMAIN s : s[i] = s[j] => i = j

(* Every variable keeps its type. *)
TypeOK ==
  /\ task \in [Handles -> Task]
  /\ all \in Seq(Handles)
  /\ ready \in Seq(Handles)
  /\ stack \in Seq(Frame) /\ stack # <<>>
  /\ pass \in {"poll", "block"}
  /\ knows \in [Handles \cup {Main} -> SUBSET Handles]
  /\ prog \in Programs

(* g_async_all links exactly the tasks that are not freed, each once, so   *)
(* neither rt_async_find_task nor a scan ever follows a freed record.      *)
AllExact ==
  /\ Injective(all)
  /\ Elems(all) = {h \in Handles : Live(h)}

(* The ready list holds exactly the READY tasks, each once, and they are   *)
(* CALL tasks: a function is called once, and a scan of g_async_all, which *)
(* happens with an empty ready list, never calls one.                      *)
ReadyExact ==
  /\ Injective(ready)
  /\ Elems(ready) = {h \in Handles : task[h].state = "READY"}
  /\ \A h \in Handles : task[h].state \in {"READY", "RUNNING"} => task[h].kind = "CALL"
  /\ \A h \in Handles : task[h].state = "WAITING" => task[h].kind # "CALL"

(* The RUNNING tasks are the frames above the program's own, each once,    *)
(* and all frames but the top one are inside an await: the record a        *)
(* function's return writes to is still there.                             *)
StackExact ==
  /\ stack[1].who = Main
  /\ \A i, j \in DOMAIN stack : stack[i].who = stack[j].who => i = j
  /\ \A h \in Handles : task[h].state = "RUNNING" <=> \E i \in DOMAIN stack : stack[i].who = h
  /\ \A i \in DOMAIN stack : i < Len(stack) => stack[i].on # None

(* However calls nest, the three lists the scheduler is built on tell the  *)
(* truth about every task at once.                                         *)
ListsExact == AllExact /\ ReadyExact /\ StackExact

AwaitsLive == \A i \in DOMAIN stack : stack[i].on # None => Live(stack[i].on)

(* The task an await in progress loops on is never freed under it, in a    *)
(* program that awaits a handle once.                                      *)
NoDanglingAwait == ~prog.reawait => AwaitsLive

(* The result of SEND and WRITE_ALL tells how far the transfer came: all   *)
(* bytes, a count short of them after a failure part of the way, or an     *)
(* error when none went out.                                               *)
CountTrue ==
  \A h \in Handles : task[h].kind \in SendKinds /\ task[h].state = "DONE" =>
    /\ task[h].result = "ok" => task[h].off = task[h].len
    /\ task[h].result = "short" => task[h].off \in 1..(task[h].len - 1)
    /\ task[h].result = "err" => task[h].off = 0

(* Some frame awaits a task whose function runs in that frame or below it: *)
(* the function cannot return before the await does.                       *)
Buried == \E i, j \in DOMAIN stack : i <= j /\ stack[j].on = stack[i].who

(* rt_async_await_blocking runs the scheduler until the handle completes:  *)
(* an await of the program returns.  Where handles are passed on to other  *)
(* functions a buried await is the only thing it can hang on.              *)
AwaitReturns == (stack[1].on # None) ~> (stack[1].on = None \/ (prog.share /\ Buried))

(* How AsyncTasks sees a task record *)
StatusOf(t) ==
  CASE t.state = "FREE" -> "none"
    [] t.state \in {"READY", "RUNNING", "WAITING"} -> "pending"
    [] t.state = "DONE" -> "done"

statusMap == [h \in Handles |-> StatusOf(task[h])]
valueMap == [h \in Handles |-> task[h].result]

Tasks == INSTANCE AsyncTasks WITH status <- statusMap, value <- valueMap

(* Task handles behave as AsyncTasks says: the calls of rt_async_complete, *)
(* a function's return and the await that frees a task finish each handle  *)
(* once and collect it once.                                               *)
TasksSpec == Tasks!AbsSpec
=============================================================================
