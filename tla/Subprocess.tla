----------------------------- MODULE Subprocess -----------------------------
(***************************************************************************)
(* Child processes of lib/os/process.ny, io.ny and subprocess.ny: popen    *)
(* makes two pipes and forks, send and recv_all move bytes, shutdown_send  *)
(* and close give the ends up, run_capture is the five of them in a row.   *)
(* A pipe is a count of bytes and the processes that hold its two ends; it *)
(* ends for a reader when nobody holds the writing end.                    *)
(***************************************************************************)
EXTENDS Integers, FiniteSets

CONSTANTS
  Child,    \* the children that may be started, each once
  PipeCap,  \* bytes a pipe holds
  Input,    \* bound: the bytes run_capture is given for its child
  MaxSent,  \* bound: the bytes a free program sends to a child
  Start     \* how programs start: "free", or with "spawn" as run_capture does

ASSUME SubprocessAssumption ==
  /\ PipeCap \in Nat \ {0} /\ Input \in Nat /\ MaxSent \in Nat
  /\ "me" \notin Child /\ Start \subseteq {"free", "spawn"}

VARIABLES
  pipe,   \* <<child, "in" or "out">> -> [buf, rd, wr]
  obj,    \* child -> which descriptors its process object still has
  child,  \* child -> [st, ran: execve succeeded, held: read and not yet written, wrote,
          \*           good: it exited with 0]
  op,     \* the call the program is in: [at, of, left]
  sent,   \* child -> bytes written to its input
  got,    \* child -> bytes received from it
  cut,    \* the children of which a read failed
  stage,  \* "free", or the call of run_capture that is next
  ignores \* SIGPIPE is ignored: in the ny command, not in a compiled executable

vars == <<pipe, obj, child, op, sent, got, cut, stage, ignores>>

Proc == Child \cup {"me"}
In(c) == <<c, "in">>
Out(c) == <<c, "out">>
NoPipe == [buf |-> 0, rd |-> {}, wr |-> {}]
Idle == [at |-> "idle", of |-> "none", left |-> 0]

(* The program makes the calls as it likes, or is in run_capture. *)
Init ==
  /\ pipe = [p \in Child \X {"in", "out"} |-> NoPipe]
  /\ obj = [c \in Child |-> {}]
  /\ child = [c \in Child |-> [st |-> "none", ran |-> FALSE, held |-> 0, wrote |-> 0, good |-> FALSE]]
  /\ op = Idle
  /\ sent = [c \in Child |-> 0] /\ got = [c \in Child |-> 0]
  /\ cut = {}
  /\ stage \in Start /\ ignores \in BOOLEAN

(* A call may begin: any in a free program, the next one in run_capture. *)
May(name) == op = Idle /\ stage \in {"free", name}

(* A call ends, and run_capture goes on with the next. *)
Ends(next) == op' = Idle /\ stage' = IF stage = "free" THEN "free" ELSE next

(* Process q gives the ends up: r of the readers, w of the writers. *)
Dropped(q, r, w) ==
  [p \in DOMAIN pipe |->
    [pipe[p] EXCEPT !.rd = IF p \in r THEN @ \ {q} ELSE @,
                    !.wr = IF p \in w THEN @ \ {q} ELSE @]]

-----------------------------------------------------------------------------
(* popen *)

OpenIn(c) ==
  /\ May("spawn") /\ child[c].st = "none"
  /\ \/ /\ pipe' = [pipe EXCEPT ![In(c)] = [buf |-> 0, rd |-> {"me"}, wr |-> {"me"}]]
        /\ op' = [at |-> "opened", of |-> c, left |-> 0]
        /\ UNCHANGED stage
     \/ Ends("failed") /\ UNCHANGED pipe
  /\ UNCHANGED <<obj, child, sent, got, cut, ignores>>

OpenOut(c) ==
  /\ op.at = "opened" /\ op.of = c
  /\ \/ /\ pipe' = [pipe EXCEPT ![Out(c)] = [buf |-> 0, rd |-> {"me"}, wr |-> {"me"}]]
        /\ op' = [op EXCEPT !.at = "fork"]
        /\ UNCHANGED stage
     \/ /\ pipe' = Dropped("me", {In(c)}, {In(c)})
        /\ Ends("failed")
  /\ UNCHANGED <<obj, child, sent, got, cut, ignores>>

(* Fault: a failed fork closes the first pipe only *)
ForkLeaks(c) ==
  /\ op.at = "fork" /\ op.of = c
  /\ pipe' = Dropped("me", {In(c)}, {In(c)})
  /\ Ends("failed")
  /\ UNCHANGED <<child, obj, sent, got, cut, ignores>>

(* fork: the child holds every end the program holds *)
Fork(c) ==
  /\ op.at = "fork" /\ op.of = c
  /\ \/ /\ pipe' = [p \in DOMAIN pipe |->
                     [pipe[p] EXCEPT !.rd = IF "me" \in @ THEN @ \cup {c} ELSE @,
                                     !.wr = IF "me" \in @ THEN @ \cup {c} ELSE @]]
        /\ child' = [child EXCEPT ![c].st = "forked"]
        /\ op' = [op EXCEPT !.at = "forked"]
        /\ UNCHANGED stage
     \/ /\ pipe' = Dropped("me", {In(c), Out(c)}, {In(c), Out(c)})
        /\ Ends("failed")
        /\ UNCHANGED child
  /\ UNCHANGED <<obj, sent, got, cut, ignores>>

ParentCloses(c) ==
  /\ op.at = "forked" /\ op.of = c
  /\ pipe' = Dropped("me", {In(c)}, {Out(c)})
  /\ obj' = [obj EXCEPT ![c] = {"in", "out"}]
  /\ Ends("send")
  /\ UNCHANGED <<child, sent, got, cut, ignores>>

Gone(c) == Dropped(c, DOMAIN pipe, DOMAIN pipe)

(* Fault: the child keeps the writing end of its own input *)
ChildSetupKeeps(c) ==
  /\ child[c].st = "forked"
  /\ pipe' = Dropped(c, {Out(c)}, {})
  /\ child' = [child EXCEPT ![c].st = "running", ![c].ran = TRUE]
  /\ UNCHANGED <<obj, op, sent, got, stage, cut, ignores>>

(* The child's half of popen: its input and output in place, the other     *)
(* ends of its own pipes closed; or execve fails and it exits.             *)
ChildSetup(c) ==
  /\ child[c].st = "forked"
  /\ \/ pipe' = Dropped(c, {Out(c)}, {In(c)}) /\ child' = [child EXCEPT ![c].st = "running", ![c].ran = TRUE]
     \/ pipe' = Gone(c) /\ child' = [child EXCEPT ![c].st = "exited"]
  /\ UNCHANGED <<obj, op, sent, got, stage, cut, ignores>>

-----------------------------------------------------------------------------
(* io.ny *)

Send(c) ==
  /\ May("send") /\ "in" \in obj[c]
  /\ \/ Ends("shutdown")
     \/ \E n \in 1..((IF stage = "free" THEN MaxSent ELSE Input) - sent[c]) : op' = [at |-> "send", of |-> c, left |-> n] /\ UNCHANGED stage
  /\ UNCHANGED <<pipe, obj, child, sent, got, cut, ignores>>

(* A write blocks while the pipe is full, and fails without a reader. *)
SendStep(c) ==
  /\ op.at = "send" /\ op.of = c
  /\ \/ /\ pipe[In(c)].rd = {} /\ ignores
        /\ Ends("shutdown") /\ UNCHANGED <<pipe, sent>>
     \/ /\ pipe[In(c)].rd # {}
        /\ \E k \in 1..op.left :
             /\ pipe[In(c)].buf + k <= PipeCap
             /\ pipe' = [pipe EXCEPT ![In(c)].buf = @ + k]
             /\ sent' = [sent EXCEPT ![c] = @ + k]
             /\ IF k = op.left THEN Ends("shutdown") ELSE op' = [op EXCEPT !.left = @ - k] /\ UNCHANGED stage
  /\ UNCHANGED <<obj, child, got, cut, ignores>>

(* Or it ends the program. *)
SigPipe(c) ==
  /\ op.at = "send" /\ op.of = c
  /\ pipe[In(c)].rd = {} /\ ~ignores
  /\ pipe' = Gone("me")
  /\ op' = [op EXCEPT !.at = "killed"]
  /\ UNCHANGED <<obj, child, sent, got, cut, stage, ignores>>

(* The write fails for another reason. *)
SendFails(c) ==
  /\ op.at = "send" /\ op.of = c
  /\ Ends("shutdown")
  /\ UNCHANGED <<pipe, obj, child, sent, got, cut, ignores>>

ShutdownSend(c) ==
  /\ May("shutdown") /\ child[c].st # "none" /\ obj[c] # {}
  /\ pipe' = IF "in" \in obj[c] THEN Dropped("me", {}, {In(c)}) ELSE pipe
  /\ obj' = [obj EXCEPT ![c] = @ \ {"in"}]
  /\ Ends("recv")
  /\ UNCHANGED <<child, sent, got, cut, ignores>>

RecvAll(c) ==
  /\ May("recv") /\ "out" \in obj[c]
  /\ op' = [at |-> "recv", of |-> c, left |-> 0]
  /\ UNCHANGED <<pipe, obj, child, sent, got, stage, cut, ignores>>

(* Fault: nothing there is taken for the end *)
RecvStepEmpty(c) ==
  /\ op.at = "recv" /\ op.of = c
  /\ \/ \E k \in 1..pipe[Out(c)].buf :
          /\ pipe' = [pipe EXCEPT ![Out(c)].buf = @ - k]
          /\ got' = [got EXCEPT ![c] = @ + k]
          /\ UNCHANGED <<op, stage>>
     \/ pipe[Out(c)].buf = 0 /\ Ends("close") /\ UNCHANGED <<pipe, got>>
  /\ UNCHANGED <<obj, child, sent, cut, ignores>>

(* A read takes what is there, blocks while nothing is, and ends with the  *)
(* last writer.                                                            *)
RecvStep(c) ==
  /\ op.at = "recv" /\ op.of = c
  /\ \/ \E k \in 1..pipe[Out(c)].buf :
          /\ pipe' = [pipe EXCEPT ![Out(c)].buf = @ - k]
          /\ got' = [got EXCEPT ![c] = @ + k]
          /\ UNCHANGED <<op, stage>>
     \/ pipe[Out(c)].buf = 0 /\ pipe[Out(c)].wr = {} /\ Ends("close") /\ UNCHANGED <<pipe, got>>
  /\ UNCHANGED <<obj, child, sent, cut, ignores>>

(* recv has no memory for its buffer or its read fails: it returns "",     *)
(* which recv_all takes for the end.                                       *)
RecvFails(c) ==
  /\ op.at = "recv" /\ op.of = c
  /\ cut' = cut \cup {c}
  /\ Ends("close")
  /\ UNCHANGED <<pipe, obj, child, sent, got, ignores>>

Close(c) ==
  /\ May("close") /\ child[c].st \notin {"none", "reaped"}
  /\ pipe' = Dropped("me", IF "out" \in obj[c] THEN {Out(c)} ELSE {}, IF "in" \in obj[c] THEN {In(c)} ELSE {})
  /\ obj' = [obj EXCEPT ![c] = {}]
  /\ op' = [at |-> "wait", of |-> c, left |-> 0]
  /\ UNCHANGED <<child, sent, got, stage, cut, ignores>>

(* waitpid *)
WaitStep(c) ==
  /\ op.at = "wait" /\ op.of = c
  /\ child[c].st = "exited"
  /\ child' = [child EXCEPT ![c].st = "reaped"]
  /\ Ends("done")
  /\ UNCHANGED <<pipe, obj, sent, got, cut, ignores>>

(* waitpid has no memory for the status or wait4 fails: close returns an   *)
(* error and run_capture the code 1.                                       *)
WaitFails(c) ==
  /\ op.at = "wait" /\ op.of = c
  /\ Ends("done")
  /\ UNCHANGED <<pipe, obj, child, sent, got, cut, ignores>>

-----------------------------------------------------------------------------
(* The child's program, such as cat: it copies its input to its output and *)
(* exits at the end of the input, or when nobody reads its output.         *)

ChildRead(c) ==
  /\ child[c].st = "running" /\ child[c].held = 0
  /\ \E k \in 1..pipe[In(c)].buf :
       /\ pipe' = [pipe EXCEPT ![In(c)].buf = @ - k]
       /\ child' = [child EXCEPT ![c].held = k]
  /\ UNCHANGED <<obj, op, sent, got, stage, cut, ignores>>

ChildWrite(c) ==
  /\ child[c].st = "running" /\ pipe[Out(c)].rd # {}
  /\ \E k \in 1..child[c].held :
       /\ pipe[Out(c)].buf + k <= PipeCap
       /\ pipe' = [pipe EXCEPT ![Out(c)].buf = @ + k]
       /\ child' = [child EXCEPT ![c].held = @ - k, ![c].wrote = @ + k]
  /\ UNCHANGED <<obj, op, sent, got, stage, cut, ignores>>

ChildExit(c) ==
  /\ child[c].st = "running"
  /\ \/ /\ child[c].held = 0 /\ pipe[In(c)].buf = 0 /\ pipe[In(c)].wr = {}
        /\ child' = [child EXCEPT ![c].st = "exited", ![c].good = TRUE]
     \/ /\ child[c].held > 0 /\ pipe[Out(c)].rd = {}
        /\ child' = [child EXCEPT ![c].st = "exited"]
  /\ pipe' = Gone(c)
  /\ UNCHANGED <<obj, op, sent, got, stage, cut, ignores>>

-----------------------------------------------------------------------------
ChildNext(c) == ChildSetup(c) \/ ChildRead(c) \/ ChildWrite(c) \/ ChildExit(c)

(* A call that was begun goes on. *)
CallStep(c) ==
  OpenOut(c) \/ Fork(c) \/ ParentCloses(c) \/ SendStep(c) \/ SigPipe(c) \/ RecvStep(c) \/ WaitStep(c)

(* It may fail instead. *)
CallFails(c) == SendFails(c) \/ RecvFails(c) \/ WaitFails(c)

Call(c) ==
  OpenIn(c) \/ Send(c) \/ ShutdownSend(c) \/ RecvAll(c) \/ Close(c)

Next == \E c \in Child : ChildNext(c) \/ CallStep(c) \/ CallFails(c) \/ Call(c)

(* The processes are scheduled and a call that was begun is carried on; a  *)
(* free program need not make another one, run_capture does.  No failure   *)
(* is counted on.                                                          *)
Fairness ==
  \A c \in Child : /\ WF_vars(ChildNext(c))
                   /\ WF_vars(CallStep(c))
                   /\ WF_vars(stage # "free" /\ Call(c))

Spec == Init /\ [][Next]_vars /\ Fairness

-----------------------------------------------------------------------------
(* Properties *)

(* Between two calls the program holds exactly the descriptors its process *)
(* objects name: a pipe or a fork that fails leaves none open, and none is *)
(* closed that is still in use.                                            *)
FdsExact ==
  op.at \in {"idle", "wait"} => \A c \in Child :
    /\ "me" \in pipe[In(c)].wr <=> "in" \in obj[c]
    /\ "me" \in pipe[Out(c)].rd <=> "out" \in obj[c]
    /\ "me" \notin pipe[In(c)].rd /\ "me" \notin pipe[Out(c)].wr

(* run_capture returns everything the child wrote, and a copying child     *)
(* that ran got everything that was sent, unless a read failed: whatever   *)
(* else failed, the answer is not cut short.                               *)
CapturedWhole ==
  stage = "done" => \A c \in Child \ cut :
    /\ got[c] = child[c].wrote
    /\ child[c].ran => child[c].wrote = sent[c]

(* The program cannot write before the child reads, and the child not read *)
(* before it has written what the program does not read yet.               *)
Jammed(c) ==
  /\ op.at = "send" /\ op.of = c /\ pipe[In(c)].buf = PipeCap
  /\ child[c].st = "running" /\ child[c].held > 0 /\ pipe[Out(c)].buf = PipeCap

(* run_capture returns, whichever of its calls fail.  Two things can stop  *)
(* it: input for which pipes and child have no room, and, in a compiled    *)
(* executable, SIGPIPE.                                                    *)
CaptureReturns ==
  stage = "spawn" ~> \/ stage \in {"done", "failed"}
                     \/ \E c \in Child : Jammed(c)
                     \/ op.at = "killed" /\ ~ignores

(* No other child has inherited an end of the pipes of c *)
Alone(c) ==
  \A p \in {In(c), Out(c)} : (pipe[p].rd \cup pipe[p].wr) \cap Child \subseteq {c}

(* close returns, whatever calls came before it and whatever is still in   *)
(* the pipes, unless a child forked later has inherited them.              *)
CloseReturns == \A c \in Child :
  op.at = "wait" /\ op.of = c /\ Alone(c) ~> op = Idle
=============================================================================
