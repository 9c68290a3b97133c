-------------------------- MODULE Subprocess_proofs --------------------------
(***************************************************************************)
(* Proofs about Subprocess, for any number of children, any capacity of    *)
(* the pipes and any amount of input.                                      *)
(***************************************************************************)
EXTENDS Subprocess, TLAPS

PipeNames == Child \X {"in", "out"}
PipeRecord == [buf : Nat, rd : SUBSET Proc, wr : SUBSET Proc]
ChildRecord == [st : {"none", "forked", "running", "exited", "reaped"},
                ran : BOOLEAN, held : Nat, wrote : Nat, good : BOOLEAN]
CallRecord == [at : {"idle", "opened", "fork", "forked", "send", "recv", "wait", "killed"},
               of : Child \cup {"none"}, left : Nat]
StageNames == {"free", "spawn", "send", "shutdown", "recv", "close", "done", "failed"}

(* Every variable keeps its type. *)
TypeOK ==
  /\ pipe \in [PipeNames -> PipeRecord]
  /\ obj \in [Child -> SUBSET {"in", "out"}]
  /\ child \in [Child -> ChildRecord]
  /\ op \in CallRecord
  /\ sent \in [Child -> Nat]
  /\ got \in [Child -> Nat]
  /\ cut \subseteq Child
  /\ stage \in StageNames
  /\ ignores \in BOOLEAN

-----------------------------------------------------------------------------
(* Pipes *)

(* The two pipes of every child are different from each other and from     *)
(* those of the other children.                                            *)
LEMMA PipesDiffer ==
  ASSUME NEW c \in Child, NEW d \in Child
  PROVE  /\ In(c) \in PipeNames /\ Out(c) \in PipeNames
         /\ In(c) # Out(d)
         /\ In(c) = In(d) => c = d
         /\ Out(c) = Out(d) => c = d
BY DEF PipeNames, In, Out

(* Giving ends up moves no byte and takes nobody else's end. *)
LEMMA DropEnds ==
  ASSUME TypeOK, NEW q \in Proc, NEW r, NEW w, pipe' = Dropped(q, r, w)
  PROVE  /\ pipe' \in [PipeNames -> PipeRecord]
         /\ \A p \in PipeNames :
              /\ pipe'[p].buf = pipe[p].buf
              /\ \A x : x \in pipe'[p].rd <=> x \in pipe[p].rd /\ ~(x = q /\ p \in r)
              /\ \A x : x \in pipe'[p].wr <=> x \in pipe[p].wr /\ ~(x = q /\ p \in w)
  <1>1. /\ pipe' \in [PipeNames -> PipeRecord]
        /\ \A p \in PipeNames :
             /\ pipe'[p].buf = pipe[p].buf
             /\ pipe'[p].rd = IF p \in r THEN pipe[p].rd \ {q} ELSE pipe[p].rd
             /\ pipe'[p].wr = IF p \in w THEN pipe[p].wr \ {q} ELSE pipe[p].wr
    BY DEF TypeOK, Dropped, PipeRecord
  <1> QED BY <1>1

(* A new pipe is empty and its two ends are the program's. *)
LEMMA OpenEnds ==
  ASSUME TypeOK, NEW p \in PipeNames,
         pipe' = [pipe EXCEPT ![p] = [buf |-> 0, rd |-> {"me"}, wr |-> {"me"}]]
  PROVE  /\ pipe' \in [PipeNames -> PipeRecord]
         /\ pipe'[p].buf = 0 /\ pipe'[p].rd = {"me"} /\ pipe'[p].wr = {"me"}
         /\ \A x \in PipeNames : x # p => pipe'[x] = pipe[x]
BY DEF TypeOK, PipeRecord, Proc

(* A read or a write changes the bytes of one pipe and no end. *)
LEMMA MoveBytes ==
  ASSUME TypeOK, NEW p \in PipeNames, NEW n \in Nat, pipe' = [pipe EXCEPT ![p].buf = n]
  PROVE  /\ pipe' \in [PipeNames -> PipeRecord]
         /\ pipe'[p].buf = n
         /\ \A x \in PipeNames :
              /\ pipe'[x].rd = pipe[x].rd /\ pipe'[x].wr = pipe[x].wr
              /\ x # p => pipe'[x].buf = pipe[x].buf
BY DEF TypeOK, PipeRecord

(* A fork gives the child every end the program holds. *)
LEMMA ForkEnds ==
  ASSUME TypeOK, NEW c \in Child,
         pipe' = [p \in DOMAIN pipe |->
                   [pipe[p] EXCEPT !.rd = IF "me" \in @ THEN @ \cup {c} ELSE @,
                                   !.wr = IF "me" \in @ THEN @ \cup {c} ELSE @]]
  PROVE  /\ pipe' \in [PipeNames -> PipeRecord]
         /\ \A p \in PipeNames :
              /\ pipe'[p].buf = pipe[p].buf
              /\ pipe'[p].rd = IF "me" \in pipe[p].rd THEN pipe[p].rd \cup {c} ELSE pipe[p].rd
              /\ pipe'[p].wr = IF "me" \in pipe[p].wr THEN pipe[p].wr \cup {c} ELSE pipe[p].wr
BY DEF TypeOK, PipeRecord, Proc

(* A child enters another state; nothing else of it changes. *)
LEMMA ChildEnters ==
  ASSUME TypeOK, NEW c \in Child, NEW s \in {"forked", "running", "exited", "reaped"},
         child' = [child EXCEPT ![c].st = s]
  PROVE  /\ child' \in [Child -> ChildRecord]
         /\ \A d \in Child : /\ child'[d].held = child[d].held
                             /\ child'[d].wrote = child[d].wrote
                             /\ child'[d].ran = child[d].ran
                             /\ child'[d].st = IF d = c THEN s ELSE child[d].st
  <1>1. child[c] \in ChildRecord
    BY DEF TypeOK
  <1>2. [child[c] EXCEPT !.st = s] \in ChildRecord
    BY <1>1 DEF ChildRecord
  <1>3. child' \in [Child -> ChildRecord]
    BY <1>2 DEF TypeOK
  <1>4. child'[c] = [child[c] EXCEPT !.st = s] /\ \A d \in Child : d # c => child'[d] = child[d]
    BY DEF TypeOK
  <1>5. child'[c].st = s /\ child'[c].held = child[c].held /\ child'[c].wrote = child[c].wrote
        /\ child'[c].ran = child[c].ran
    BY <1>1, <1>4 DEF ChildRecord
  <1> QED BY <1>3, <1>4, <1>5

(* A call that ends leaves the program between two calls. *)
LEMMA EndsCall ==
  ASSUME TypeOK, NEW next \in StageNames, Ends(next)
  PROVE  op' \in CallRecord /\ op'.at = "idle" /\ stage' \in StageNames
BY DEF TypeOK, Ends, Idle, CallRecord, StageNames

(* A call that begins on c, or goes on. *)
LEMMA InsideCall ==
  ASSUME TypeOK, NEW c \in Child, NEW n \in Nat,
         NEW at \in {"opened", "fork", "forked", "send", "recv", "wait"},
         op' = [at |-> at, of |-> c, left |-> n]
  PROVE  op' \in CallRecord /\ op'.at = at /\ op'.of = c /\ op'.left = n
BY DEF CallRecord

-----------------------------------------------------------------------------
(* Type correctness *)

(* The program starts with no child and no pipe. *)
LEMMA InitType == Init => TypeOK
BY SubprocessAssumption DEF Init, TypeOK, NoPipe, Idle, PipeNames, PipeRecord, ChildRecord, CallRecord, StageNames

(* The calls of popen keep the types. *)
LEMMA PopenType ==
  ASSUME TypeOK, NEW c \in Child, OpenIn(c) \/ OpenOut(c) \/ Fork(c) \/ ParentCloses(c)
  PROVE  TypeOK'
  <1>1. In(c) \in PipeNames /\ Out(c) \in PipeNames /\ "me" \in Proc
    BY PipesDiffer DEF Proc
  <1>2. {"failed", "send"} \subseteq StageNames
    BY DEF StageNames
  <1>3. ASSUME OpenIn(c) PROVE TypeOK'
    <2>1. pipe' \in [PipeNames -> PipeRecord]
      BY <1>1, <1>3, OpenEnds DEF OpenIn, TypeOK
    <2>2. op' \in CallRecord /\ stage' \in StageNames
      BY <1>2, <1>3, EndsCall DEF OpenIn, TypeOK, CallRecord
    <2> QED BY <1>3, <2>1, <2>2 DEF OpenIn, TypeOK
  <1>4. ASSUME OpenOut(c) PROVE TypeOK'
    <2>1. pipe' \in [PipeNames -> PipeRecord]
      BY <1>1, <1>4, OpenEnds, DropEnds DEF OpenOut
    <2>2. op' \in CallRecord /\ stage' \in StageNames
      BY <1>2, <1>4, EndsCall DEF OpenOut, TypeOK, CallRecord
    <2> QED BY <1>4, <2>1, <2>2 DEF OpenOut, TypeOK
  <1>5. ASSUME Fork(c) PROVE TypeOK'
    <2>1. pipe' \in [PipeNames -> PipeRecord]
      BY <1>1, <1>5, ForkEnds, DropEnds DEF Fork
    <2>2. op' \in CallRecord /\ stage' \in StageNames
      BY <1>2, <1>5, EndsCall DEF Fork, TypeOK, CallRecord
    <2>3. child' \in [Child -> ChildRecord]
      BY <1>5, ChildEnters DEF Fork, TypeOK
    <2> QED BY <1>5, <2>1, <2>2, <2>3 DEF Fork, TypeOK
  <1>6. ASSUME ParentCloses(c) PROVE TypeOK'
    <2>1. pipe' \in [PipeNames -> PipeRecord]
      BY <1>1, <1>6, DropEnds DEF ParentCloses
    <2>2. op' \in CallRecord /\ stage' \in StageNames
      BY <1>2, <1>6, EndsCall DEF ParentCloses
    <2> QED BY <1>6, <2>1, <2>2 DEF ParentCloses, TypeOK
  <1> QED BY <1>3, <1>4, <1>5, <1>6

(* The other calls of the program keep the types. *)
LEMMA CallType ==
  ASSUME TypeOK, NEW c \in Child,
         Send(c) \/ SendStep(c) \/ ShutdownSend(c) \/ RecvAll(c) \/ RecvStep(c) \/ Close(c) \/ WaitStep(c)
  PROVE  TypeOK'
  <1>1. In(c) \in PipeNames /\ Out(c) \in PipeNames /\ "me" \in Proc
    BY PipesDiffer DEF Proc
  <1>2. {"shutdown", "recv", "close", "done"} \subseteq StageNames
    BY DEF StageNames
  <1>3. ASSUME Send(c) PROVE TypeOK'
    <2>1. op' \in CallRecord /\ stage' \in StageNames
      <3>1. \A n \in 1..((IF stage = "free" THEN MaxSent ELSE Input) - sent[c]) : n \in Nat
        BY SubprocessAssumption DEF TypeOK
      <3> QED BY <1>2, <1>3, <3>1, EndsCall DEF Send, TypeOK, CallRecord
    <2> QED BY <1>3, <2>1 DEF Send, TypeOK
  <1>4. ASSUME SendStep(c) PROVE TypeOK'
    <2>1. CASE Ends("shutdown") /\ UNCHANGED <<pipe, sent>>
      BY <1>2, <1>4, <2>1, EndsCall DEF SendStep, TypeOK
    <2>2. ASSUME NEW k \in 1..op.left,
                 pipe' = [pipe EXCEPT ![In(c)].buf = @ + k],
                 sent' = [sent EXCEPT ![c] = @ + k],
                 \/ Ends("shutdown")
                 \/ k # op.left /\ op' = [op EXCEPT !.left = @ - k] /\ UNCHANGED stage
          PROVE  TypeOK'
      <3>1. k \in Nat /\ pipe[In(c)].buf \in Nat /\ op.left \in Nat /\ sent[c] \in Nat
        BY <1>1 DEF TypeOK, PipeRecord, CallRecord
      <3>2. pipe' = [pipe EXCEPT ![In(c)].buf = pipe[In(c)].buf + k]
        BY <2>2
      <3>3. pipe' \in [PipeNames -> PipeRecord]
        <4>1. pipe[In(c)].buf + k \in Nat
          BY <3>1
        <4> QED BY <1>1, <4>1, <3>2, MoveBytes
      <3>4. op' \in CallRecord /\ stage' \in StageNames
        BY <1>2, <2>2, <3>1, EndsCall DEF TypeOK, CallRecord
      <3>5. sent' \in [Child -> Nat]
        BY <2>2, <3>1 DEF TypeOK
      <3> QED BY <1>4, <3>3, <3>4, <3>5 DEF SendStep, TypeOK
    <2> QED BY <1>4, <2>1, <2>2 DEF SendStep
  <1>5. ASSUME ShutdownSend(c) PROVE TypeOK'
    <2>1. pipe' \in [PipeNames -> PipeRecord]
      BY <1>1, <1>5, DropEnds DEF ShutdownSend, TypeOK
    <2>2. op' \in CallRecord /\ stage' \in StageNames
      BY <1>2, <1>5, EndsCall DEF ShutdownSend
    <2> QED BY <1>5, <2>1, <2>2 DEF ShutdownSend, TypeOK
  <1>6. ASSUME RecvAll(c) PROVE TypeOK'
    BY <1>6 DEF RecvAll, TypeOK, CallRecord
  <1>7. ASSUME RecvStep(c) PROVE TypeOK'
    <2>1. CASE Ends("close") /\ UNCHANGED <<pipe, got>>
      BY <1>2, <1>7, <2>1, EndsCall DEF RecvStep, TypeOK
    <2>2. ASSUME NEW k \in 1..pipe[Out(c)].buf,
                 pipe' = [pipe EXCEPT ![Out(c)].buf = @ - k],
                 got' = [got EXCEPT ![c] = @ + k], UNCHANGED <<op, stage>>
          PROVE  TypeOK'
      <3>1. pipe[Out(c)].buf - k \in Nat /\ got[c] + k \in Nat
        BY <1>1 DEF TypeOK, PipeRecord
      <3>2. pipe' = [pipe EXCEPT ![Out(c)].buf = pipe[Out(c)].buf - k]
        BY <2>2
      <3>3. pipe' \in [PipeNames -> PipeRecord]
        BY <1>1, <3>1, <3>2, MoveBytes
      <3> QED BY <1>7, <2>2, <3>1, <3>3 DEF RecvStep, TypeOK
    <2> QED BY <1>7, <2>1, <2>2 DEF RecvStep
  <1>8. ASSUME Close(c) PROVE TypeOK'
    <2>1. pipe' \in [PipeNames -> PipeRecord]
      BY <1>1, <1>8, DropEnds DEF Close
    <2> QED BY <1>8, <2>1 DEF Close, TypeOK, CallRecord
  <1>9. ASSUME WaitStep(c) PROVE TypeOK'
    <2>1. op' \in CallRecord /\ stage' \in StageNames
      BY <1>2, <1>9, EndsCall DEF WaitStep
    <2>2. child' \in [Child -> ChildRecord]
      BY <1>9, ChildEnters DEF WaitStep
    <2> QED BY <1>9, <2>1, <2>2 DEF WaitStep, TypeOK
  <1> QED BY <1>3, <1>4, <1>5, <1>6, <1>7, <1>8, <1>9

(* So do the calls that fail, and the signal. *)
LEMMA FailType ==
  ASSUME TypeOK, NEW c \in Child, CallFails(c) \/ SigPipe(c)
  PROVE  TypeOK'
  <1>1. {"shutdown", "close", "done"} \subseteq StageNames /\ "me" \in Proc
    BY DEF StageNames, Proc
  <1>2. CASE CallFails(c)
    <2>1. op' \in CallRecord /\ stage' \in StageNames
      BY <1>1, <1>2, EndsCall DEF CallFails, SendFails, RecvFails, WaitFails
    <2>2. cut' \subseteq Child /\ UNCHANGED <<pipe, obj, child, sent, got, ignores>>
      BY <1>2 DEF CallFails, SendFails, RecvFails, WaitFails, TypeOK
    <2> QED BY <2>1, <2>2 DEF TypeOK
  <1>3. CASE SigPipe(c)
    <2>1. pipe' \in [PipeNames -> PipeRecord]
      BY <1>1, <1>3, DropEnds DEF SigPipe, Gone
    <2>2. op' \in CallRecord
      BY <1>3 DEF SigPipe, TypeOK, CallRecord
    <2> QED BY <1>3, <2>1, <2>2 DEF SigPipe, TypeOK
  <1> QED BY <1>2, <1>3

(* A child that reads or writes changes its own counts. *)
LEMMA ChildMoves ==
  ASSUME TypeOK, NEW c \in Child
  PROVE  /\ ChildRead(c) => \E k \in 1..pipe[In(c)].buf :
              /\ child[c].st = "running" /\ child[c].held = 0
              /\ pipe' = [pipe EXCEPT ![In(c)].buf = pipe[In(c)].buf - k]
              /\ child' \in [Child -> ChildRecord]
              /\ child'[c].held = k /\ child'[c].wrote = child[c].wrote
              /\ child'[c].st = child[c].st /\ child'[c].ran = child[c].ran
              /\ \A d \in Child : d # c => child'[d] = child[d]
         /\ ChildWrite(c) => \E k \in 1..child[c].held :
              /\ child[c].st = "running"
              /\ pipe' = [pipe EXCEPT ![Out(c)].buf = pipe[Out(c)].buf + k]
              /\ child' \in [Child -> ChildRecord]
              /\ child'[c].held = child[c].held - k /\ child'[c].wrote = child[c].wrote + k
              /\ child'[c].st = child[c].st /\ child'[c].ran = child[c].ran
              /\ \A d \in Child : d # c => child'[d] = child[d]
  <1>1. child[c] \in ChildRecord /\ In(c) \in PipeNames /\ Out(c) \in PipeNames
    BY PipesDiffer DEF TypeOK
  <1>2. ASSUME ChildRead(c), NEW k \in 1..pipe[In(c)].buf,
               pipe' = [pipe EXCEPT ![In(c)].buf = @ - k],
               child' = [child EXCEPT ![c].held = k]
        PROVE  /\ pipe' = [pipe EXCEPT ![In(c)].buf = pipe[In(c)].buf - k]
               /\ child' \in [Child -> ChildRecord]
               /\ child'[c].held = k /\ child'[c].wrote = child[c].wrote
               /\ child'[c].st = child[c].st /\ child'[c].ran = child[c].ran
               /\ \A d \in Child : d # c => child'[d] = child[d]
    <2>1. k \in Nat
      BY <1>1 DEF TypeOK, PipeRecord
    <2>2. [child[c] EXCEPT !.held = k] \in ChildRecord
      BY <1>1, <2>1 DEF ChildRecord
    <2>3. /\ child' \in [Child -> ChildRecord] /\ child'[c] = [child[c] EXCEPT !.held = k]
          /\ \A d \in Child : d # c => child'[d] = child[d]
      BY <1>2, <2>2 DEF TypeOK
    <2> QED BY <1>1, <1>2, <2>3 DEF ChildRecord
  <1>3. ASSUME ChildWrite(c), NEW k \in 1..child[c].held,
               pipe' = [pipe EXCEPT ![Out(c)].buf = @ + k],
               child' = [child EXCEPT ![c].held = @ - k, ![c].wrote = @ + k]
        PROVE  /\ pipe' = [pipe EXCEPT ![Out(c)].buf = pipe[Out(c)].buf + k]
               /\ child' \in [Child -> ChildRecord]
               /\ child'[c].held = child[c].held - k /\ child'[c].wrote = child[c].wrote + k
               /\ child'[c].st = child[c].st /\ child'[c].ran = child[c].ran
               /\ \A d \in Child : d # c => child'[d] = child[d]
    <2> DEFINE r == [child[c] EXCEPT !.held = child[c].held - k, !.wrote = child[c].wrote + k]
    <2>1. child[c].held - k \in Nat /\ child[c].wrote + k \in Nat
      BY <1>1 DEF ChildRecord
    <2>2. r \in ChildRecord
      BY <1>1, <2>1 DEF ChildRecord
    <2>3. /\ child' \in [Child -> ChildRecord] /\ child'[c] = r
          /\ \A d \in Child : d # c => child'[d] = child[d]
      BY <1>3, <2>2 DEF TypeOK
    <2> QED BY <1>1, <1>3, <2>3 DEF ChildRecord
  <1>4. ASSUME ChildRead(c)
        PROVE  \E k \in 1..pipe[In(c)].buf :
                 /\ pipe' = [pipe EXCEPT ![In(c)].buf = @ - k]
                 /\ child' = [child EXCEPT ![c].held = k]
    BY <1>4 DEF ChildRead
  <1>5. ASSUME ChildWrite(c)
        PROVE  \E k \in 1..child[c].held :
                 /\ pipe' = [pipe EXCEPT ![Out(c)].buf = @ + k]
                 /\ child' = [child EXCEPT ![c].held = @ - k, ![c].wrote = @ + k]
    BY <1>5 DEF ChildWrite
  <1>6. ChildRead(c) => child[c].st = "running" /\ child[c].held = 0
    BY DEF ChildRead
  <1>7. ChildWrite(c) => child[c].st = "running"
    BY DEF ChildWrite
  <1> QED BY <1>2, <1>3, <1>4, <1>5, <1>6, <1>7

(* A child takes over from popen, or gives up. *)
LEMMA ChildStarts ==
  ASSUME TypeOK, NEW c \in Child, ChildSetup(c)
  PROVE  /\ child' \in [Child -> ChildRecord]
         /\ \A d \in Child : /\ child'[d].held = child[d].held
                             /\ child'[d].wrote = child[d].wrote
                             /\ d # c => child'[d] = child[d]
         /\ child[c].st = "forked"
         /\ \/ /\ child'[c].st = "running" /\ child'[c].ran
               /\ pipe' = Dropped(c, {Out(c)}, {In(c)})
            \/ /\ child'[c].st = "exited" /\ child'[c].ran = child[c].ran
               /\ pipe' = Gone(c)
  <1>1. child[c] \in ChildRecord
    BY DEF TypeOK
  <1>2. CASE pipe' = Gone(c) /\ child' = [child EXCEPT ![c].st = "exited"]
    <2>1. \A d \in Child : d # c => child'[d] = child[d]
      BY <1>2 DEF TypeOK
    <2>2. /\ child' \in [Child -> ChildRecord]
          /\ \A d \in Child : /\ child'[d].held = child[d].held
                              /\ child'[d].wrote = child[d].wrote
                              /\ child'[d].ran = child[d].ran
          /\ child'[c].st = "exited"
      <3>1. child' = [child EXCEPT ![c].st = "exited"]
        BY <1>2
      <3>2. "exited" \in {"forked", "running", "exited", "reaped"}
        OBVIOUS
      <3>3. /\ child' \in [Child -> ChildRecord]
            /\ \A d \in Child : /\ child'[d].held = child[d].held
                                /\ child'[d].wrote = child[d].wrote
                                /\ child'[d].ran = child[d].ran
                                /\ child'[d].st = IF d = c THEN "exited" ELSE child[d].st
        BY <3>1, <3>2, ChildEnters, Zenon
      <3> QED BY <3>3
    <2> QED BY <1>2, <2>1, <2>2, Zenon DEF ChildSetup
  <1>3. CASE /\ pipe' = Dropped(c, {Out(c)}, {In(c)})
             /\ child' = [child EXCEPT ![c].st = "running", ![c].ran = TRUE]
    <2> DEFINE r == [child[c] EXCEPT !.st = "running", !.ran = TRUE]
    <2>1. r \in ChildRecord
      BY <1>1 DEF ChildRecord
    <2>2. /\ child' \in [Child -> ChildRecord] /\ child'[c] = r
          /\ \A d \in Child : d # c => child'[d] = child[d]
      BY <1>3, <2>1 DEF TypeOK
    <2>3. r.st = "running" /\ r.ran = TRUE /\ r.held = child[c].held /\ r.wrote = child[c].wrote
      BY <1>1 DEF ChildRecord
    <2> QED BY <1>3, <2>2, <2>3 DEF ChildSetup
  <1> QED BY <1>2, <1>3 DEF ChildSetup

(* A child that exits gives up all it holds. *)
LEMMA ChildEnds ==
  ASSUME TypeOK, NEW c \in Child, ChildExit(c)
  PROVE  /\ child' \in [Child -> ChildRecord]
         /\ child[c].st = "running" /\ child'[c].st = "exited"
         /\ child'[c].held = child[c].held /\ child'[c].wrote = child[c].wrote
         /\ child'[c].ran = child[c].ran
         /\ \A d \in Child : d # c => child'[d] = child[d]
         /\ pipe' = Dropped(c, DOMAIN pipe, DOMAIN pipe)
  <1> DEFINE r == [child[c] EXCEPT !.st = "exited"]
             g == [child[c] EXCEPT !.st = "exited", !.good = TRUE]
  <1>1. child[c] \in ChildRecord
    BY DEF TypeOK
  <1>2. r \in ChildRecord /\ g \in ChildRecord
    BY <1>1 DEF ChildRecord
  <1>3. child' = [child EXCEPT ![c] = r] \/ child' = [child EXCEPT ![c] = g]
    BY DEF ChildExit
  <1>4. /\ child' \in [Child -> ChildRecord]
        /\ child'[c] = r \/ child'[c] = g
        /\ \A d \in Child : d # c => child'[d] = child[d]
    <2> HIDE DEF r, g
    <2> QED BY <1>2, <1>3 DEF TypeOK
  <1>5. /\ r.st = "exited" /\ r.held = child[c].held /\ r.wrote = child[c].wrote /\ r.ran = child[c].ran
        /\ g.st = "exited" /\ g.held = child[c].held /\ g.wrote = child[c].wrote /\ g.ran = child[c].ran
    BY <1>1 DEF ChildRecord
  <1>6. /\ child'[c].st = "exited"
        /\ child'[c].held = child[c].held /\ child'[c].wrote = child[c].wrote
        /\ child'[c].ran = child[c].ran
    <2> HIDE DEF r, g
    <2> QED BY <1>4, <1>5
  <1>7. child[c].st = "running" /\ pipe' = Dropped(c, DOMAIN pipe, DOMAIN pipe)
    BY DEF ChildExit, Gone
  <1> QED BY <1>4, <1>6, <1>7

(* The children's own steps keep the types. *)
LEMMA ChildType ==
  ASSUME TypeOK, NEW c \in Child, ChildNext(c)
  PROVE  TypeOK'
  <1>1. In(c) \in PipeNames /\ Out(c) \in PipeNames /\ c \in Proc
    BY PipesDiffer DEF Proc
  <1>2. pipe[In(c)].buf \in Nat /\ pipe[Out(c)].buf \in Nat /\ child[c].held \in Nat
    BY <1>1 DEF TypeOK, PipeRecord, ChildRecord
  <1>3. UNCHANGED <<obj, op, sent, got, cut, stage, ignores>>
    BY DEF ChildNext, ChildSetup, ChildRead, ChildWrite, ChildExit
  <1>4. CASE ChildSetup(c)
    <2>1. pipe' \in [PipeNames -> PipeRecord]
      <3>1. pipe' = Dropped(c, {Out(c)}, {In(c)}) \/ pipe' = Dropped(c, DOMAIN pipe, DOMAIN pipe)
        BY <1>4 DEF ChildSetup, Gone
      <3> QED BY <1>1, <3>1, DropEnds
    <2> QED BY <1>3, <1>4, <2>1, ChildStarts DEF TypeOK
  <1>5. CASE ChildRead(c)
    <2>1. PICK k \in 1..pipe[In(c)].buf :
            /\ pipe' = [pipe EXCEPT ![In(c)].buf = pipe[In(c)].buf - k]
            /\ child' \in [Child -> ChildRecord]
      BY <1>5, ChildMoves
    <2>2. pipe[In(c)].buf - k \in Nat
      BY <1>2
    <2>3. pipe' \in [PipeNames -> PipeRecord]
      BY <1>1, <2>1, <2>2, MoveBytes
    <2> QED BY <1>3, <2>1, <2>3 DEF TypeOK
  <1>6. CASE ChildWrite(c)
    <2>1. PICK k \in 1..child[c].held :
            /\ pipe' = [pipe EXCEPT ![Out(c)].buf = pipe[Out(c)].buf + k]
            /\ child' \in [Child -> ChildRecord]
      BY <1>6, ChildMoves
    <2>2. pipe[Out(c)].buf + k \in Nat
      BY <1>2
    <2>3. pipe' \in [PipeNames -> PipeRecord]
      BY <1>1, <2>1, <2>2, MoveBytes
    <2> QED BY <1>3, <2>1, <2>3 DEF TypeOK
  <1>7. CASE ChildExit(c)
    <2>1. pipe' \in [PipeNames -> PipeRecord]
      BY <1>1, <1>7, DropEnds DEF ChildExit, Gone
    <2>2. child' \in [Child -> ChildRecord]
      BY <1>7, ChildEnds
    <2> QED BY <1>3, <2>1, <2>2 DEF TypeOK
  <1> QED BY <1>4, <1>5, <1>6, <1>7 DEF ChildNext

(* Every step keeps the types. *)
LEMMA NextType == TypeOK /\ [Next]_vars => TypeOK'
  <1> SUFFICES ASSUME TypeOK, [Next]_vars PROVE TypeOK'
    OBVIOUS
  <1>1. CASE UNCHANGED vars
    BY <1>1 DEF vars, TypeOK
  <1>2. ASSUME NEW c \in Child, ChildNext(c) \/ CallStep(c) \/ CallFails(c) \/ Call(c) PROVE TypeOK'
    BY <1>2, PopenType, CallType, FailType, ChildType DEF CallStep, Call
  <1> QED BY <1>1, <1>2 DEF Next

-----------------------------------------------------------------------------
(* Descriptors *)

Opening(c) == op.of = c /\ op.at \in {"opened", "fork", "forked"}
Forking(c) == op.of = c /\ op.at \in {"fork", "forked"}

(* The ends of the program, while it lives: between the calls and in popen. *)
OwnEnds ==
  op.at # "killed" => \A c \in Child :
    /\ "me" \in pipe[In(c)].rd <=> Opening(c)
    /\ "me" \in pipe[In(c)].wr <=> Opening(c) \/ "in" \in obj[c]
    /\ "me" \in pipe[Out(c)].rd <=> Forking(c) \/ "out" \in obj[c]
    /\ "me" \in pipe[Out(c)].wr <=> Forking(c)

(* A child that was not forked has no object, no bytes and no past. *)
Unborn ==
  \A c \in Child : child[c].st = "none" =>
    /\ obj[c] = {} /\ ~child[c].ran
    /\ pipe[In(c)].buf = 0 /\ pipe[Out(c)].buf = 0
    /\ child[c].held = 0 /\ child[c].wrote = 0 /\ sent[c] = 0 /\ got[c] = 0

(* The child a call in progress is about. *)
InCall ==
  /\ op.at # "idle" => op.of \in Child
  /\ op.at \in {"opened", "fork"} => child[op.of].st = "none"
  /\ op.at \in {"forked", "send", "recv", "wait"} => child[op.of].st # "none"
  /\ op.at = "send" => "in" \in obj[op.of]

FdInv == OwnEnds /\ Unborn /\ InCall

(* The program gives up the ends it names. *)
LEMMA MyEnds ==
  ASSUME TypeOK, NEW r, NEW w, pipe' = Dropped("me", r, w)
  PROVE  \A p \in PipeNames : /\ pipe'[p].buf = pipe[p].buf
                              /\ "me" \in pipe'[p].rd <=> "me" \in pipe[p].rd /\ p \notin r
                              /\ "me" \in pipe'[p].wr <=> "me" \in pipe[p].wr /\ p \notin w
  <1>1. "me" \in Proc
    BY DEF Proc
  <1> QED BY <1>1, DropEnds

(* A child gives up none of the program's ends. *)
LEMMA OthersEnds ==
  ASSUME TypeOK, NEW q \in Child, NEW r, NEW w, pipe' = Dropped(q, r, w)
  PROVE  \A p \in PipeNames : /\ pipe'[p].buf = pipe[p].buf
                              /\ "me" \in pipe'[p].rd <=> "me" \in pipe[p].rd
                              /\ "me" \in pipe'[p].wr <=> "me" \in pipe[p].wr
  <1>1. q \in Proc /\ q # "me"
    BY SubprocessAssumption DEF Proc
  <1>2. \A p \in PipeNames :
          /\ pipe'[p].buf = pipe[p].buf
          /\ \A x : x \in pipe'[p].rd <=> x \in pipe[p].rd /\ ~(x = q /\ p \in r)
          /\ \A x : x \in pipe'[p].wr <=> x \in pipe[p].wr /\ ~(x = q /\ p \in w)
    BY <1>1, DropEnds
  <1> QED BY <1>1, <1>2

(* The program starts with nothing open. *)
LEMMA InitFd == Init => FdInv
  <1> SUFFICES ASSUME Init PROVE FdInv
    OBVIOUS
  <1>1. \A c \in Child : pipe[In(c)] = NoPipe /\ pipe[Out(c)] = NoPipe
    BY PipesDiffer DEF Init, PipeNames
  <1>2. NoPipe.buf = 0 /\ NoPipe.rd = {} /\ NoPipe.wr = {}
    BY DEF NoPipe
  <1>3. op.at = "idle" /\ \A c \in Child : obj[c] = {}
    BY DEF Init, Idle
  <1>4. OwnEnds
    BY <1>1, <1>2, <1>3 DEF OwnEnds, Opening, Forking
  <1>5. Unborn
    <2>1. \A c \in Child : child[c] = [st |-> "none", ran |-> FALSE, held |-> 0,
                                      wrote |-> 0, good |-> FALSE]
      BY DEF Init
    <2>2. \A c \in Child : ~child[c].ran /\ child[c].held = 0 /\ child[c].wrote = 0
      BY <2>1
    <2>3. \A c \in Child : sent[c] = 0 /\ got[c] = 0
      BY DEF Init
    <2> QED BY <1>1, <1>2, <1>3, <2>2, <2>3 DEF Unborn
  <1> QED BY <1>3, <1>4, <1>5 DEF InCall, FdInv

(* The first pipe of popen. *)
LEMMA OpenInFd ==
  ASSUME TypeOK, FdInv, NEW c \in Child, OpenIn(c)
  PROVE  FdInv'
  <1> USE DEF FdInv
  <1>1. child[c].st = "none" /\ op.at = "idle" /\ obj[c] = {}
    BY DEF OpenIn, May, Idle, Unborn
  <1>2. UNCHANGED <<obj, child, sent, got>>
    BY DEF OpenIn
  <1>3. CASE Ends("failed") /\ UNCHANGED pipe
    <2>1. op'.at = "idle"
      BY <1>3 DEF Ends, Idle
    <2> QED BY <1>1, <1>2, <1>3, <2>1 DEF OwnEnds, Opening, Forking, Unborn, InCall
  <1>4. CASE /\ pipe' = [pipe EXCEPT ![In(c)] = [buf |-> 0, rd |-> {"me"}, wr |-> {"me"}]]
             /\ op' = [at |-> "opened", of |-> c, left |-> 0]
    <2>1. op'.at = "opened" /\ op'.of = c
      BY <1>4
    <2>2. /\ pipe'[In(c)].buf = 0 /\ "me" \in pipe'[In(c)].rd /\ "me" \in pipe'[In(c)].wr
          /\ \A d \in Child : /\ pipe'[Out(d)] = pipe[Out(d)]
                              /\ d # c => pipe'[In(d)] = pipe[In(d)]
      BY <1>4, OpenEnds, PipesDiffer
    <2>3. OwnEnds'
      BY <1>1, <1>2, <2>1, <2>2 DEF OwnEnds, Opening, Forking
    <2>4. Unborn'
      BY <1>2, <2>2 DEF Unborn
    <2>5. InCall'
      BY <1>1, <1>2, <2>1 DEF InCall
    <2> QED BY <2>3, <2>4, <2>5
  <1> QED BY <1>3, <1>4 DEF OpenIn

(* The second pipe: when it fails the first is closed again. *)
LEMMA OpenOutFd ==
  ASSUME TypeOK, FdInv, NEW c \in Child, OpenOut(c)
  PROVE  FdInv'
  <1> USE DEF FdInv
  <1>1. op.at = "opened" /\ op.of = c /\ child[c].st = "none" /\ obj[c] = {}
    BY DEF OpenOut, InCall, Unborn
  <1>2. UNCHANGED <<obj, child, sent, got>>
    BY DEF OpenOut
  <1>3. CASE pipe' = Dropped("me", {In(c)}, {In(c)}) /\ Ends("failed")
    <2>1. op'.at = "idle"
      BY <1>3 DEF Ends, Idle
    <2>2. \A d \in Child :
            /\ pipe'[In(d)].buf = pipe[In(d)].buf /\ pipe'[Out(d)].buf = pipe[Out(d)].buf
            /\ "me" \in pipe'[In(d)].rd <=> "me" \in pipe[In(d)].rd /\ d # c
            /\ "me" \in pipe'[In(d)].wr <=> "me" \in pipe[In(d)].wr /\ d # c
            /\ "me" \in pipe'[Out(d)].rd <=> "me" \in pipe[Out(d)].rd
            /\ "me" \in pipe'[Out(d)].wr <=> "me" \in pipe[Out(d)].wr
      <3>1. \A p \in PipeNames :
              /\ pipe'[p].buf = pipe[p].buf
              /\ "me" \in pipe'[p].rd <=> "me" \in pipe[p].rd /\ p \notin {In(c)}
              /\ "me" \in pipe'[p].wr <=> "me" \in pipe[p].wr /\ p \notin {In(c)}
        BY <1>3, MyEnds, Zenon
      <3> QED BY <3>1, PipesDiffer
    <2>3. OwnEnds'
      BY <1>1, <1>2, <2>1, <2>2 DEF OwnEnds, Opening, Forking
    <2>4. Unborn'
      BY <1>2, <2>2 DEF Unborn
    <2> QED BY <2>1, <2>3, <2>4 DEF InCall
  <1>4. CASE /\ pipe' = [pipe EXCEPT ![Out(c)] = [buf |-> 0, rd |-> {"me"}, wr |-> {"me"}]]
             /\ op' = [op EXCEPT !.at = "fork"]
    <2>1. op'.at = "fork" /\ op'.of = c
      BY <1>1, <1>4 DEF TypeOK, CallRecord
    <2>2. /\ pipe'[Out(c)].buf = 0 /\ "me" \in pipe'[Out(c)].rd /\ "me" \in pipe'[Out(c)].wr
          /\ \A d \in Child : /\ pipe'[In(d)] = pipe[In(d)]
                              /\ d # c => pipe'[Out(d)] = pipe[Out(d)]
      BY <1>4, OpenEnds, PipesDiffer
    <2>3. OwnEnds'
      BY <1>1, <1>2, <2>1, <2>2 DEF OwnEnds, Opening, Forking
    <2>4. Unborn'
      BY <1>2, <2>2 DEF Unborn
    <2>5. InCall'
      BY <1>1, <1>2, <2>1 DEF InCall
    <2> QED BY <2>3, <2>4, <2>5
  <1> QED BY <1>3, <1>4 DEF OpenOut

(* The fork: when it fails both pipes are closed again. *)
LEMMA ForkFd ==
  ASSUME TypeOK, FdInv, NEW c \in Child, Fork(c)
  PROVE  FdInv'
  <1> USE DEF FdInv
  <1>1. op.at = "fork" /\ op.of = c /\ child[c].st = "none" /\ obj[c] = {}
    BY DEF Fork, InCall, Unborn
  <1>2. UNCHANGED <<obj, sent, got>>
    BY DEF Fork
  <1>3. CASE /\ pipe' = Dropped("me", {In(c), Out(c)}, {In(c), Out(c)})
             /\ Ends("failed") /\ UNCHANGED child
    <2>1. op'.at = "idle"
      BY <1>3 DEF Ends, Idle
    <2>2. \A d \in Child :
            /\ pipe'[In(d)].buf = pipe[In(d)].buf /\ pipe'[Out(d)].buf = pipe[Out(d)].buf
            /\ "me" \in pipe'[In(d)].rd <=> "me" \in pipe[In(d)].rd /\ d # c
            /\ "me" \in pipe'[In(d)].wr <=> "me" \in pipe[In(d)].wr /\ d # c
            /\ "me" \in pipe'[Out(d)].rd <=> "me" \in pipe[Out(d)].rd /\ d # c
            /\ "me" \in pipe'[Out(d)].wr <=> "me" \in pipe[Out(d)].wr /\ d # c
      <3>1. \A p \in PipeNames :
              /\ pipe'[p].buf = pipe[p].buf
              /\ "me" \in pipe'[p].rd <=> "me" \in pipe[p].rd /\ p \notin {In(c), Out(c)}
              /\ "me" \in pipe'[p].wr <=> "me" \in pipe[p].wr /\ p \notin {In(c), Out(c)}
        <4> DEFINE both == {In(c), Out(c)}
        <4>1. pipe' = Dropped("me", both, both)
          BY <1>3
        <4> HIDE DEF both
        <4>2. \A p \in PipeNames :
                /\ pipe'[p].buf = pipe[p].buf
                /\ "me" \in pipe'[p].rd <=> "me" \in pipe[p].rd /\ p \notin both
                /\ "me" \in pipe'[p].wr <=> "me" \in pipe[p].wr /\ p \notin both
          BY <4>1, MyEnds, Zenon
        <4> QED BY <4>2 DEF both
      <3> QED BY <3>1, PipesDiffer
    <2>3. OwnEnds'
      BY <1>1, <1>2, <2>1, <2>2 DEF OwnEnds, Opening, Forking
    <2>4. Unborn'
      BY <1>2, <1>3, <2>2 DEF Unborn
    <2> QED BY <2>1, <2>3, <2>4 DEF InCall
  <1>4. CASE /\ pipe' = [p \in DOMAIN pipe |->
                          [pipe[p] EXCEPT !.rd = IF "me" \in @ THEN @ \cup {c} ELSE @,
                                          !.wr = IF "me" \in @ THEN @ \cup {c} ELSE @]]
             /\ child' = [child EXCEPT ![c].st = "forked"]
             /\ op' = [op EXCEPT !.at = "forked"]
    <2>1. op'.at = "forked" /\ op'.of = c
      BY <1>1, <1>4 DEF TypeOK, CallRecord
    <2>2. \A p \in PipeNames : /\ pipe'[p].buf = pipe[p].buf
                               /\ "me" \in pipe'[p].rd <=> "me" \in pipe[p].rd
                               /\ "me" \in pipe'[p].wr <=> "me" \in pipe[p].wr
      <3>1. "me" # c
        BY SubprocessAssumption
      <3>2. \A p \in PipeNames :
              /\ pipe'[p].buf = pipe[p].buf
              /\ pipe'[p].rd = IF "me" \in pipe[p].rd THEN pipe[p].rd \cup {c} ELSE pipe[p].rd
              /\ pipe'[p].wr = IF "me" \in pipe[p].wr THEN pipe[p].wr \cup {c} ELSE pipe[p].wr
        BY <1>4, ForkEnds
      <3> QED BY <3>1, <3>2
    <2>3. /\ child'[c].st = "forked"
          /\ \A d \in Child : d # c => child'[d] = child[d]
      <3>1. child' = [child EXCEPT ![c].st = "forked"]
        BY <1>4
      <3>2. child[c] \in ChildRecord
        BY DEF TypeOK
      <3> QED BY <3>1, <3>2 DEF TypeOK, ChildRecord
    <2>4. OwnEnds'
      BY <1>1, <1>2, <2>1, <2>2, PipesDiffer DEF OwnEnds, Opening, Forking
    <2>5. Unborn'
      BY <1>2, <2>2, <2>3, PipesDiffer DEF Unborn
    <2>6. InCall'
      BY <2>1, <2>3 DEF InCall
    <2> QED BY <2>4, <2>5, <2>6
  <1> QED BY <1>3, <1>4 DEF Fork

(* The parent's half of popen. *)
LEMMA ParentClosesFd ==
  ASSUME TypeOK, FdInv, NEW c \in Child, ParentCloses(c)
  PROVE  FdInv'
  <1> USE DEF FdInv
  <1>1. op.at = "forked" /\ op.of = c /\ child[c].st # "none"
    BY DEF ParentCloses, InCall
  <1>2. op'.at = "idle" /\ UNCHANGED <<child, sent, got>>
    BY DEF ParentCloses, Ends, Idle
  <1>3. \A d \in Child :
          /\ pipe'[In(d)].buf = pipe[In(d)].buf /\ pipe'[Out(d)].buf = pipe[Out(d)].buf
          /\ "me" \in pipe'[In(d)].rd <=> "me" \in pipe[In(d)].rd /\ d # c
          /\ "me" \in pipe'[In(d)].wr <=> "me" \in pipe[In(d)].wr
          /\ "me" \in pipe'[Out(d)].rd <=> "me" \in pipe[Out(d)].rd
          /\ "me" \in pipe'[Out(d)].wr <=> "me" \in pipe[Out(d)].wr /\ d # c
    <2>1. pipe' = Dropped("me", {In(c)}, {Out(c)})
      BY DEF ParentCloses
    <2>2. \A p \in PipeNames :
            /\ pipe'[p].buf = pipe[p].buf
            /\ "me" \in pipe'[p].rd <=> "me" \in pipe[p].rd /\ p \notin {In(c)}
            /\ "me" \in pipe'[p].wr <=> "me" \in pipe[p].wr /\ p \notin {Out(c)}
      BY <2>1, MyEnds, Zenon
    <2> QED BY <2>2, PipesDiffer
  <1>4. obj'[c] = {"in", "out"} /\ \A d \in Child : d # c => obj'[d] = obj[d]
    BY DEF ParentCloses, TypeOK
  <1>5. OwnEnds'
    BY <1>1, <1>2, <1>3, <1>4 DEF OwnEnds, Opening, Forking
  <1>6. Unborn'
    BY <1>1, <1>2, <1>3, <1>4 DEF Unborn
  <1> QED BY <1>2, <1>5, <1>6 DEF InCall

(* A write moves bytes into the child's input. *)
LEMMA SendMoves ==
  ASSUME TypeOK, NEW c \in Child, SendStep(c)
  PROVE  /\ \A p \in PipeNames : pipe'[p].rd = pipe[p].rd /\ pipe'[p].wr = pipe[p].wr
         /\ \A d \in Child : d # c => /\ pipe'[In(d)].buf = pipe[In(d)].buf
                                      /\ pipe'[Out(d)].buf = pipe[Out(d)].buf
                                      /\ sent'[d] = sent[d]
         /\ \E k \in Nat : /\ pipe'[In(c)].buf = pipe[In(c)].buf + k
                           /\ pipe'[Out(c)].buf = pipe[Out(c)].buf
                           /\ sent'[c] = sent[c] + k
  <1>1. In(c) \in PipeNames /\ Out(c) \in PipeNames
    BY PipesDiffer
  <1>2. pipe[In(c)].buf \in Nat /\ sent[c] \in Nat /\ op.left \in Nat
    BY <1>1 DEF TypeOK, PipeRecord, CallRecord
  <1>3. CASE UNCHANGED <<pipe, sent>>
    <2>1. 0 \in Nat /\ pipe[In(c)].buf = pipe[In(c)].buf + 0 /\ sent[c] = sent[c] + 0
      BY <1>2
    <2> QED BY <1>3, <2>1
  <1>4. CASE \E k \in 1..op.left : /\ pipe' = [pipe EXCEPT ![In(c)].buf = @ + k]
                                   /\ sent' = [sent EXCEPT ![c] = @ + k]
    <2>1. PICK k \in 1..op.left : /\ pipe' = [pipe EXCEPT ![In(c)].buf = @ + k]
                                  /\ sent' = [sent EXCEPT ![c] = @ + k]
      BY <1>4
    <2> DEFINE n == pipe[In(c)].buf + k
    <2>2. k \in Nat /\ n \in Nat
      BY <1>2
    <2>3. pipe' = [pipe EXCEPT ![In(c)].buf = n]
      BY <2>1
    <2> HIDE DEF n
    <2>4. /\ pipe'[In(c)].buf = n
          /\ \A x \in PipeNames : /\ pipe'[x].rd = pipe[x].rd /\ pipe'[x].wr = pipe[x].wr
                                  /\ x # In(c) => pipe'[x].buf = pipe[x].buf
      BY <1>1, <2>2, <2>3, MoveBytes
    <2>5. sent'[c] = sent[c] + k /\ \A d \in Child : d # c => sent'[d] = sent[d]
      BY <2>1 DEF TypeOK
    <2>6. \A d \in Child : d # c => /\ pipe'[In(d)].buf = pipe[In(d)].buf
                                    /\ pipe'[Out(d)].buf = pipe[Out(d)].buf
      BY <2>4, PipesDiffer
    <2>7. pipe'[Out(c)].buf = pipe[Out(c)].buf
      BY <1>1, <2>4, PipesDiffer
    <2> QED BY <2>2, <2>4, <2>5, <2>6, <2>7 DEF n
  <1> QED BY <1>3, <1>4 DEF SendStep

(* A read moves bytes out of the child's output. *)
LEMMA RecvMoves ==
  ASSUME TypeOK, NEW c \in Child, RecvStep(c)
  PROVE  /\ \A p \in PipeNames : pipe'[p].rd = pipe[p].rd /\ pipe'[p].wr = pipe[p].wr
         /\ \A d \in Child : d # c => /\ pipe'[In(d)].buf = pipe[In(d)].buf
                                      /\ pipe'[Out(d)].buf = pipe[Out(d)].buf
                                      /\ got'[d] = got[d]
         /\ \E k \in Nat : /\ pipe'[Out(c)].buf = pipe[Out(c)].buf - k
                           /\ pipe'[In(c)].buf = pipe[In(c)].buf
                           /\ got'[c] = got[c] + k
  <1>1. Out(c) \in PipeNames /\ In(c) \in PipeNames
    BY PipesDiffer
  <1>2. pipe[Out(c)].buf \in Nat /\ got[c] \in Nat /\ op.left \in Nat
    BY <1>1 DEF TypeOK, PipeRecord, CallRecord
  <1>3. CASE UNCHANGED <<pipe, got>>
    <2>1. 0 \in Nat /\ pipe[Out(c)].buf = pipe[Out(c)].buf - 0 /\ got[c] = got[c] + 0
      BY <1>2
    <2> QED BY <1>3, <2>1
  <1>4. CASE \E k \in 1..pipe[Out(c)].buf : /\ pipe' = [pipe EXCEPT ![Out(c)].buf = @ - k]
                                   /\ got' = [got EXCEPT ![c] = @ + k]
    <2>1. PICK k \in 1..pipe[Out(c)].buf : /\ pipe' = [pipe EXCEPT ![Out(c)].buf = @ - k]
                                  /\ got' = [got EXCEPT ![c] = @ + k]
      BY <1>4
    <2> DEFINE n == pipe[Out(c)].buf - k
    <2>2. k \in Nat /\ n \in Nat
      BY <1>2
    <2>3. pipe' = [pipe EXCEPT ![Out(c)].buf = n]
      BY <2>1
    <2> HIDE DEF n
    <2>4. /\ pipe'[Out(c)].buf = n
          /\ \A x \in PipeNames : /\ pipe'[x].rd = pipe[x].rd /\ pipe'[x].wr = pipe[x].wr
                                  /\ x # Out(c) => pipe'[x].buf = pipe[x].buf
      BY <1>1, <2>2, <2>3, MoveBytes
    <2>5. got'[c] = got[c] + k /\ \A d \in Child : d # c => got'[d] = got[d]
      BY <2>1 DEF TypeOK
    <2>6. \A d \in Child : d # c => /\ pipe'[In(d)].buf = pipe[In(d)].buf
                                    /\ pipe'[Out(d)].buf = pipe[Out(d)].buf
      BY <2>4, PipesDiffer
    <2>7. pipe'[In(c)].buf = pipe[In(c)].buf
      BY <1>1, <2>4, PipesDiffer
    <2> QED BY <2>2, <2>4, <2>5, <2>6, <2>7 DEF n
  <1> QED BY <1>3, <1>4 DEF RecvStep

(* send, between the calls and while it writes. *)
LEMMA SendFd ==
  ASSUME TypeOK, FdInv, NEW c \in Child, Send(c) \/ SendStep(c)
  PROVE  FdInv'
  <1> USE DEF FdInv
  <1>1. UNCHANGED <<obj, child, got>>
    BY DEF Send, SendStep
  <1>2. ASSUME Send(c) PROVE FdInv'
    <2>1. op.at = "idle" /\ "in" \in obj[c] /\ child[c].st # "none" /\ UNCHANGED <<pipe, sent>>
      BY <1>2 DEF Send, May, Idle, Unborn
    <2>2. op'.at = "idle" \/ (op'.at = "send" /\ op'.of = c)
      BY <1>2 DEF Send, Ends, Idle
    <2>3. OwnEnds'
      BY <1>1, <2>1, <2>2 DEF OwnEnds, Opening, Forking
    <2> QED BY <1>1, <2>1, <2>2, <2>3 DEF Unborn, InCall
  <1>3. ASSUME SendStep(c) PROVE FdInv'
    <2>1. op.at = "send" /\ op.of = c /\ "in" \in obj[c] /\ child[c].st # "none"
      BY <1>3 DEF SendStep, InCall
    <2>2. op'.at = "idle" \/ (op'.at = "send" /\ op'.of = c)
      BY <1>3, <2>1 DEF SendStep, Ends, Idle, TypeOK, CallRecord
    <2>3. /\ \A p \in PipeNames : pipe'[p].rd = pipe[p].rd /\ pipe'[p].wr = pipe[p].wr
          /\ \A d \in Child : d # c => /\ pipe'[In(d)].buf = pipe[In(d)].buf
                                       /\ pipe'[Out(d)].buf = pipe[Out(d)].buf
                                       /\ sent'[d] = sent[d]
      BY <1>3, SendMoves
    <2>4. OwnEnds'
      BY <1>1, <2>1, <2>2, <2>3, PipesDiffer DEF OwnEnds, Opening, Forking
    <2>5. Unborn'
      BY <1>1, <2>1, <2>3 DEF Unborn
    <2> QED BY <1>1, <2>1, <2>2, <2>4, <2>5 DEF InCall
  <1> QED BY <1>2, <1>3

(* shutdown_send gives up the writing end if there still is one. *)
LEMMA ShutdownFd ==
  ASSUME TypeOK, FdInv, NEW c \in Child, ShutdownSend(c)
  PROVE  FdInv'
  <1> USE DEF FdInv
  <1>1. op.at = "idle" /\ op'.at = "idle" /\ child[c].st # "none" /\ UNCHANGED <<child, sent, got>>
    BY DEF ShutdownSend, May, Ends, Idle
  <1>2. \A d \in Child : obj'[d] = IF d = c THEN obj[c] \ {"in"} ELSE obj[d]
    BY DEF ShutdownSend, TypeOK
  <1>3. \A d \in Child :
          /\ pipe'[In(d)].buf = pipe[In(d)].buf /\ pipe'[Out(d)].buf = pipe[Out(d)].buf
          /\ "me" \in pipe'[In(d)].rd <=> "me" \in pipe[In(d)].rd
          /\ "me" \in pipe'[In(d)].wr <=> "me" \in pipe[In(d)].wr /\ d # c
          /\ "me" \in pipe'[Out(d)].rd <=> "me" \in pipe[Out(d)].rd
          /\ "me" \in pipe'[Out(d)].wr <=> "me" \in pipe[Out(d)].wr
    <2>1. CASE "in" \in obj[c]
      <3>1. pipe' = Dropped("me", {}, {In(c)})
        BY <2>1 DEF ShutdownSend
      <3>2. \A p \in PipeNames :
              /\ pipe'[p].buf = pipe[p].buf
              /\ "me" \in pipe'[p].rd <=> "me" \in pipe[p].rd /\ p \notin {}
              /\ "me" \in pipe'[p].wr <=> "me" \in pipe[p].wr /\ p \notin {In(c)}
        BY <3>1, MyEnds, Zenon
      <3> QED BY <3>2, PipesDiffer
    <2>2. CASE "in" \notin obj[c]
      <3>1. pipe' = pipe
        BY <2>2 DEF ShutdownSend
      <3>2. "me" \notin pipe[In(c)].wr
        BY <1>1, <2>2 DEF OwnEnds, Opening
      <3> QED BY <3>1, <3>2
    <2> QED BY <2>1, <2>2
  <1>4. OwnEnds'
    BY <1>1, <1>2, <1>3 DEF OwnEnds, Opening, Forking
  <1>5. Unborn'
    BY <1>1, <1>2, <1>3 DEF Unborn
  <1> QED BY <1>1, <1>4, <1>5 DEF InCall

(* recv_all, between the calls and while it reads. *)
LEMMA RecvFd ==
  ASSUME TypeOK, FdInv, NEW c \in Child, RecvAll(c) \/ RecvStep(c)
  PROVE  FdInv'
  <1> USE DEF FdInv
  <1>1. UNCHANGED <<obj, child, sent>>
    BY DEF RecvAll, RecvStep
  <1>2. ASSUME RecvAll(c) PROVE FdInv'
    <2>1. op.at = "idle" /\ child[c].st # "none" /\ UNCHANGED <<pipe, got>>
      BY <1>2 DEF RecvAll, May, Idle, Unborn
    <2>2. op'.at = "recv" /\ op'.of = c
      BY <1>2 DEF RecvAll
    <2>3. OwnEnds'
      BY <1>1, <2>1, <2>2 DEF OwnEnds, Opening, Forking
    <2> QED BY <1>1, <2>1, <2>2, <2>3 DEF Unborn, InCall
  <1>3. ASSUME RecvStep(c) PROVE FdInv'
    <2>1. op.at = "recv" /\ op.of = c /\ child[c].st # "none"
      BY <1>3 DEF RecvStep, InCall
    <2>2. op'.at = "idle" \/ (op'.at = "recv" /\ op'.of = c)
      BY <1>3, <2>1 DEF RecvStep, Ends, Idle
    <2>3. /\ \A p \in PipeNames : pipe'[p].rd = pipe[p].rd /\ pipe'[p].wr = pipe[p].wr
          /\ \A d \in Child : d # c => /\ pipe'[In(d)].buf = pipe[In(d)].buf
                                       /\ pipe'[Out(d)].buf = pipe[Out(d)].buf
                                       /\ got'[d] = got[d]
      BY <1>3, RecvMoves
    <2>4. OwnEnds'
      BY <1>1, <2>1, <2>2, <2>3, PipesDiffer DEF OwnEnds, Opening, Forking
    <2>5. Unborn'
      BY <1>1, <2>1, <2>3 DEF Unborn
    <2> QED BY <1>1, <2>1, <2>2, <2>4, <2>5 DEF InCall
  <1> QED BY <1>2, <1>3

(* close gives up what is left, and waits for the child. *)
LEMMA CloseFd ==
  ASSUME TypeOK, FdInv, NEW c \in Child, Close(c)
  PROVE  FdInv'
  <1> USE DEF FdInv
  <1>1. /\ op.at = "idle" /\ op'.at = "wait" /\ op'.of = c /\ child[c].st # "none"
        /\ UNCHANGED <<child, sent, got>>
    BY DEF Close, May, Idle
  <1>2. \A d \in Child : obj'[d] = IF d = c THEN {} ELSE obj[d]
    BY DEF Close, TypeOK
  <1>3. \A d \in Child :
          /\ pipe'[In(d)].buf = pipe[In(d)].buf /\ pipe'[Out(d)].buf = pipe[Out(d)].buf
          /\ "me" \in pipe'[In(d)].rd => "me" \in pipe[In(d)].rd
          /\ "me" \in pipe'[In(d)].wr <=> "me" \in pipe[In(d)].wr /\ d # c
          /\ "me" \in pipe'[Out(d)].rd <=> "me" \in pipe[Out(d)].rd /\ d # c
          /\ "me" \in pipe'[Out(d)].wr => "me" \in pipe[Out(d)].wr
    <2> DEFINE r == IF "out" \in obj[c] THEN {Out(c)} ELSE {}
               w == IF "in" \in obj[c] THEN {In(c)} ELSE {}
    <2>1. pipe' = Dropped("me", r, w)
      BY DEF Close
    <2>2. \A p : (p \in r <=> "out" \in obj[c] /\ p = Out(c)) /\ (p \in w <=> "in" \in obj[c] /\ p = In(c))
      OBVIOUS
    <2> HIDE DEF r, w
    <2>3. \A p \in PipeNames : /\ pipe'[p].buf = pipe[p].buf
                               /\ "me" \in pipe'[p].rd <=> "me" \in pipe[p].rd /\ p \notin r
                               /\ "me" \in pipe'[p].wr <=> "me" \in pipe[p].wr /\ p \notin w
      BY <2>1, MyEnds, Zenon
    <2>4. /\ "in" \notin obj[c] => "me" \notin pipe[In(c)].wr
          /\ "out" \notin obj[c] => "me" \notin pipe[Out(c)].rd
      BY <1>1 DEF OwnEnds, Opening, Forking
    <2> QED BY <2>2, <2>3, <2>4, PipesDiffer
  <1>4. OwnEnds'
    BY <1>1, <1>2, <1>3 DEF OwnEnds, Opening, Forking
  <1>5. Unborn'
    BY <1>1, <1>2, <1>3 DEF Unborn
  <1> QED BY <1>1, <1>4, <1>5 DEF InCall

(* waitpid changes the state of the child only. *)
LEMMA WaitFd ==
  ASSUME TypeOK, FdInv, NEW c \in Child, WaitStep(c)
  PROVE  FdInv'
  <1> USE DEF FdInv
  <1>1. /\ op.at = "wait" /\ op'.at = "idle" /\ child[c].st = "exited"
        /\ UNCHANGED <<pipe, obj, sent, got>>
    BY DEF WaitStep, Ends, Idle
  <1>2. child'[c].st = "reaped" /\ \A d \in Child : d # c => child'[d] = child[d]
    <2>1. child[c] \in ChildRecord
      BY DEF TypeOK
    <2> QED BY <2>1 DEF WaitStep, TypeOK, ChildRecord
  <1>3. OwnEnds'
    BY <1>1 DEF OwnEnds, Opening, Forking
  <1>4. Unborn'
    BY <1>1, <1>2 DEF Unborn
  <1> QED BY <1>1, <1>3, <1>4 DEF InCall

(* A call that fails ends; a program that is killed holds nothing. *)
LEMMA FailFd ==
  ASSUME TypeOK, FdInv, NEW c \in Child, CallFails(c) \/ SigPipe(c)
  PROVE  FdInv'
  <1> USE DEF FdInv
  <1>1. CASE CallFails(c)
    <2>1. /\ op.at \in {"send", "recv", "wait"} /\ op'.at = "idle"
          /\ UNCHANGED <<pipe, obj, child, sent, got>>
      BY <1>1 DEF CallFails, SendFails, RecvFails, WaitFails, Ends, Idle
    <2>2. OwnEnds'
      BY <2>1 DEF OwnEnds, Opening, Forking
    <2> QED BY <2>1, <2>2 DEF Unborn, InCall
  <1>2. CASE SigPipe(c)
    <2>1. /\ op'.at = "killed" /\ op'.of = c
          /\ UNCHANGED <<obj, child, sent, got>>
      BY <1>2 DEF SigPipe, TypeOK, CallRecord
    <2>2. \A d \in Child : /\ pipe'[In(d)].buf = pipe[In(d)].buf
                           /\ pipe'[Out(d)].buf = pipe[Out(d)].buf
      BY <1>2, MyEnds, PipesDiffer DEF SigPipe, Gone
    <2> QED BY <2>1, <2>2 DEF OwnEnds, Unborn, InCall
  <1> QED BY <1>1, <1>2

(* What a child's step is to the rest: it changes its own record, moves    *)
(* bytes of its own pipes and none of the program's ends.                  *)
LEMMA ChildStep ==
  ASSUME TypeOK, NEW c \in Child, ChildNext(c)
  PROVE  /\ UNCHANGED <<obj, op, sent, got, stage>>
         /\ child[c].st \in {"forked", "running"} /\ child'[c].st # "none"
         /\ \A d \in Child : d # c => /\ child'[d] = child[d]
                                      /\ pipe'[In(d)].buf = pipe[In(d)].buf
                                      /\ pipe'[Out(d)].buf = pipe[Out(d)].buf
         /\ \A p \in PipeNames : /\ "me" \in pipe'[p].rd <=> "me" \in pipe[p].rd
                                 /\ "me" \in pipe'[p].wr <=> "me" \in pipe[p].wr
  <1>1. UNCHANGED <<obj, op, sent, got, stage>>
    BY DEF ChildNext, ChildSetup, ChildRead, ChildWrite, ChildExit
  <1>2. /\ In(c) \in PipeNames /\ Out(c) \in PipeNames
        /\ \A d \in Child : d # c => /\ In(d) \in PipeNames \ {In(c), Out(c)}
                                     /\ Out(d) \in PipeNames \ {In(c), Out(c)}
    BY PipesDiffer
  <1>3. pipe[In(c)].buf \in Nat /\ pipe[Out(c)].buf \in Nat /\ child[c].held \in Nat
    BY <1>2 DEF TypeOK, PipeRecord, ChildRecord
  <1>4. CASE ChildSetup(c)
    <2>1. pipe' = Dropped(c, {Out(c)}, {In(c)}) \/ pipe' = Dropped(c, DOMAIN pipe, DOMAIN pipe)
      BY <1>4 DEF ChildSetup, Gone
    <2>2. \A p \in PipeNames : /\ pipe'[p].buf = pipe[p].buf
                               /\ "me" \in pipe'[p].rd <=> "me" \in pipe[p].rd
                               /\ "me" \in pipe'[p].wr <=> "me" \in pipe[p].wr
      BY <2>1, OthersEnds
    <2>3. /\ child[c].st = "forked" /\ child'[c].st \in {"running", "exited"}
          /\ \A d \in Child : d # c => child'[d] = child[d]
      BY <1>4, ChildStarts
    <2> QED BY <1>1, <1>2, <2>2, <2>3
  <1>5. CASE ChildRead(c)
    <2>1. PICK k \in 1..pipe[In(c)].buf :
            /\ child[c].st = "running" /\ child'[c].st = child[c].st
            /\ pipe' = [pipe EXCEPT ![In(c)].buf = pipe[In(c)].buf - k]
            /\ \A d \in Child : d # c => child'[d] = child[d]
      BY <1>5, ChildMoves
    <2>2. pipe[In(c)].buf - k \in Nat
      BY <1>3
    <2>3. \A x \in PipeNames : /\ pipe'[x].rd = pipe[x].rd /\ pipe'[x].wr = pipe[x].wr
                               /\ x # In(c) => pipe'[x].buf = pipe[x].buf
      BY <1>2, <2>1, <2>2, MoveBytes
    <2> QED BY <1>1, <1>2, <2>1, <2>3
  <1>6. CASE ChildWrite(c)
    <2>1. PICK k \in 1..child[c].held :
            /\ child[c].st = "running" /\ child'[c].st = child[c].st
            /\ pipe' = [pipe EXCEPT ![Out(c)].buf = pipe[Out(c)].buf + k]
            /\ \A d \in Child : d # c => child'[d] = child[d]
      BY <1>6, ChildMoves
    <2>2. pipe[Out(c)].buf + k \in Nat
      BY <1>3
    <2>3. \A x \in PipeNames : /\ pipe'[x].rd = pipe[x].rd /\ pipe'[x].wr = pipe[x].wr
                               /\ x # Out(c) => pipe'[x].buf = pipe[x].buf
      BY <1>2, <2>1, <2>2, MoveBytes
    <2> QED BY <1>1, <1>2, <2>1, <2>3
  <1>7. CASE ChildExit(c)
    <2>1. /\ child[c].st = "running" /\ child'[c].st = "exited"
          /\ \A d \in Child : d # c => child'[d] = child[d]
          /\ pipe' = Dropped(c, DOMAIN pipe, DOMAIN pipe)
      BY <1>7, ChildEnds
    <2>2. \A p \in PipeNames : /\ pipe'[p].buf = pipe[p].buf
                               /\ "me" \in pipe'[p].rd <=> "me" \in pipe[p].rd
                               /\ "me" \in pipe'[p].wr <=> "me" \in pipe[p].wr
      BY <2>1, OthersEnds
    <2> QED BY <1>1, <1>2, <2>1, <2>2
  <1> QED BY <1>4, <1>5, <1>6, <1>7 DEF ChildNext

(* The children change none of this. *)
LEMMA ChildFd ==
  ASSUME TypeOK, FdInv, NEW c \in Child, ChildNext(c)
  PROVE  FdInv'
  <1> USE DEF FdInv
  <1>1. /\ UNCHANGED <<obj, op, sent, got, stage>>
        /\ child[c].st # "none" /\ child'[c].st # "none"
        /\ \A d \in Child : d # c => /\ child'[d] = child[d]
                                     /\ pipe'[In(d)].buf = pipe[In(d)].buf
                                     /\ pipe'[Out(d)].buf = pipe[Out(d)].buf
    BY ChildStep
  <1>2. OwnEnds'
    BY <1>1, ChildStep, PipesDiffer DEF OwnEnds, Opening, Forking
  <1>3. Unborn'
    BY <1>1 DEF Unborn
  <1>4. InCall'
    BY <1>1 DEF InCall
  <1> QED BY <1>2, <1>3, <1>4

(* Every step keeps the descriptors in order. *)
LEMMA NextFd == TypeOK /\ FdInv /\ [Next]_vars => FdInv'
  <1> SUFFICES ASSUME TypeOK, FdInv, [Next]_vars PROVE FdInv'
    OBVIOUS
  <1>1. CASE UNCHANGED vars
    BY <1>1 DEF vars, FdInv, OwnEnds, Opening, Forking, Unborn, InCall
  <1>2. ASSUME NEW c \in Child, ChildNext(c) \/ CallStep(c) \/ CallFails(c) \/ Call(c) PROVE FdInv'
    BY <1>2, OpenInFd, OpenOutFd, ForkFd, ParentClosesFd, SendFd, ShutdownFd, RecvFd,
       CloseFd, WaitFd, FailFd, ChildFd
    DEF CallStep, Call
  <1> QED BY <1>1, <1>2 DEF Next

(* Every variable of the model of child processes keeps its type. *)
THEOREM SubprocessTypes == Spec => []TypeOK
  <1>1. TypeOK /\ [Next]_vars => TypeOK'
    BY NextType
  <1> QED BY <1>1, InitType, PTL DEF Spec

(* Whichever of the calls of popen fail, and however the calls on several  *)
(* children interleave, the program holds between two calls exactly the    *)
(* descriptors its process objects name: none leaks, none is closed early. *)
THEOREM DescriptorsExact == Spec => []FdsExact
  <1>1. Init => TypeOK /\ FdInv
    BY InitType, InitFd
  <1>2. TypeOK /\ FdInv /\ [Next]_vars => (TypeOK /\ FdInv)'
    BY NextType, NextFd
  <1>3. FdInv => FdsExact
    BY DEF FdInv, OwnEnds, Opening, Forking, FdsExact
  <1> QED BY <1>1, <1>2, <1>3, PTL DEF Spec

-----------------------------------------------------------------------------
(* Bytes *)

(* No byte is lost or made up on its way to the child, in it and back. *)
Conserved ==
  \A c \in Child :
    /\ sent[c] = pipe[In(c)].buf + child[c].held + child[c].wrote
    /\ child[c].wrote = pipe[Out(c)].buf + got[c]

Alive(c) == child[c].st \in {"forked", "running"}

(* A child that lives holds the writing end of its output, so recv_all     *)
(* cannot end before it.                                                   *)
HoldsOutput ==
  \A c \in Child : /\ Alive(c) => c \in pipe[Out(c)].wr
                   /\ child[c].st = "forked" => ~child[c].ran

(* A step that leaves the bytes alone. *)
LEMMA SameBytes ==
  ASSUME Conserved, UNCHANGED <<sent, got>>,
         \A d \in Child : /\ pipe'[In(d)].buf = pipe[In(d)].buf
                          /\ pipe'[Out(d)].buf = pipe[Out(d)].buf
                          /\ child'[d].held = child[d].held
                          /\ child'[d].wrote = child[d].wrote
  PROVE  Conserved'
BY DEF Conserved

(* The bytes are conserved. *)
LEMMA NextConserved == TypeOK /\ FdInv /\ Conserved /\ [Next]_vars => Conserved'
  <1> SUFFICES ASSUME TypeOK, FdInv, Conserved, [Next]_vars PROVE Conserved'
    OBVIOUS
  <1>1. \A d \in Child : In(d) \in PipeNames /\ Out(d) \in PipeNames
    BY PipesDiffer
  <1>2. \A d \in Child : /\ pipe[In(d)].buf \in Nat /\ pipe[Out(d)].buf \in Nat
                         /\ child[d].held \in Nat /\ child[d].wrote \in Nat
                         /\ sent[d] \in Nat /\ got[d] \in Nat
    BY <1>1 DEF TypeOK, PipeRecord, ChildRecord
  <1>3. ASSUME UNCHANGED <<sent, got, child>>,
               \A p \in PipeNames : pipe'[p].buf = pipe[p].buf
        PROVE  Conserved'
    BY <1>1, <1>3, SameBytes
  <1>4. CASE UNCHANGED vars
    BY <1>3, <1>4 DEF vars
  <1>5. ASSUME NEW c \in Child, NEW p \in {In(c), Out(c)}, child[c].st = "none",
               pipe' = [pipe EXCEPT ![p] = [buf |-> 0, rd |-> {"me"}, wr |-> {"me"}]]
        PROVE  \A x \in PipeNames : pipe'[x].buf = pipe[x].buf
    <2>1. pipe[In(c)].buf = 0 /\ pipe[Out(c)].buf = 0
      BY <1>5 DEF FdInv, Unborn
    <2>2. p \in PipeNames
      BY <1>1
    <2>3. pipe'[p].buf = 0 /\ \A x \in PipeNames : x # p => pipe'[x] = pipe[x]
      BY <1>5, <2>2, OpenEnds
    <2> QED BY <2>1, <2>3
  <1>6. ASSUME NEW c \in Child, OpenIn(c) PROVE Conserved'
    <2>1. UNCHANGED <<sent, got, child>> /\ child[c].st = "none"
      BY <1>6 DEF OpenIn
    <2>2. \/ UNCHANGED pipe
          \/ pipe' = [pipe EXCEPT ![In(c)] = [buf |-> 0, rd |-> {"me"}, wr |-> {"me"}]]
      BY <1>6 DEF OpenIn
    <2> QED BY <1>3, <1>5, <2>1, <2>2
  <1>7. ASSUME NEW c \in Child, OpenOut(c) PROVE Conserved'
    <2>1. UNCHANGED <<sent, got, child>> /\ child[c].st = "none"
      BY <1>7 DEF OpenOut, FdInv, InCall
    <2>2. \/ pipe' = Dropped("me", {In(c)}, {In(c)})
          \/ pipe' = [pipe EXCEPT ![Out(c)] = [buf |-> 0, rd |-> {"me"}, wr |-> {"me"}]]
      BY <1>7 DEF OpenOut
    <2> QED BY <1>3, <1>5, <2>1, <2>2, MyEnds
  <1>8. ASSUME NEW c \in Child, Fork(c) PROVE Conserved'
    <2>1. UNCHANGED <<sent, got>>
      BY <1>8 DEF Fork
    <2>2. \A p \in PipeNames : pipe'[p].buf = pipe[p].buf
      BY <1>8, ForkEnds, MyEnds DEF Fork
    <2>3. child' = child \/ child' = [child EXCEPT ![c].st = "forked"]
      BY <1>8 DEF Fork
    <2>4. \A d \in Child : child'[d].held = child[d].held /\ child'[d].wrote = child[d].wrote
      BY <2>3, ChildEnters
    <2> QED BY <1>1, <2>1, <2>2, <2>4, SameBytes
  <1>9. ASSUME NEW c \in Child, ParentCloses(c) \/ ShutdownSend(c) \/ Close(c) \/ SigPipe(c)
        PROVE  Conserved'
    <2>1. UNCHANGED <<sent, got, child>>
      BY <1>9 DEF ParentCloses, ShutdownSend, Close, SigPipe
    <2>2. UNCHANGED pipe \/ \E r, w : pipe' = Dropped("me", r, w)
      BY <1>9 DEF ParentCloses, ShutdownSend, Close, SigPipe, Gone
    <2>3. \A p \in PipeNames : pipe'[p].buf = pipe[p].buf
      BY <2>2, MyEnds
    <2> QED BY <1>3, <2>1, <2>3
  <1>10. ASSUME NEW c \in Child, Send(c) \/ RecvAll(c) \/ CallFails(c) PROVE Conserved'
    BY <1>3, <1>10 DEF Send, RecvAll, CallFails, SendFails, RecvFails, WaitFails
  <1>11. ASSUME NEW c \in Child, SendStep(c) PROVE Conserved'
    <2>1. UNCHANGED <<child, got>>
      BY <1>11 DEF SendStep
    <2>2. \A d \in Child : d # c => /\ pipe'[In(d)].buf = pipe[In(d)].buf
                                    /\ pipe'[Out(d)].buf = pipe[Out(d)].buf
                                    /\ sent'[d] = sent[d]
      BY <1>11, SendMoves
    <2>3. PICK k \in Nat : /\ pipe'[In(c)].buf = pipe[In(c)].buf + k
                           /\ pipe'[Out(c)].buf = pipe[Out(c)].buf
                           /\ sent'[c] = sent[c] + k
      BY <1>11, SendMoves
    <2> QED BY <1>2, <2>1, <2>2, <2>3 DEF Conserved
  <1>12. ASSUME NEW c \in Child, RecvStep(c) PROVE Conserved'
    <2>1. UNCHANGED <<child, sent>>
      BY <1>12 DEF RecvStep
    <2>2. \A d \in Child : d # c => /\ pipe'[In(d)].buf = pipe[In(d)].buf
                                    /\ pipe'[Out(d)].buf = pipe[Out(d)].buf
                                    /\ got'[d] = got[d]
      BY <1>12, RecvMoves
    <2>3. PICK k \in Nat : /\ pipe'[Out(c)].buf = pipe[Out(c)].buf - k
                           /\ pipe'[In(c)].buf = pipe[In(c)].buf
                           /\ got'[c] = got[c] + k
      BY <1>12, RecvMoves
    <2> QED BY <1>2, <2>1, <2>2, <2>3 DEF Conserved
  <1>13. ASSUME NEW c \in Child, WaitStep(c) PROVE Conserved'
    <2>1. UNCHANGED <<pipe, sent, got>> /\ child' = [child EXCEPT ![c].st = "reaped"]
      BY <1>13 DEF WaitStep
    <2>2. \A d \in Child : child'[d].held = child[d].held /\ child'[d].wrote = child[d].wrote
      BY <2>1, ChildEnters
    <2> QED BY <2>1, <2>2, SameBytes
  <1>14. ASSUME NEW c \in Child, ChildSetup(c) \/ ChildExit(c) PROVE Conserved'
    <2>1. UNCHANGED <<sent, got>>
      BY <1>14 DEF ChildSetup, ChildExit
    <2>2. \E r, w : pipe' = Dropped(c, r, w)
      BY <1>14 DEF ChildSetup, ChildExit, Gone
    <2>3. \A p \in PipeNames : pipe'[p].buf = pipe[p].buf
      BY <2>2, OthersEnds
    <2>4. \A d \in Child : child'[d].held = child[d].held /\ child'[d].wrote = child[d].wrote
      BY <1>14, ChildStarts, ChildEnds
    <2> QED BY <1>1, <2>1, <2>3, <2>4, SameBytes
  <1>15. ASSUME NEW c \in Child, ChildRead(c) \/ ChildWrite(c) PROVE Conserved'
    <2>1. /\ UNCHANGED <<sent, got>>
          /\ \A d \in Child : d # c => /\ child'[d] = child[d]
                                       /\ pipe'[In(d)].buf = pipe[In(d)].buf
                                       /\ pipe'[Out(d)].buf = pipe[Out(d)].buf
      BY <1>15, ChildStep DEF ChildNext
    <2>2. /\ pipe'[In(c)].buf + child'[c].held + child'[c].wrote
               = pipe[In(c)].buf + child[c].held + child[c].wrote
          /\ child'[c].wrote - pipe'[Out(c)].buf = child[c].wrote - pipe[Out(c)].buf
          /\ child'[c].wrote \in Nat /\ pipe'[Out(c)].buf \in Nat
      <3>1. CASE ChildRead(c)
        <4>1. PICK k \in 1..pipe[In(c)].buf :
                /\ child[c].held = 0
                /\ pipe' = [pipe EXCEPT ![In(c)].buf = pipe[In(c)].buf - k]
                /\ child'[c].held = k /\ child'[c].wrote = child[c].wrote
          BY <3>1, ChildMoves
        <4>2. pipe[In(c)].buf - k \in Nat
          BY <1>2
        <4>3. pipe'[In(c)].buf = pipe[In(c)].buf - k /\ pipe'[Out(c)].buf = pipe[Out(c)].buf
          BY <1>1, <4>1, <4>2, MoveBytes, PipesDiffer
        <4> QED BY <1>2, <4>1, <4>3
      <3>2. CASE ChildWrite(c)
        <4>1. PICK k \in 1..child[c].held :
                /\ pipe' = [pipe EXCEPT ![Out(c)].buf = pipe[Out(c)].buf + k]
                /\ child'[c].held = child[c].held - k /\ child'[c].wrote = child[c].wrote + k
          BY <3>2, ChildMoves
        <4>2. pipe[Out(c)].buf + k \in Nat
          BY <1>2
        <4>3. pipe'[Out(c)].buf = pipe[Out(c)].buf + k /\ pipe'[In(c)].buf = pipe[In(c)].buf
          BY <1>1, <4>1, <4>2, MoveBytes, PipesDiffer
        <4> QED BY <1>2, <4>1, <4>3
      <3> QED BY <1>15, <3>1, <3>2
    <2> QED BY <1>2, <2>1, <2>2 DEF Conserved
  <1> QED
    BY <1>4, <1>6, <1>7, <1>8, <1>9, <1>10, <1>11, <1>12, <1>13, <1>14, <1>15
    DEF Next, ChildNext, CallStep, Call

(* Steps that take no end from a living child keep HoldsOutput. *)
LEMMA KeepsOutput ==
  ASSUME HoldsOutput,
         \A d \in Child : /\ child'[d] = child[d]
                          /\ d \in pipe[Out(d)].wr => d \in pipe'[Out(d)].wr
  PROVE  HoldsOutput'
BY DEF HoldsOutput, Alive

(* A child holds the writing end of its output from the fork to its exit. *)
LEMMA NextHoldsOutput == TypeOK /\ FdInv /\ HoldsOutput /\ [Next]_vars => HoldsOutput'
  <1> SUFFICES ASSUME TypeOK, FdInv, HoldsOutput, [Next]_vars PROVE HoldsOutput'
    OBVIOUS
  <1>1. \A d \in Child : In(d) \in PipeNames /\ Out(d) \in PipeNames /\ d \in Proc /\ d # "me"
    BY PipesDiffer, SubprocessAssumption DEF Proc
  <1>2. CASE UNCHANGED vars
    BY <1>2, KeepsOutput DEF vars
  <1>3. ASSUME NEW r, NEW w, pipe' = Dropped("me", r, w), NEW d \in Child
        PROVE  d \in pipe[Out(d)].wr => d \in pipe'[Out(d)].wr
    <2>1. "me" \in Proc
      BY DEF Proc
    <2>2. \A p \in PipeNames :
            \A x : x \in pipe'[p].wr <=> x \in pipe[p].wr /\ ~(x = "me" /\ p \in w)
      BY <1>3, <2>1, DropEnds
    <2> QED BY <1>1, <2>2
  <1>4. ASSUME NEW c \in Child, NEW r, NEW w, pipe' = Dropped(c, r, w), NEW d \in Child,
               d # c \/ Out(d) \notin w
        PROVE  d \in pipe[Out(d)].wr => d \in pipe'[Out(d)].wr
    <2>1. \A p \in PipeNames :
            \A x : x \in pipe'[p].wr <=> x \in pipe[p].wr /\ ~(x = c /\ p \in w)
      BY <1>1, <1>4, DropEnds
    <2> QED BY <1>1, <1>4, <2>1
  <1>5. ASSUME NEW c \in Child, OpenIn(c) \/ OpenOut(c) PROVE HoldsOutput'
    <2>1. child' = child /\ child[c].st = "none"
      BY <1>5 DEF OpenIn, OpenOut, FdInv, InCall
    <2>2. \/ UNCHANGED pipe
          \/ \E r, w : pipe' = Dropped("me", r, w)
          \/ \E p \in {In(c), Out(c)} :
               pipe' = [pipe EXCEPT ![p] = [buf |-> 0, rd |-> {"me"}, wr |-> {"me"}]]
      BY <1>5 DEF OpenIn, OpenOut
    <2>3. CASE UNCHANGED pipe \/ \E r, w : pipe' = Dropped("me", r, w)
      BY <1>3, <2>1, <2>3, KeepsOutput
    <2>4. ASSUME NEW p \in {In(c), Out(c)},
                 pipe' = [pipe EXCEPT ![p] = [buf |-> 0, rd |-> {"me"}, wr |-> {"me"}]]
          PROVE  HoldsOutput'
      <3>1. p \in PipeNames
        BY <1>1
      <3>2. \A x \in PipeNames : x # p => pipe'[x] = pipe[x]
        BY <2>4, <3>1, OpenEnds
      <3>3. \A d \in Child : d # c => pipe'[Out(d)] = pipe[Out(d)]
        BY <1>1, <3>2, PipesDiffer
      <3> QED BY <2>1, <3>3 DEF HoldsOutput, Alive
    <2> QED BY <2>2, <2>3, <2>4
  <1>6. ASSUME NEW c \in Child, Fork(c) PROVE HoldsOutput'
    <2>1. CASE (\E r, w : pipe' = Dropped("me", r, w)) /\ UNCHANGED child
      BY <1>3, <2>1, KeepsOutput
    <2>2. CASE /\ pipe' = [p \in DOMAIN pipe |->
                            [pipe[p] EXCEPT !.rd = IF "me" \in @ THEN @ \cup {c} ELSE @,
                                            !.wr = IF "me" \in @ THEN @ \cup {c} ELSE @]]
               /\ child' = [child EXCEPT ![c].st = "forked"]
      <3>1. \A p \in PipeNames :
              pipe'[p].wr = IF "me" \in pipe[p].wr THEN pipe[p].wr \cup {c} ELSE pipe[p].wr
        BY <2>2, ForkEnds
      <3>2. /\ child'[c].st = "forked" /\ child'[c].ran = child[c].ran
            /\ \A d \in Child : d # c => child'[d] = child[d]
        <4>1. child[c] \in ChildRecord /\ child'[c] = [child[c] EXCEPT !.st = "forked"]
              /\ \A d \in Child : d # c => child'[d] = child[d]
          BY <2>2 DEF TypeOK
        <4> QED BY <4>1 DEF ChildRecord
      <3>3. op.at = "fork" /\ op.of = c /\ child[c].st = "none" /\ ~child[c].ran
        BY <1>6 DEF Fork, FdInv, InCall, Unborn
      <3>4. "me" \in pipe[Out(c)].wr
        BY <3>3 DEF FdInv, OwnEnds, Forking
      <3>5. c \in pipe'[Out(c)].wr
        BY <1>1, <3>1, <3>4
      <3>6. \A d \in Child : d \in pipe[Out(d)].wr => d \in pipe'[Out(d)].wr
        BY <1>1, <3>1
      <3>7. ~child'[c].ran
        BY <3>2, <3>3, Zenon
      <3> QED BY <3>2, <3>5, <3>6, <3>7 DEF HoldsOutput, Alive
    <2> QED BY <1>6, <2>1, <2>2 DEF Fork
  <1>7. ASSUME NEW c \in Child, ParentCloses(c) \/ ShutdownSend(c) \/ Close(c) \/ SigPipe(c)
        PROVE  HoldsOutput'
    <2>1. child' = child /\ (UNCHANGED pipe \/ \E r, w : pipe' = Dropped("me", r, w))
      BY <1>7 DEF ParentCloses, ShutdownSend, Close, SigPipe, Gone
    <2> QED BY <1>3, <2>1, KeepsOutput
  <1>8. ASSUME NEW c \in Child, Send(c) \/ RecvAll(c) \/ CallFails(c) PROVE HoldsOutput'
    BY <1>8, KeepsOutput DEF Send, RecvAll, CallFails, SendFails, RecvFails, WaitFails
  <1>9. ASSUME NEW c \in Child, SendStep(c) \/ RecvStep(c) PROVE HoldsOutput'
    <2>1. \A p \in PipeNames : pipe'[p].wr = pipe[p].wr
      BY <1>9, SendMoves, RecvMoves
    <2>2. child' = child
      BY <1>9 DEF SendStep, RecvStep
    <2> QED BY <1>1, <2>1, <2>2, KeepsOutput
  <1>10. ASSUME NEW c \in Child, WaitStep(c) PROVE HoldsOutput'
    <2>1. /\ pipe' = pipe /\ child'[c].st = "reaped"
          /\ \A d \in Child : d # c => child'[d] = child[d]
      <3>1. child[c] \in ChildRecord
        BY DEF TypeOK
      <3> QED BY <1>10, <3>1 DEF WaitStep, TypeOK, ChildRecord
    <2> QED BY <2>1 DEF HoldsOutput, Alive
  <1>11. ASSUME NEW c \in Child, ChildSetup(c) PROVE HoldsOutput'
    <2>1. \A d \in Child : d # c => child'[d] = child[d]
      BY <1>11, ChildStarts
    <2>2. child[c].st = "forked"
      BY <1>11 DEF ChildSetup
    <2>3. CASE child'[c].st = "running" /\ pipe' = Dropped(c, {Out(c)}, {In(c)})
      <3>1. \A d \in Child : Out(d) \notin {In(c)}
        BY PipesDiffer
      <3>2. \A d \in Child : d \in pipe[Out(d)].wr => d \in pipe'[Out(d)].wr
        BY <1>4, <2>3, <3>1
      <3> QED BY <2>1, <2>2, <2>3, <3>2 DEF HoldsOutput, Alive
    <2>4. CASE child'[c].st = "exited" /\ pipe' = Gone(c)
      <3>1. \A d \in Child : d # c => (d \in pipe[Out(d)].wr => d \in pipe'[Out(d)].wr)
        BY <1>4, <2>4 DEF Gone
      <3> QED BY <2>1, <2>4, <3>1 DEF HoldsOutput, Alive
    <2> QED BY <1>11, <2>3, <2>4, ChildStarts
  <1>12. ASSUME NEW c \in Child, ChildExit(c) PROVE HoldsOutput'
    <2>1. /\ child'[c].st = "exited" /\ pipe' = Dropped(c, DOMAIN pipe, DOMAIN pipe)
          /\ \A d \in Child : d # c => child'[d] = child[d]
      BY <1>12, ChildEnds
    <2>2. \A d \in Child : d # c => (d \in pipe[Out(d)].wr => d \in pipe'[Out(d)].wr)
      BY <1>4, <2>1
    <2> QED BY <2>1, <2>2 DEF HoldsOutput, Alive
  <1>13. ASSUME NEW c \in Child, ChildRead(c) \/ ChildWrite(c) PROVE HoldsOutput'
    <2>1. /\ child[c].st = "running" /\ child'[c].st = "running"
          /\ \A d \in Child : d # c => child'[d] = child[d]
      BY <1>13, ChildMoves
    <2>2. \A p \in PipeNames : pipe'[p].wr = pipe[p].wr
      <3>1. pipe[In(c)].buf \in Nat /\ pipe[Out(c)].buf \in Nat /\ child[c].held \in Nat
        BY <1>1 DEF TypeOK, PipeRecord, ChildRecord
      <3>2. \E p \in PipeNames, n \in Nat : pipe' = [pipe EXCEPT ![p].buf = n]
        <4>1. CASE ChildRead(c)
          <5>1. PICK k \in 1..pipe[In(c)].buf :
                  pipe' = [pipe EXCEPT ![In(c)].buf = pipe[In(c)].buf - k]
            BY <4>1, ChildMoves
          <5>2. pipe[In(c)].buf - k \in Nat
            BY <3>1
          <5> QED BY <1>1, <5>1, <5>2
        <4>2. CASE ChildWrite(c)
          <5>1. PICK k \in 1..child[c].held :
                  pipe' = [pipe EXCEPT ![Out(c)].buf = pipe[Out(c)].buf + k]
            BY <4>2, ChildMoves
          <5>2. pipe[Out(c)].buf + k \in Nat
            BY <3>1
          <5> QED BY <1>1, <5>1, <5>2
        <4> QED BY <1>13, <4>1, <4>2
      <3> QED BY <3>2, MoveBytes
    <2> QED BY <1>1, <2>1, <2>2 DEF HoldsOutput, Alive
  <1> QED
    BY <1>2, <1>5, <1>6, <1>7, <1>8, <1>9, <1>10, <1>11, <1>12, <1>13
    DEF Next, ChildNext, CallStep, Call

-----------------------------------------------------------------------------
(* run_capture *)

(* The program lives, and the call in progress is the one run_capture has  *)
(* come to.                                                                *)
StageCall ==
  /\ op.at # "killed"
  /\ op.at \in {"opened", "fork", "forked"} => stage = "spawn"
  /\ op.at = "send" => stage = "send"
  /\ op.at = "recv" => stage = "recv"
  /\ op.at = "wait" => stage = "close"

(* run_capture starts one child. *)
OneChild ==
  /\ \A c, d \in Child : child[c].st # "none" /\ child[d].st # "none" => c = d
  /\ stage \in {"spawn", "failed"} /\ op.at # "forked" => \A c \in Child : child[c].st = "none"

(* It keeps the reading end until it has read everything. *)
OutKept ==
  stage \in {"send", "shutdown", "recv"} =>
    \A c \in Child : child[c].st # "none" => "out" \in obj[c]

(* A child that ran and exited has passed everything on, and no more comes, *)
(* unless a read of its output failed.                                      *)
Finished ==
  \A c \in Child \ cut : child[c].ran /\ ~Alive(c) =>
    pipe[In(c)].buf = 0 /\ child[c].held = 0 /\ "me" \notin pipe[In(c)].wr

(* After recv_all nothing is left to read, and nobody to write, likewise. *)
Drained ==
  stage \in {"close", "done"} => \A c \in Child \ cut : pipe[Out(c)].buf = 0 /\ ~Alive(c)

Capture == StageCall /\ OneChild /\ OutKept /\ Finished /\ Drained
CaptureInv == stage # "free" => Capture \/ (op.at = "killed" /\ stage = "send")

(* Only a read that fails is noted. *)
LEMMA SameCut ==
  ASSUME NEW c \in Child, ChildNext(c) \/ CallStep(c) \/ Call(c)
  PROVE  cut' = cut
BY DEF ChildNext, CallStep, Call, OpenIn, OpenOut, Fork, ParentCloses, ChildSetup, Send, SendStep,
       SigPipe, ShutdownSend, RecvAll, RecvStep, Close, WaitStep, ChildRead, ChildWrite, ChildExit

(* popen as the first call of run_capture. *)
LEMMA PopenCapture ==
  ASSUME TypeOK, FdInv, Capture, stage # "free", NEW c \in Child,
         OpenIn(c) \/ OpenOut(c) \/ Fork(c)
  PROVE  Capture'
  <1> USE DEF Capture
  <1>cut. cut' = cut
    BY SameCut DEF CallStep, Call
  <1> USE <1>cut
  <1>1. stage = "spawn" /\ op.at \in {"idle", "opened", "fork"}
    <2>1. (op.at = "idle" /\ stage = "spawn") \/ op.at = "opened" \/ op.at = "fork"
      <3>1. OpenIn(c) => op.at = "idle" /\ stage = "spawn"
        BY DEF OpenIn, May, Idle
      <3>2. OpenOut(c) => op.at = "opened"
        BY DEF OpenOut
      <3>3. Fork(c) => op.at = "fork"
        BY DEF Fork
      <3> QED BY <3>1, <3>2, <3>3
    <2> QED BY <2>1 DEF StageCall
  <1>2. \A d \in Child : child[d].st = "none" /\ ~child[d].ran
    BY <1>1 DEF OneChild, FdInv, Unborn
  <1>3. \/ op'.at = "idle" /\ stage' = "failed"
        \/ op'.at \in {"opened", "fork", "forked"} /\ stage' = "spawn"
    <2>1. Ends("failed") => op'.at = "idle" /\ stage' = "failed"
      BY DEF Ends, Idle
    <2>2. ASSUME OpenIn(c), ~Ends("failed") PROVE op'.at = "opened" /\ stage' = stage
      BY <2>2 DEF OpenIn
    <2>3. ASSUME OpenOut(c), ~Ends("failed") PROVE op'.at = "fork" /\ stage' = stage
      <3>1. op' = [op EXCEPT !.at = "fork"] /\ stage' = stage
        BY <2>3 DEF OpenOut
      <3> QED BY <3>1 DEF TypeOK, CallRecord
    <2>4. ASSUME Fork(c), ~Ends("failed") PROVE op'.at = "forked" /\ stage' = stage
      <3>1. op' = [op EXCEPT !.at = "forked"] /\ stage' = stage
        BY <2>4 DEF Fork
      <3> QED BY <3>1 DEF TypeOK, CallRecord
    <2> QED BY <1>1, <2>1, <2>2, <2>3, <2>4
  <1>5. CASE child' = child
    <2>1. OneChild' /\ OutKept' /\ Drained'
      BY <1>2, <1>3, <1>5 DEF OneChild, OutKept, Drained
    <2>2. Finished'
      BY <1>2, <1>5 DEF Finished
    <2> QED BY <1>3, <2>1, <2>2 DEF StageCall
  <1>6. CASE Fork(c) /\ child' = [child EXCEPT ![c].st = "forked"] /\ op' = [op EXCEPT !.at = "forked"]
    <2>1. op'.at = "forked"
      BY <1>6 DEF TypeOK, CallRecord
    <2>2. \A d \in Child : /\ child'[d].ran = child[d].ran
                           /\ child'[d].st = IF d = c THEN "forked" ELSE child[d].st
      BY <1>6, ChildEnters
    <2>3. \A d \in Child : ~child'[d].ran
      BY <1>2, <2>2, Zenon
    <2>4. \A d \in Child : child'[d].st # "none" => d = c
      BY <1>2, <2>2
    <2> QED BY <1>3, <2>1, <2>3, <2>4 DEF StageCall, OneChild, OutKept, Finished, Drained
  <1> QED BY <1>5, <1>6 DEF OpenIn, OpenOut, Fork

(* popen ends, and run_capture goes on to send. *)
LEMMA ParentCapture ==
  ASSUME TypeOK, FdInv, Capture, stage # "free", NEW c \in Child, ParentCloses(c)
  PROVE  Capture'
  <1> USE DEF Capture
  <1>cut. cut' = cut
    BY SameCut DEF CallStep, Call
  <1> USE <1>cut
  <1>1. child[c].st # "none" /\ op'.at = "idle" /\ stage' = "send" /\ child' = child
    BY DEF ParentCloses, FdInv, InCall, Ends, Idle
  <1>2. obj'[c] = {"in", "out"}
    BY DEF ParentCloses, TypeOK
  <1>3. OutKept'
    BY <1>1, <1>2 DEF OutKept, OneChild
  <1>4. \A d \in Child : /\ pipe'[In(d)].buf = pipe[In(d)].buf
                         /\ "me" \in pipe'[In(d)].wr => "me" \in pipe[In(d)].wr
    <2>1. \E r, w : pipe' = Dropped("me", r, w)
      BY DEF ParentCloses
    <2> QED BY <2>1, MyEnds, PipesDiffer
  <1>5. Finished'
    BY <1>1, <1>4 DEF Finished, Alive
  <1> QED BY <1>1, <1>3, <1>5 DEF StageCall, OneChild, Drained

(* The input is sent, while a child may still be there to read it. *)
LEMMA SendCapture ==
  ASSUME TypeOK, FdInv, Capture, stage # "free", NEW c \in Child, Send(c) \/ SendStep(c)
  PROVE  Capture'
  <1> USE DEF Capture
  <1>cut. cut' = cut
    BY SameCut DEF CallStep, Call
  <1> USE <1>cut
  <1>1. stage = "send" /\ UNCHANGED <<obj, child>>
    BY DEF Send, SendStep, May, StageCall
  <1>2. (op'.at = "send" /\ stage' = "send") \/ (op'.at = "idle" /\ stage' = "shutdown")
    BY <1>1 DEF Send, SendStep, Ends, Idle, TypeOK, CallRecord
  <1>3. Finished'
    <2>1. CASE Send(c)
      <3>1. pipe' = pipe
        BY <2>1 DEF Send
      <3> QED BY <1>1, <3>1 DEF Finished, Alive
    <2>2. CASE SendStep(c)
      <3>1. "me" \in pipe[In(c)].wr
        BY <2>2 DEF SendStep, FdInv, InCall, OwnEnds
      <3>2. /\ \A p \in PipeNames : pipe'[p].wr = pipe[p].wr
            /\ \A d \in Child : d # c => pipe'[In(d)].buf = pipe[In(d)].buf
        BY <2>2, SendMoves
      <3>3. \A d \in Child : In(d) \in PipeNames
        BY PipesDiffer
      <3> QED BY <1>1, <3>1, <3>2, <3>3 DEF Finished, Alive
    <2> QED BY <2>1, <2>2
  <1> QED BY <1>1, <1>2, <1>3 DEF StageCall, OneChild, OutKept, Drained

(* shutdown_send, and the call of recv_all. *)
LEMMA ShutdownCapture ==
  ASSUME TypeOK, FdInv, Capture, stage # "free", NEW c \in Child, ShutdownSend(c) \/ RecvAll(c)
  PROVE  Capture'
  <1> USE DEF Capture
  <1>cut. cut' = cut
    BY SameCut DEF CallStep, Call
  <1> USE <1>cut
  <1>1. CASE ShutdownSend(c)
    <2>1. stage = "shutdown" /\ stage' = "recv" /\ op'.at = "idle" /\ child' = child
      BY <1>1 DEF ShutdownSend, May, Ends, Idle
    <2>2. \A d \in Child : "out" \in obj[d] => "out" \in obj'[d]
      BY <1>1 DEF ShutdownSend, TypeOK
    <2>3. \A d \in Child : /\ pipe'[In(d)].buf = pipe[In(d)].buf
                           /\ "me" \in pipe'[In(d)].wr => "me" \in pipe[In(d)].wr
      <3>1. pipe' = pipe \/ \E r, w : pipe' = Dropped("me", r, w)
        BY <1>1 DEF ShutdownSend
      <3> QED BY <3>1, MyEnds, PipesDiffer
    <2>4. Finished'
      BY <2>1, <2>3 DEF Finished, Alive
    <2> QED BY <2>1, <2>2, <2>4 DEF StageCall, OneChild, OutKept, Drained
  <1>2. CASE RecvAll(c)
    <2>1. stage = "recv" /\ op'.at = "recv" /\ UNCHANGED <<pipe, obj, child, stage>>
      BY <1>2 DEF RecvAll, May
    <2> QED BY <2>1 DEF StageCall, OneChild, OutKept, Finished, Alive, Drained
  <1> QED BY <1>1, <1>2

(* recv_all ends with the last writer: the child has exited by then. *)
LEMMA RecvCapture ==
  ASSUME TypeOK, FdInv, HoldsOutput, Capture, stage # "free", NEW c \in Child, RecvStep(c)
  PROVE  Capture'
  <1> USE DEF Capture
  <1>cut. cut' = cut
    BY SameCut DEF CallStep, Call
  <1> USE <1>cut
  <1>1. stage = "recv" /\ child[c].st # "none" /\ UNCHANGED <<obj, child>>
    BY DEF RecvStep, StageCall, FdInv, InCall
  <1>2. \A d \in Child : /\ pipe'[In(d)].buf = pipe[In(d)].buf /\ pipe'[In(d)].wr = pipe[In(d)].wr
                         /\ d # c => pipe'[Out(d)].buf = pipe[Out(d)].buf
    BY RecvMoves, PipesDiffer
  <1>3. Finished'
    BY <1>1, <1>2 DEF Finished, Alive
  <1>4. CASE UNCHANGED <<op, stage>>
    BY <1>1, <1>3, <1>4 DEF StageCall, OneChild, OutKept, Drained
  <1>5. CASE pipe[Out(c)].buf = 0 /\ pipe[Out(c)].wr = {} /\ Ends("close") /\ UNCHANGED <<pipe, got>>
    <2>1. op'.at = "idle" /\ stage' = "close"
      BY <1>1, <1>5 DEF Ends, Idle
    <2>2. ~Alive(c)
      BY <1>5 DEF HoldsOutput
    <2>3. \A d \in Child : d # c => child[d].st = "none" /\ pipe[Out(d)].buf = 0
      BY <1>1 DEF OneChild, FdInv, Unborn
    <2>4. Drained'
      BY <1>1, <1>5, <2>2, <2>3 DEF Drained, Alive
    <2> QED BY <1>1, <1>3, <2>1, <2>4 DEF StageCall, OneChild, OutKept
  <1> QED BY <1>4, <1>5 DEF RecvStep

(* close and the wait for the child. *)
LEMMA CloseCapture ==
  ASSUME TypeOK, FdInv, Capture, stage # "free", NEW c \in Child, Close(c) \/ WaitStep(c)
  PROVE  Capture'
  <1> USE DEF Capture
  <1>cut. cut' = cut
    BY SameCut DEF CallStep, Call
  <1> USE <1>cut
  <1>1. CASE Close(c)
    <2>1. stage = "close" /\ stage' = "close" /\ op'.at = "wait" /\ child' = child
      BY <1>1 DEF Close, May
    <2>2. \A d \in Child : /\ pipe'[In(d)].buf = pipe[In(d)].buf /\ pipe'[Out(d)].buf = pipe[Out(d)].buf
                           /\ "me" \in pipe'[In(d)].wr => "me" \in pipe[In(d)].wr
      <3>1. \E r, w : pipe' = Dropped("me", r, w)
        BY <1>1 DEF Close
      <3> QED BY <3>1, MyEnds, PipesDiffer
    <2>3. Finished' /\ Drained'
      BY <2>1, <2>2 DEF Finished, Drained, Alive
    <2> QED BY <2>1, <2>3 DEF StageCall, OneChild, OutKept
  <1>2. CASE WaitStep(c)
    <2>1. stage = "close" /\ stage' = "done" /\ op'.at = "idle" /\ pipe' = pipe /\ child[c].st = "exited"
      BY <1>2 DEF WaitStep, StageCall, Ends, Idle
    <2>2. \A d \in Child : /\ child'[d].held = child[d].held /\ child'[d].ran = child[d].ran
                           /\ child'[d].st = IF d = c THEN "reaped" ELSE child[d].st
      BY <1>2, ChildEnters DEF WaitStep
    <2>3. \A d \in Child : (Alive(d)' <=> Alive(d)) /\ (child'[d].st # "none" <=> child[d].st # "none")
      BY <2>1, <2>2 DEF Alive
    <2>4. \A d \in Child : child'[d].ran <=> child[d].ran
      BY <2>2, Zenon
    <2>5. Finished'
      BY <2>1, <2>2, <2>3, <2>4 DEF Finished
    <2>6. Drained'
      BY <2>1, <2>3 DEF Drained
    <2> QED BY <2>1, <2>3, <2>5, <2>6 DEF StageCall, OneChild, OutKept
  <1> QED BY <1>1, <1>2

(* The child: it exits with bytes in hand only when nobody reads its       *)
(* output, and run_capture reads it to the end.                            *)
LEMMA ChildCapture ==
  ASSUME TypeOK, FdInv, HoldsOutput, Capture, stage # "free", NEW c \in Child, ChildNext(c)
  PROVE  Capture'
  <1> USE DEF Capture
  <1>cut. cut' = cut
    BY SameCut DEF CallStep, Call
  <1> USE <1>cut
  <1>1. /\ UNCHANGED <<obj, op, sent, got, stage>>
        /\ Alive(c) /\ child[c].st # "none" /\ child'[c].st # "none"
        /\ \A d \in Child : d # c => /\ child'[d] = child[d]
                                     /\ pipe'[In(d)].buf = pipe[In(d)].buf
        /\ \A d \in Child : "me" \in pipe'[In(d)].wr <=> "me" \in pipe[In(d)].wr
    BY ChildStep, PipesDiffer DEF Alive
  <1>3. StageCall' /\ OutKept' /\ OneChild'
    BY <1>1 DEF StageCall, OutKept, OneChild
  <1>others. \A d \in Child : d # c => /\ Alive(d)' <=> Alive(d)
                                      /\ pipe'[Out(d)].buf = pipe[Out(d)].buf
    BY <1>1, ChildStep DEF Alive
  <1>4. CASE c \in cut
    <2>1. Finished'
      BY <1>1, <1>4, <1>others DEF Finished
    <2>2. Drained'
      BY <1>1, <1>4, <1>others DEF Drained
    <2> QED BY <1>3, <2>1, <2>2
  <1> SUFFICES ASSUME c \notin cut PROVE Capture'
    BY <1>4
  <1>2. stage \notin {"close", "done"} /\ Drained'
    BY <1>1 DEF Drained
  <1>5. "me" \in pipe[Out(c)].rd
    <2>1. CASE stage \in {"send", "shutdown", "recv"}
      BY <1>1, <2>1 DEF StageCall, OutKept, FdInv, OwnEnds
    <2>2. CASE stage \in {"spawn", "failed"}
      <3>1. op.at = "forked"
        BY <1>1, <2>2 DEF OneChild
      <3>2. op.of = c
        BY <1>1, <3>1 DEF FdInv, InCall, OneChild
      <3> QED BY <3>1, <3>2 DEF FdInv, OwnEnds, Forking
    <2> QED BY <1>2, <2>1, <2>2 DEF TypeOK, StageNames
  <1>6. SUFFICES ASSUME child'[c].ran, ~Alive(c)'
                 PROVE  pipe'[In(c)].buf = 0 /\ child'[c].held = 0 /\ "me" \notin pipe'[In(c)].wr
    <2>1. Finished'
      BY <1>1, <1>6, <1>others DEF Finished
    <2> QED BY <1>2, <1>3, <2>1
  <1>7. CASE ChildSetup(c)
    <2>1. child'[c].st # "running" /\ ~child[c].ran
      BY <1>6, <1>7 DEF Alive, HoldsOutput, ChildSetup
    <2>2. child'[c].ran = child[c].ran
      BY <1>7, <2>1, ChildStarts
    <2>3. FALSE
      BY <1>6, <2>1, <2>2, Zenon
    <2> QED BY <2>3
  <1>8. CASE ChildRead(c) \/ ChildWrite(c)
    BY <1>6, <1>8, ChildMoves DEF Alive
  <1>9. CASE ChildExit(c)
    <2>1. child[c].held = 0 /\ pipe[In(c)].buf = 0 /\ pipe[In(c)].wr = {}
      BY <1>5, <1>9 DEF ChildExit
    <2>2. child'[c].held = child[c].held /\ pipe' = Dropped(c, DOMAIN pipe, DOMAIN pipe)
      BY <1>9, ChildEnds
    <2>3. pipe'[In(c)].buf = pipe[In(c)].buf
      BY <2>2, OthersEnds, PipesDiffer
    <2> QED BY <1>1, <2>1, <2>2, <2>3
  <1> QED BY <1>7, <1>8, <1>9 DEF ChildNext

(* A call that fails: what recv_all missed is noted. *)
LEMMA FailCapture ==
  ASSUME TypeOK, FdInv, Capture, stage # "free", NEW c \in Child, CallFails(c)
  PROVE  Capture'
  <1> USE DEF Capture
  <1>1. op'.at = "idle" /\ UNCHANGED <<pipe, obj, child>> /\ cut \subseteq cut'
    BY DEF CallFails, SendFails, RecvFails, WaitFails, Ends, Idle
  <1>2. /\ SendFails(c) => stage = "send" /\ stage' = "shutdown"
        /\ RecvFails(c) => stage = "recv" /\ stage' = "close" /\ c \in cut' /\ child[c].st # "none"
        /\ WaitFails(c) => stage = "close" /\ stage' = "done"
    BY DEF SendFails, RecvFails, WaitFails, Ends, StageCall, FdInv, InCall
  <1>3. SendFails(c) \/ RecvFails(c) \/ WaitFails(c)
    BY DEF CallFails
  <1>4. Finished'
    BY <1>1 DEF Finished, Alive
  <1>5. Drained'
    <2>1. CASE RecvFails(c)
      <3>1. \A d \in Child : d # c => child[d].st = "none" /\ pipe[Out(d)].buf = 0
        BY <1>2, <2>1 DEF OneChild, FdInv, Unborn
      <3> QED BY <1>1, <1>2, <2>1, <3>1 DEF Drained, Alive
    <2>2. CASE WaitFails(c) \/ SendFails(c)
      BY <1>1, <1>2, <2>2 DEF Drained, Alive
    <2> QED BY <1>3, <2>1, <2>2
  <1>6. StageCall' /\ OneChild' /\ OutKept'
    BY <1>1, <1>2, <1>3 DEF StageCall, OneChild, OutKept
  <1> QED BY <1>4, <1>5, <1>6

(* Every step of run_capture keeps its invariant. *)
LEMMA NextCapture ==
  TypeOK /\ FdInv /\ HoldsOutput /\ CaptureInv /\ [Next]_vars => CaptureInv'
  <1> SUFFICES ASSUME TypeOK, FdInv, HoldsOutput, CaptureInv, [Next]_vars, stage' # "free"
               PROVE  Capture' \/ (op'.at = "killed" /\ stage' = "send")
    BY DEF CaptureInv
  <1>1. stage # "free"
    BY DEF Next, ChildNext, CallStep, CallFails, Call, OpenIn, OpenOut, Fork, ParentCloses,
           ChildSetup, Send, SendStep, SigPipe, SendFails, ShutdownSend, RecvAll, RecvStep,
           RecvFails, Close, WaitStep, WaitFails, ChildRead, ChildWrite, ChildExit, Ends, vars
  <1>2. CASE Capture
    <2>1. CASE UNCHANGED vars
      BY <1>2, <2>1
      DEF vars, Capture, StageCall, OneChild, OutKept, Finished, Drained, Alive
    <2>2. ASSUME NEW c \in Child, SigPipe(c) PROVE op'.at = "killed" /\ stage' = "send"
      BY <1>1, <1>2, <2>2 DEF SigPipe, Capture, StageCall, TypeOK, CallRecord
    <2>3. ASSUME NEW c \in Child, ~SigPipe(c), ChildNext(c) \/ CallStep(c) \/ CallFails(c) \/ Call(c)
          PROVE  Capture'
      BY <1>1, <1>2, <2>3, PopenCapture, ParentCapture, SendCapture, ShutdownCapture,
         RecvCapture, CloseCapture, FailCapture, ChildCapture
      DEF CallStep, Call
    <2> QED BY <2>1, <2>2, <2>3 DEF Next
  <1>3. CASE op.at = "killed" /\ stage = "send"
    <2>1. ASSUME NEW c \in Child PROVE ~CallStep(c) /\ ~CallFails(c)
      BY <1>3 DEF CallStep, CallFails, OpenOut, Fork, ParentCloses, SendStep, SigPipe, RecvStep,
                  WaitStep, SendFails, RecvFails, WaitFails
    <2>2. ASSUME NEW c \in Child PROVE ~Call(c)
      <3>1. op # Idle
        BY <1>3 DEF Idle
      <3> QED BY <3>1 DEF Call, OpenIn, Send, ShutdownSend, RecvAll, Close, May
    <2>3. UNCHANGED <<op, stage>>
      BY <2>1, <2>2 DEF Next, vars, ChildNext, ChildSetup, ChildRead, ChildWrite, ChildExit
    <2> QED BY <1>3, <2>3
  <1> QED BY <1>1, <1>2, <1>3 DEF CaptureInv

(* Whatever the child and the pipes do to the order of the steps, when     *)
(* run_capture returns it has everything the child wrote, and a copying    *)
(* child that ran has passed on everything that was sent, whichever calls  *)
(* failed, unless it was a read.                                           *)
THEOREM CaptureWhole == Spec => []CapturedWhole
  <1> DEFINE I == TypeOK /\ FdInv /\ Conserved /\ HoldsOutput /\ CaptureInv
  <1>1. Init => I
    <2> SUFFICES ASSUME Init PROVE Conserved /\ HoldsOutput /\ CaptureInv
      BY InitType, InitFd
    <2>1. \A c \in Child : child[c].st = "none"
      BY DEF Init
    <2>2. \A c \in Child : /\ pipe[In(c)].buf = 0 /\ pipe[Out(c)].buf = 0 /\ ~child[c].ran
                           /\ child[c].held = 0 /\ child[c].wrote = 0 /\ sent[c] = 0 /\ got[c] = 0
      BY <2>1, InitFd DEF FdInv, Unborn
    <2>3. Conserved
      BY <2>2 DEF Conserved
    <2>4. HoldsOutput
      BY <2>1 DEF HoldsOutput, Alive
    <2>5. op.at = "idle" /\ stage \in {"free", "spawn"}
      BY SubprocessAssumption DEF Init, Idle
    <2>6. CaptureInv
      BY <2>1, <2>2, <2>5
      DEF CaptureInv, Capture, StageCall, OneChild, OutKept, Finished, Drained
    <2> QED BY <2>3, <2>4, <2>6
  <1>2. I /\ [Next]_vars => I'
    BY NextType, NextFd, NextConserved, NextHoldsOutput, NextCapture
  <1>3. I => CapturedWhole
    <2> SUFFICES ASSUME I, stage = "done", NEW c \in Child \ cut
                 PROVE  /\ got[c] = child[c].wrote
                        /\ child[c].ran => child[c].wrote = sent[c]
      BY DEF CapturedWhole
    <2>1. pipe[Out(c)].buf = 0 /\ ~Alive(c)
      BY DEF CaptureInv, Capture, Drained
    <2>2. child[c].ran => pipe[In(c)].buf = 0 /\ child[c].held = 0
      BY <2>1 DEF CaptureInv, Capture, Finished
    <2>3. child[c].wrote \in Nat /\ got[c] \in Nat
      BY DEF TypeOK, ChildRecord
    <2> QED BY <2>1, <2>2, <2>3 DEF Conserved
  <1> QED BY <1>1, <1>2, <1>3, PTL DEF Spec
=============================================================================
