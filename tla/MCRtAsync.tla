------------------------------ MODULE MCRtAsync ------------------------------
(* Instances of RtAsync for TLC.  Handles are interchangeable, and the     *)
(* invariants name none of them, so the safety run uses their symmetry.    *)
EXTENDS RtAsync, TLC

CONSTANTS h1, h2, h3

HandleSymmetry == Permutations(Handles)

Program(room, kinds, fds, share, reawait) ==
  [room |-> room, kinds |-> kinds, fds |-> fds, share |-> share, reawait |-> reawait]

(* A program without scruples *)
AnyPrograms ==
  {Program(Handles, {"CALL", "TIMER", "WAIT_FD", "WRITE_ALL"}, {"open", "neg"}, TRUE, TRUE)}

(* One that awaits what it creates where it created it, with every kind of *)
(* task; and one that passes handles on, which takes three to go wrong.    *)
AwaitOncePrograms ==
  {Program({h1, h2}, AllKinds, {"open"}, FALSE, FALSE),
   Program(Handles, {"CALL", "TIMER"}, {"open"}, TRUE, FALSE)}
=============================================================================
