------------------------------- MODULE MCNyGc -------------------------------
(* Instances of NyGc for TLC.  Root slots are interchangeable. *)
EXTENDS NyGc, TLC

RootSymmetry == Permutations(Roots)

Program(ops, sizes, backward, nursery, tenured, identities) ==
  [ops |-> ops, sizes |-> sizes, backward |-> backward,
   nursery |-> nursery, tenured |-> tenured, identities |-> identities]

(* Everything but loads, with marks of its own *)
AnyProgram == Program(AllOps \ {"load"}, {1}, TRUE, 5, 3, FALSE)

(* Programs that tell their objects apart: survivors slide in the nursery; *)
(* objects are promoted, compacted and refer both ways; one of the objects *)
(* is large; root slots are registered twice.                              *)
SlidingProgram == Program({"fast", "store", "clear", "minor", "major"}, {1}, TRUE, 4, 2, TRUE)
AgeingProgram == Program({"alloc", "store", "load", "clear", "minor", "major"}, {1}, TRUE, 2, 4, TRUE)
WideProgram == Program({"alloc", "store", "clear", "minor", "major"}, {1, 2}, TRUE, 2, 0, TRUE)
RootedProgram == Program({"alloc", "root", "unroot", "minor", "major"}, {1}, TRUE, 4, 4, TRUE)

AllPrograms == {AnyProgram, SlidingProgram, AgeingProgram, WideProgram, RootedProgram}

(* A program that tells its objects apart is followed until one is lost. *)
UntilLost == prog.identities => RefsIntact

(* A program that asks for major collections *)
MajorPrograms == {Program({"fast", "minor", "major"}, {1}, TRUE, 4, 4, TRUE)}
=============================================================================
