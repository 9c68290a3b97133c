------------------------------ MODULE FindBytes ------------------------------
(***************************************************************************)
(* rt_async_find_bytes (src/rt/os.c): where a needle first occurs in a     *)
(* buffer.  Short inputs are searched position by position; longer ones    *)
(* with a table that says, for the byte under the needle's end, how far    *)
(* the needle may be moved on.  One step is one turn of a loop.            *)
(***************************************************************************)
EXTENDS Integers, Sequences

CONSTANTS
  Byte,      \* the alphabet
  Hays,      \* buffers searched
  Needles,   \* needles searched for
  Short      \* buffers shorter than this are searched plainly (64)

ASSUME InputAssumption == Hays \subseteq Seq(Byte) /\ Needles \subseteq Seq(Byte) /\ Short \in Nat

VARIABLES pc, hay, needle, pos, skip, i, result

vars == <<pc, hay, needle, pos, skip, i, result>>

NotFound == -1
last == Len(needle) - 1

(* memcmp, and the comparison from the needle's end: the needle is at p *)
Match(p) == \A j \in 1..Len(needle) : hay[p + j] = needle[j]
Fits(p) == p <= Len(hay) - Len(needle)

Init ==
  /\ pc = "start"
  /\ hay \in Hays /\ needle \in Needles
  /\ pos = 0 /\ i = 0
  /\ skip = [c \in Byte |-> 0]
  /\ result = NotFound

Return(r) ==
  /\ pc' = "done"
  /\ result' = r
  /\ UNCHANGED <<hay, needle, pos, skip, i>>

Goto(label) == pc' = label /\ UNCHANGED <<hay, needle, pos, i, result>>

(* The early returns and the choice of the method *)
Start ==
  /\ pc = "start"
  /\ \/ Len(needle) = 0 /\ Return(0)
     \/ Len(needle) > 0 /\ Len(hay) < Len(needle) /\ Return(NotFound)
     \/ /\ Len(needle) > 0 /\ Len(hay) >= Len(needle)
        /\ Len(needle) <= 2 \/ Len(hay) < Short
        /\ Goto("plain") /\ UNCHANGED skip
     \/ /\ Len(needle) > 2 /\ Len(hay) >= Len(needle) /\ Len(hay) >= Short
        /\ Goto("build")
        /\ skip' = [c \in Byte |-> Len(needle)]

Plain ==
  /\ pc = "plain"
  /\ \/ Fits(pos) /\ Match(pos) /\ Return(pos)
     \/ Fits(pos) /\ ~Match(pos) /\ pos' = pos + 1 /\ UNCHANGED <<pc, hay, needle, skip, i, result>>
     \/ ~Fits(pos) /\ Return(NotFound)

(* Fault: the needle's last byte is entered in the table too *)
BuildLastToo ==
  /\ pc = "build"
  /\ \/ /\ i <= last
        /\ skip' = [skip EXCEPT ![needle[i + 1]] = last - i]
        /\ i' = i + 1
        /\ UNCHANGED <<pc, hay, needle, pos, result>>
     \/ i > last /\ Goto("search") /\ UNCHANGED skip

(* The table, from the needle's first byte to the one before its last: a   *)
(* later occurrence of a byte overwrites an earlier one.                   *)
Build ==
  /\ pc = "build"
  /\ \/ /\ i < last
        /\ skip' = [skip EXCEPT ![needle[i + 1]] = last - i]
        /\ i' = i + 1
        /\ UNCHANGED <<pc, hay, needle, pos, result>>
     \/ i >= last /\ Goto("search") /\ UNCHANGED skip

(* Fault: the needle is moved on as if its length were the distance *)
SearchTooFar ==
  /\ pc = "search"
  /\ \/ Fits(pos) /\ Match(pos) /\ Return(pos)
     \/ /\ Fits(pos) /\ ~Match(pos)
        /\ pos' = pos + Len(needle)
        /\ UNCHANGED <<pc, hay, needle, skip, i, result>>
     \/ ~Fits(pos) /\ Return(NotFound)

Search ==
  /\ pc = "search"
  /\ \/ Fits(pos) /\ Match(pos) /\ Return(pos)
     \/ /\ Fits(pos) /\ ~Match(pos)
        /\ pos' = pos + skip[hay[pos + last + 1]]
        /\ UNCHANGED <<pc, hay, needle, skip, i, result>>
     \/ ~Fits(pos) /\ Return(NotFound)

Next == Start \/ Plain \/ Build \/ Search

Spec == Init /\ [][Next]_vars

-----------------------------------------------------------------------------
(* Properties *)

Occurs(p) == Fits(p) /\ Match(p)

(* What rt_async_find_bytes returns is the first position of the needle,   *)
(* or -1 when it occurs nowhere, whichever method was used.                *)
FirstOccurrence ==
  pc = "done" =>
    \/ result \in 0..Len(hay) /\ Occurs(result) /\ \A p \in 0..(result - 1) : ~Occurs(p)
    \/ result = NotFound /\ \A p \in 0..Len(hay) : ~Occurs(p)

(* The table is used as it should be: a shift is never 0, and never moves  *)
(* the needle past a position where its byte could be under the buffer's.  *)
ShiftsSafe ==
  /\ pc \in {"build", "search"} => \A c \in Byte : skip[c] \in 1..Len(needle)
  /\ pc = "search" => \A k \in 1..last : skip[needle[k]] <= last - (k - 1)

(* The search ends: no entry of the table lets it stand still. *)
Terminates == (pc = "start") ~> (pc = "done")
=============================================================================
