------------------------------ MODULE ReadUntil ------------------------------
(***************************************************************************)
(* Reading a socket up to a delimiter, in its two implementations: the     *)
(* RT_ASYNC_READ_UNTIL task of src/rt/os.c, which keeps what it received   *)
(* in a buffer that grows by doubling and searches that buffer with        *)
(* rt_async_find_bytes, the steps of FindBytes; and read_socket_until of   *)
(* lib/os/net/socket.ny, which joins strings in a loop.  recv hands the    *)
(* bytes the peer sent on in chunks of any size.                           *)
(***************************************************************************)
EXTENDS FindBytes, FiniteSetsExt, SequencesExt

CONSTANTS
  Limits,      \* the max_bytes arguments
  DefaultLen,  \* max_bytes when the argument is not positive (65536)
  MaxLen,      \* the largest max_bytes (1048576)
  FirstCap,    \* the buffer's first size (256)
  Chunk        \* the most one recv asks for (4096)

ASSUME SizesPositive == {DefaultLen, MaxLen, FirstCap, Chunk} \subseteq Nat \ {0}
ASSUME LimitsAssumption == Limits \subseteq Int

VARIABLES
  impl,    \* "task" or "loop": the implementation that reads
  stream,  \* what the peer sends before it closes, one of Hays
  given,   \* bytes of the stream recv has handed out
  len,     \* the limit
  cap,     \* the size of the allocation that holds the bytes received, hay
  phase,   \* "search", "recv" or "done"
  answer,  \* the string returned
  failed   \* recv or an allocation failed

search == <<pc, pos, skip, i, result>>
untilVars == <<vars, impl, stream, given, len, cap, phase, answer, failed>>

(* The library's find, and where the properties expect the delimiter *)
Found(h) == {p \in 0..(Len(h) - Len(needle)) : SubSeq(h, p + 1, p + Len(needle)) = needle}
UpTo(h, p) == SubSeq(h, 1, p + Len(needle))

Smaller(a, b) == IF a < b THEN a ELSE b

Clamp(n) == IF n <= 0 THEN DefaultLen ELSE Smaller(n, MaxLen)

(* rt_async_read_until_finish; lost: something failed before.  When the    *)
(* string cannot be allocated the result is an empty one.                  *)
Finish(s, lost) ==
  /\ phase' = "done"
  /\ \/ answer' = s /\ failed' = lost
     \/ answer' = <<>> /\ failed' = TRUE

(* Both implementations start with nothing received. *)
Begin(clamped) ==
  /\ stream \in Hays /\ needle \in Needles
  /\ len \in {clamped[n] : n \in Limits}
  /\ given = 0 /\ hay = <<>>
  /\ pos = 0 /\ i = 0 /\ result = NotFound /\ skip = [c \in Byte |-> 0]
  /\ answer = <<>>

(* rt_async_read_socket_until; either malloc may fail, and the task is     *)
(* then complete with an empty string.                                     *)
TaskInit ==
  /\ impl = "task"
  /\ Begin([n \in Limits |-> Clamp(n)])
  /\ cap = Smaller(len, FirstCap)
  /\ \/ phase = "search" /\ pc = "start" /\ failed = FALSE
     \/ phase = "done" /\ pc = "idle" /\ failed = TRUE

-----------------------------------------------------------------------------
(* The task: rt_async_progress_task, RT_ASYNC_READ_UNTIL *)

(* while(next_cap < need) next_cap *= 2 *)
Doubled(c, need) ==
  LET next_cap[n \in Nat \ {0}] == IF n < need THEN next_cap[n * 2] ELSE n
  IN next_cap[c]

(* Fault: the new size is not limited by what the task may keep *)
NextCapUnlimited(need) == Doubled(cap, need)

NextCap(need) == Smaller(Doubled(cap, need), len)

(* rt_async_read_until_append with the memory it asks for: false if the    *)
(* bytes do not fit the largest buffer.                                    *)
CanAppend(chunk) == LET need == Len(hay) + Len(chunk) IN need <= cap \/ NextCap(need) >= need

AppendChunk(chunk) ==
  LET need == Len(hay) + Len(chunk) IN
  /\ hay' = hay \o chunk
  /\ cap' = IF need <= cap THEN cap ELSE NextCap(need)

(* Fault: the search goes on where the last one ended *)
CallFindOnward ==
  /\ pc' = "start" /\ i' = 0 /\ result' = NotFound /\ pos' = Len(hay)
  /\ skip' = [c \in Byte |-> 0]

(* rt_async_find_bytes is called on everything received *)
CallFind ==
  /\ pc' = "start" /\ i' = 0 /\ result' = NotFound /\ pos' = 0
  /\ skip' = [c \in Byte |-> 0]

(* What follows a recv that returned bytes *)
Received(chunk) ==
  \/ /\ CanAppend(chunk)
     /\ AppendChunk(chunk)
     /\ CallFind
     /\ phase' = "search"
     /\ UNCHANGED <<answer, failed>>
  \/ /\ Len(hay) + Len(chunk) > cap    \* refused, or realloc returns no memory
     /\ Finish(hay, CanAppend(chunk))
     /\ UNCHANGED <<hay, cap, search>>

(* recv, asked for at most want bytes, hands out some of those sent *)
Handed(want) == {SubSeq(stream, given + 1, given + n) : n \in 1..Smaller(want, Len(stream) - given)}

(* The search runs: its loops are the steps of FindBytes. *)
TaskFind ==
  /\ impl = "task" /\ phase = "search"
  /\ Next
  /\ UNCHANGED <<impl, stream, given, len, cap, phase, answer, failed>>

(* The search has returned.  When it found nothing and there is room the   *)
(* task waits to be asked again; the search it then makes first, of the    *)
(* same bytes, finds nothing either and is left out.                       *)
TaskFound ==
  /\ impl = "task" /\ phase = "search" /\ pc = "done"
  /\ \/ result # NotFound /\ Finish(UpTo(hay, result), failed)
     \/ result = NotFound /\ Len(hay) >= len /\ Finish(hay, failed)
     \/ result = NotFound /\ Len(hay) < len /\ phase' = "recv" /\ UNCHANGED <<answer, failed>>
  /\ UNCHANGED <<vars, impl, stream, given, len, cap>>

TaskRecv ==
  /\ impl = "task" /\ phase = "recv"
  /\ UNCHANGED <<impl, stream, needle, len>>
  /\ \/ \E chunk \in Handed(Smaller(len - Len(hay), Chunk)) :
          given' = given + Len(chunk) /\ Received(chunk)
     \/ /\ given = Len(stream)            \* end of the stream
        /\ Finish(hay, failed)
        /\ UNCHANGED <<given, hay, cap, search>>
     \/ /\ Finish(hay, TRUE)              \* recv fails
        /\ UNCHANGED <<given, hay, cap, search>>

-----------------------------------------------------------------------------
(* The library's loop: read_socket_until.  It has no upper limit on        *)
(* max_bytes, and a read that fails looks like the end of the stream.      *)

LoopInit ==
  /\ impl = "loop" /\ pc = "idle"
  /\ Begin([n \in Limits |-> IF n <= 0 THEN DefaultLen ELSE n])
  /\ cap = 0
  /\ phase = "recv" /\ failed = FALSE

(* Fault: a whole chunk is asked for, however little is left *)
LoopWantChunk == Chunk

(* The most the loop asks recv for *)
LoopWant == Smaller(len - Len(hay), Chunk)

(* The loop's return *)
LoopReturn(s) == phase' = "done" /\ answer' = s

LoopTurn ==
  /\ impl = "loop" /\ phase = "recv"
  /\ UNCHANGED <<search, impl, stream, needle, len, cap>>
  /\ \/ /\ Len(hay) >= len               \* the loop's condition
        /\ LoopReturn(hay)
        /\ UNCHANGED <<given, hay, failed>>
     \/ /\ Len(hay) < len /\ Found(hay) # {}
        /\ LoopReturn(UpTo(hay, Min(Found(hay))))
        /\ UNCHANGED <<given, hay, failed>>
     \/ /\ Len(hay) < len /\ Found(hay) = {}
        /\ \/ \E chunk \in Handed(LoopWant) :
                /\ given' = given + Len(chunk)
                /\ hay' = hay \o chunk
                /\ UNCHANGED <<phase, answer, failed>>
           \/ /\ given = Len(stream)
              /\ LoopReturn(hay)
              /\ UNCHANGED <<given, hay, failed>>
           \/ /\ LoopReturn(hay)             \* recv or malloc fails
              /\ failed' = TRUE
              /\ UNCHANGED <<given, hay>>

-----------------------------------------------------------------------------
UntilInit == TaskInit \/ LoopInit

UntilNext == TaskFind \/ TaskFound \/ TaskRecv \/ LoopTurn

UntilSpec == UntilInit /\ [][UntilNext]_untilVars /\ WF_untilVars(TaskFind)

-----------------------------------------------------------------------------
(* Properties *)

(* What the delimiter and the limit cut from the whole stream *)
Allowed == SubSeq(stream, 1, Smaller(len, Len(stream)))
Expected == IF Found(Allowed) # {} THEN UpTo(Allowed, Min(Found(Allowed))) ELSE Allowed

(* However the bytes were cut into chunks, the task returns the stream up  *)
(* to the first delimiter, the limit or the end; only a failing recv or    *)
(* allocation makes it shorter, and then it is still a prefix: the size    *)
(* rt_async_read_until_append refuses to go beyond is never the reason.    *)
UntilDelimiter ==
  impl = "task" /\ phase = "done" =>
    IF failed THEN IsPrefix(answer, Expected) ELSE answer = Expected

(* The loop of read_socket_until never drops a byte before the delimiter   *)
(* and never returns more than the limit allows, in whatever chunks the    *)
(* bytes came; it returns bytes behind the delimiter only if the chunk     *)
(* that brought it also reached the limit, which ends the loop before that *)
(* chunk is searched.                                                      *)
LoopKeepsAll ==
  impl = "loop" /\ phase = "done" =>
    /\ IsPrefix(answer, Allowed)
    /\ ~failed => /\ IsPrefix(Expected, answer)
                  /\ answer = Expected \/ Len(answer) >= len

(* The memcpy of rt_async_read_until_append stays inside the buffer, and   *)
(* the buffer never grows beyond the limit.                                *)
BufferHolds == impl = "task" => Len(hay) <= cap /\ cap <= len
==============================================================================
