----------------------------- MODULE AsyncTasks -----------------------------
(***************************************************************************)
(* What the cooperative async runtime of src/rt/os.c promises about a task *)
(* handle, whatever its scheduler does: a handle is submitted, finishes    *)
(* once with one result, keeps that result, and is collected once, by the  *)
(* await that frees it.  RtAsync is shown to implement this module.        *)
(***************************************************************************)
CONSTANTS Handles, Results

VARIABLES status,  \* life of each handle
          value    \* what an await of a finished handle returns

absVars == <<status, value>>

NoValue == "none"

AbsInit ==
  /\ status = [h \in Handles |-> "none"]
  /\ value = [h \in Handles |-> NoValue]

(* A handle is handed out; constructors that already know the answer       *)
(* (rt_async_value) hand it out finished.                                  *)
Submit(h) ==
  /\ status[h] = "none"
  /\ status' = [status EXCEPT ![h] = "pending"]
  /\ UNCHANGED value

SubmitFinished(h, r) ==
  /\ status[h] = "none"
  /\ status' = [status EXCEPT ![h] = "done"]
  /\ value' = [value EXCEPT ![h] = r]

Finish(h, r) ==
  /\ status[h] = "pending"
  /\ status' = [status EXCEPT ![h] = "done"]
  /\ value' = [value EXCEPT ![h] = r]

Collect(h) ==
  /\ status[h] = "done"
  /\ status' = [status EXCEPT ![h] = "none"]
  /\ value' = [value EXCEPT ![h] = NoValue]

AbsNext ==
  \E h \in Handles :
    \/ Submit(h)
    \/ \E r \in Results : SubmitFinished(h, r)
    \/ \E r \in Results : Finish(h, r)
    \/ Collect(h)

AbsSpec == AbsInit /\ [][AbsNext]_absVars
=============================================================================
