----------------------------- MODULE MCTtyMode -----------------------------
(* TtyMode with two signals, both of which end the process, as in a        *)
(* program that sets no handler of its own.                                *)
EXTENDS TtyMode

MCSignals == <<"SIGINT", "SIGTERM">>
Fatal == [s \in {"SIGINT", "SIGTERM"} |-> "default"]
=============================================================================
