----------------------------- MODULE MCChannel -----------------------------
(* Channel with a small compaction threshold, so that the list is copied   *)
(* while items are queued behind the dead ones.                            *)
EXTENDS Channel
=============================================================================
