---------------------------- MODULE MCSubprocess ----------------------------
(* Subprocess with pipes of two bytes.  A child that copies holds up to    *)
(* two more: five bytes always fit on their way, six may not.              *)
EXTENDS Subprocess
=============================================================================
