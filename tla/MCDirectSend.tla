---------------------------- MODULE MCDirectSend ----------------------------
(* A small instance of DirectSend, without scheduled messages. *)
EXTENDS DirectSend

NoPeriod == [r \in Repeat |-> 1]
=============================================================================
