--------------------------- MODULE MCReliableWrite ---------------------------
(***************************************************************************)
(* Bounds for model checking ReliableWrite.  The queue lengths and the     *)
(* number of attempts are scaled down from 16, 32 and 6 so that full       *)
(* queues, drops and exhausted retries are all a few steps away; SeqMod    *)
(* keeps its real value, which costs no states.                            *)
(***************************************************************************)
EXTENDS ReliableWrite

MCSeqMod == 65536

=============================================================================
