------------------------------ MODULE MCSender ------------------------------
(* Instances of ChunkedSender for TLC. *)
EXTENDS ChunkedSender, TLC

LensTwo == <<2, 1>>  \* a chunk that is read in two steps, and a short last one
=============================================================================
