----------------------------- MODULE MCHeapWw -----------------------------
(* A heap of a few small blocks. *)
EXTENDS HeapWw
=============================================================================
