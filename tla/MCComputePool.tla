--------------------------- MODULE MCComputePool ----------------------------
(***************************************************************************)
(* ComputePool on a small instance: of the nodes, the second hands out     *)
(* more chunks than there are threads and the last one fewer.              *)
(***************************************************************************)
EXTENDS ComputePool

MCChunks == [n \in {2, Nodes} |-> IF n = 2 THEN N + 2 ELSE N - 1]

=============================================================================
