----------------------------- MODULE NodeByNode -----------------------------
(***************************************************************************)
(* What the computation of a graph promises, whatever the number of        *)
(* threads: the parts of its nodes are computed one at a time and each of  *)
(* them once, and none before all parts of all earlier nodes are there, as *)
(* a part of a node reads whole results of earlier ones.  (This is what    *)
(* one thread does in the loop of ggml_graph_compute_thread, ggml.c.)      *)
(***************************************************************************)
EXTENDS Integers

CONSTANTS
  Nodes,  \* the graph has the nodes 1 .. Nodes
  Parts   \* the parts of each node

VARIABLE done  \* the parts that have been computed, as <<node, part>>

Complete(n) == \A p \in Parts[n] : <<n, p>> \in done

Before(n) == \A m \in 1 .. n - 1 : Complete(m)

OrderInit == done = {}

ComputePart(n, p) ==
  /\ Before(n)
  /\ <<n, p>> \notin done
  /\ done' = done \cup {<<n, p>>}

OrderNext == \E n \in 1 .. Nodes : \E p \in Parts[n] : ComputePart(n, p)

OrderSpec == OrderInit /\ [][OrderNext]_done

=============================================================================
