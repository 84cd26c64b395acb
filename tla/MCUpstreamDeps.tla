--------------------------- MODULE MCUpstreamDeps ---------------------------
(* UpstreamDeps on a small graph: a chain of callers d, c, b of the target *)
(* a, cycles along it and through the target, and a workload e that is     *)
(* called by the others and becomes a caller only if an edge is inserted.  *)
EXTENDS UpstreamDeps, TLC

CONSTANTS a, b, c, d, e

CyclicStart == [u \in Nodes |->
  CASE u = a -> {b} [] u = b -> {a, c} [] u = c -> {b, d} [] u = e -> {a, c} [] OTHER -> {}]

\* Shortcuts into the chain, edges that make e a caller, and one more cycle.
LaterEdges == {<<c, a>>, <<d, a>>, <<d, b>>, <<e, a>>, <<e, d>>, <<a, d>>, <<a, a>>}
=============================================================================
