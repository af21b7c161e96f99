----------------------------- MODULE LexTopoSort -----------------------------
(***************************************************************************)
(* lexicographical_topological_sort (lib.rs): Kahn's algorithm over        *)
(* outgoing edges. A graph maps each id to the set of ids it points to     *)
(* (its auth parents); a node with no outgoing edge is the oldest. A       *)
(* binary min-heap, keyed by key[n] = <<-power, age, id>>, holds the nodes *)
(* whose outgoing edges have all been cleared.                             *)
(*                                                                         *)
(* The key function is a function argument `key`: the standalone model    *)
(* (MCLexTopoSort) draws it, resolve (Resolve) derives it from the power   *)
(* levels of the senders.                                                  *)
(***************************************************************************)
EXTENDS Orderings, Bags

VARIABLES
  outdegree,  \* outdegree_map: id -> auth parents not yet emitted
  reverse,    \* reverse_graph: id -> ids that point to it
  heap,       \* BinaryHeap of Reverse(TieBreaker), as a bag of ids
  sorted      \* the output vector

topoVars == <<outdegree, reverse, heap, sorted>>

(* Variant of Start that creates reverse-graph entries only for edge      *)
(* targets, without reverse_graph.entry(node).or_default().               *)
StartNoOwnEntry(g) ==
  /\ outdegree' = g
  /\ reverse'   = [n \in UNION {g[m] : m \in DOMAIN g} |-> {m \in DOMAIN g : n \in g[m]}]
  /\ heap'      = SetToBag({n \in DOMAIN g : g[n] = {}})
  /\ sorted'    = <<>>

(* The set-up before the loop: copy the graph, build the reverse graph    *)
(* and push every node without outgoing edges.                            *)
Start(g) ==
  /\ outdegree' = g
  /\ reverse'   = [n \in DOMAIN g |-> {m \in DOMAIN g : n \in g[m]}]
  /\ heap'      = SetToBag({n \in DOMAIN g : g[n] = {}})
  /\ sorted'    = <<>>

(* Variants of Pop: one pushes a node once at most one outgoing edge is   *)
(* left, the other pops the greatest TieBreaker (a heap without Reverse). *)
PopEarlyPush(key) ==
  LET node  == HeapMin(BagToSet(heap), key)
      out   == [p \in DOMAIN outdegree |->
                  IF p \in reverse[node] THEN outdegree[p] \ {node}
                  ELSE outdegree[p]]
      ready == {p \in reverse[node] : Cardinality(out[p]) <= 1}
  IN  /\ heap # EmptyBag
      /\ outdegree' = out
      /\ heap'      = (heap (-) SetToBag({node})) (+) SetToBag(ready)
      /\ sorted'    = Append(sorted, node)
      /\ UNCHANGED reverse

PopGreatest(key) ==
  LET node  == CHOOSE n \in BagToSet(heap) :
                 \A m \in BagToSet(heap) \ {n} : KeyLess(key[m], key[n])
      out   == [p \in DOMAIN outdegree |->
                  IF p \in reverse[node] THEN outdegree[p] \ {node}
                  ELSE outdegree[p]]
      ready == {p \in reverse[node] : out[p] = {}}
  IN  /\ heap # EmptyBag
      /\ outdegree' = out
      /\ heap'      = (heap (-) SetToBag({node})) (+) SetToBag(ready)
      /\ sorted'    = Append(sorted, node)
      /\ UNCHANGED reverse

(* One iteration of `while let Some(Reverse(item)) = heap.pop()`: clear   *)
(* the popped node from every node that points to it, push those left    *)
(* with no outgoing edge, and emit the node.                              *)
Pop(key) ==
  LET node  == HeapMin(BagToSet(heap), key)
      out   == [p \in DOMAIN outdegree |->
                  IF p \in reverse[node] THEN outdegree[p] \ {node}
                  ELSE outdegree[p]]
      ready == {p \in reverse[node] : out[p] = {}}
  IN  /\ heap # EmptyBag
      /\ outdegree' = out
      /\ heap'      = (heap (-) SetToBag({node})) (+) SetToBag(ready)
      /\ sorted'    = Append(sorted, node)
      /\ UNCHANGED reverse

Finished == heap = EmptyBag

=============================================================================
