---------------------------- MODULE MCLexTopoSort ----------------------------
(***************************************************************************)
(* lexicographical_topological_sort on every graph of Graphs over Nodes    *)
(* (the function is public and takes any graph whose edges point at its   *)
(* keys) and every key function drawn from small sets of power levels and  *)
(* ages. Graphs is DAGs, or AllGraphs for the malformed, cyclic inputs.    *)
(***************************************************************************)
EXTENDS LexTopoSort

CONSTANTS
  Nodes,   \* event ids of the graph
  Powers,  \* sender power levels the key function may return
  Ages,    \* origin_server_ts values the key function may return
  Graphs   \* the graphs the sort is called on

VARIABLES graph, power, age, started

vars == <<graph, power, age, started, topoVars>>

(* <<-power, age, id>>: TieBreaker of the code. *)
Key == [n \in Nodes |-> <<-power[n], age[n], n>>]

(* A graph is acyclic iff some ranking of its nodes makes every edge go *)
(* to a lower rank; every DAG arises from some permutation this way.    *)
DAGs == UNION {{g \in [Nodes -> SUBSET Nodes] :
                  \A n \in Nodes : \A m \in g[n] : rank[m] < rank[n]}
               : rank \in {f \in [Nodes -> 1..Cardinality(Nodes)] :
                             Range(f) = 1..Cardinality(Nodes)}}

AllGraphs == [Nodes -> SUBSET Nodes]

Init ==
  /\ graph \in Graphs
  /\ power \in [Nodes -> Powers]
  /\ age \in [Nodes -> Ages]
  /\ started = FALSE
  /\ outdegree = <<>> /\ reverse = <<>> /\ heap = EmptyBag /\ sorted = <<>>

StartSort ==
  /\ ~started
  /\ Start(graph)
  /\ started' = TRUE
  /\ UNCHANGED <<graph, power, age>>

PopHeap ==
  /\ started
  /\ Pop(Key)
  /\ UNCHANGED <<graph, power, age, started>>

Next == StartSort \/ PopHeap

Spec == Init /\ [][Next]_vars

TypeOK ==
  /\ graph \in [Nodes -> SUBSET Nodes]
  /\ started \in BOOLEAN
  /\ started => /\ outdegree \in [Nodes -> SUBSET Nodes]
                /\ reverse \in [Nodes -> SUBSET Nodes]
                /\ IsABag(heap) /\ BagToSet(heap) \subseteq Nodes
  /\ sorted \in Seq(Nodes)

(* When the heap runs dry, the output is exactly the least topological    *)
(* order under <<-power, age, id>>: every node once, ties broken by the   *)
(* TieBreaker ordering with the heap popping the smallest.                *)
SortIsLeastOrder ==
  started /\ Finished => sorted = LeastTopologicalOrder(graph, Key)

(* The sort accounts for every node: when the heap runs dry, each node of *)
(* the graph has been emitted. Spec section 9 asks that nodes Kahn's loop  *)
(* never reaches, as on a cycle, surface as an error; the code returns     *)
(* Ok(sorted) after the loop whatever is left in outdegree_map.           *)
SortEmitsEveryNode ==
  started /\ Finished => Range(sorted) = Nodes

=============================================================================
