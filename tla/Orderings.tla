------------------------------ MODULE Orderings ------------------------------
(***************************************************************************)
(* The orders of lib.rs: the lexicographic comparison of the tie-break     *)
(* tuples of both sorts (derived Ord of TieBreaker and of the mainline     *)
(* sort's <<depth, ts, id>> tuple), the element a min-heap pops, and a     *)
(* declarative reference for the lexicographical topological sort.         *)
(***************************************************************************)
EXTENDS Integers, Sequences, FiniteSets, SequencesExt

(* Lexicographic order on key tuples, smallest first. *)
RECURSIVE KeyLess(_, _)
KeyLess(a, b) ==
  /\ b # <<>>
  /\ \/ a = <<>>
     \/ Head(a) < Head(b)
     \/ Head(a) = Head(b) /\ KeyLess(Tail(a), Tail(b))

(* The element BinaryHeap::pop returns for a heap of Reverse(TieBreaker). *)
HeapMin(S, key) == CHOOSE n \in S : \A m \in S \ {n} : KeyLess(key[n], key[m])

(* Reference: the least topological order of g under Key, defined         *)
(* declaratively: each position holds the least node, among those not yet *)
(* placed, all of whose outgoing edges lead to placed nodes.              *)
RECURSIVE LeastOrderFrom(_, _, _)
LeastOrderFrom(g, placed, key) ==
  LET ready == {n \in DOMAIN g \ Range(placed) : g[n] \subseteq Range(placed)}
  IN  IF ready = {} THEN placed
      ELSE LeastOrderFrom(g, Append(placed, HeapMin(ready, key)), key)

LeastTopologicalOrder(g, key) == LeastOrderFrom(g, <<>>, key)

=============================================================================
