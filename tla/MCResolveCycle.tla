---------------------------- MODULE MCResolveCycle ----------------------------
(***************************************************************************)
(* A room whose agreed power levels sit on a cycle of auth events, which  *)
(* no honest server creates but a remote server can send:                 *)
(*                                                                         *)
(*   1 create (alice)           4 power levels, auth 1 2 3 (alice)         *)
(*   2 alice joins              5 join rules, public                       *)
(*   3 power levels, auth 1 2 4 6 topic by alice                           *)
(*                                                                         *)
(* Every fork holds 1, 2, 3 and 5; one may also hold the topic 6, which is *)
(* then conflicted and sorted along the mainline of 3.                     *)
(***************************************************************************)
EXTENDS MCResolve

CycleEv ==
  1 :> Mk("create", "", "alice", <<>>, 1) @@
  2 :> Member("alice", "alice", "join", <<1>>, 2) @@
  3 :> Levels("alice", "alice" :> 100, <<1, 2, 4>>, 3) @@
  4 :> Levels("alice", "alice" :> 100, <<1, 2, 3>>, 4) @@
  5 :> JoinRules("public", <<1, 2, 3>>, 5) @@
  6 :> Mk("topic", "", "alice", <<1, 2, 3>>, 6)

CycleIds == 1..6

CycleBase == ApplyInOrder(<<>>, {1, 2, 3, 5})

CycleForks == {CycleBase, ApplyInOrder(CycleBase, {6})}

=============================================================================
