--------------------------- MODULE MCResolveInvite ---------------------------
(***************************************************************************)
(* A room where alice has issued two third-party invites and then invited *)
(* dave through the second one, resolved across forks that hold the       *)
(* invites and forks that also hold dave's invite.                        *)
(*                                                                         *)
(*   1 create (alice)            5 third-party invite, token t1 (alice)    *)
(*   2 alice joins               6 third-party invite, token t2 (alice)    *)
(*   3 power levels alice:100    7 alice invites dave, signed token t2     *)
(*   4 join rules, public                                                  *)
(*                                                                         *)
(* Both invites are in dave's auth events and so in his auth context;     *)
(* auth_check accepts his invite only when it is handed the t2 one.        *)
(***************************************************************************)
EXTENDS MCResolve

ThirdPartyInvite(token, auth, ts) == Mk("third_party_invite", token, "alice", auth, ts)

InviteEv ==
  1 :> Mk("create", "", "alice", <<>>, 1) @@
  2 :> Member("alice", "alice", "join", <<1>>, 2) @@
  3 :> Levels("alice", "alice" :> 100, <<1, 2>>, 3) @@
  4 :> JoinRules("public", <<1, 2, 3>>, 4) @@
  5 :> ThirdPartyInvite("t1", <<1, 2, 3>>, 5) @@
  6 :> ThirdPartyInvite("t2", <<1, 2, 3>>, 6) @@
  7 :> [Member("dave", "alice", "invite", <<1, 2, 3, 5, 6>>, 7) EXCEPT !.token = "t2"]

InviteIds == 1..7

InviteBase == ApplyInOrder(<<>>, 1..4)

InviteForks == {ApplyInOrder(InviteBase, S) : S \in {{}, {5, 6}, {5, 6, 7}}}

=============================================================================
