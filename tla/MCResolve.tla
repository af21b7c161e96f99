------------------------------ MODULE MCResolve ------------------------------
(***************************************************************************)
(* A room in the shape of the ban_vs_power_level, topic_reset and          *)
(* ban_with_auth_chains tests of lib.rs, resolved for every pair of forks  *)
(* drawn from its history.                                                 *)
(*                                                                         *)
(*   1 create (alice)          5 join rules, public, re-sent (alice)       *)
(*   2 alice joins             6 bob joins (under 5)                       *)
(*   3 power levels alice:100  7 power levels alice:100 bob:50 (alice)     *)
(*   4 join rules, public      8 alice bans bob                            *)
(*   9 power levels by bob     10 topic by bob                             *)
(*  11 charlie joins (under 4) 12 an older membership of bob, known only   *)
(*                                by id: the fetcher cannot return it      *)
(*                                                                         *)
(* Every fork holds 1, 2, 3, 5 and 6 overlaid with any subset of 7..11.    *)
(* Join rules 4 is in the auth chain of charlie's join only, so it is in   *)
(* the auth chain difference whenever one fork holds charlie and the other *)
(* does not, while the join-rules key itself is unconflicted.              *)
(***************************************************************************)
EXTENDS Resolve, TLC

Mk(type, sk, sender, auth, ts) ==
  [type |-> type, sk |-> sk, sender |-> sender, membership |-> "none",
   joinRule |-> "none", auth |-> auth, ts |-> ts, users |-> <<>>,
   usersDefault |-> 0, token |-> "none"]

Member(u, sender, m, auth, ts) ==
  [Mk("member", u, sender, auth, ts) EXCEPT !.membership = m]
Levels(sender, users, auth, ts) ==
  [Mk("power_levels", "", sender, auth, ts) EXCEPT !.users = users]
JoinRules(rule, auth, ts) ==
  [Mk("join_rules", "", "alice", auth, ts) EXCEPT !.joinRule = rule]

MCEv ==
  1  :> Mk("create", "", "alice", <<>>, 1) @@
  2  :> Member("alice", "alice", "join", <<1>>, 2) @@
  3  :> Levels("alice", "alice" :> 100, <<1, 2>>, 3) @@
  4  :> JoinRules("public", <<1, 2, 3>>, 4) @@
  5  :> JoinRules("public", <<1, 2, 3>>, 5) @@
  6  :> Member("bob", "bob", "join", <<1, 3, 5>>, 6) @@
  7  :> Levels("alice", ("alice" :> 100 @@ "bob" :> 50), <<1, 2, 3>>, 7) @@
  8  :> Member("bob", "alice", "ban", <<1, 2, 7, 6>>, 8) @@
  9  :> Levels("bob", ("alice" :> 100 @@ "bob" :> 50), <<1, 12, 6, 7>>, 8) @@
  10 :> Mk("topic", "", "bob", <<1, 12, 7>>, 9) @@
  11 :> Member("charlie", "charlie", "join", <<1, 4, 3>>, 10) @@
  12 :> Member("bob", "bob", "join", <<1, 3, 5>>, 6)

MCFetchable == 1..11

(* A fetcher that returns every event of the room, 12 included. *)
MCFetchableAll == 1..12

BaseState == [k \in {CreateKey, MemberKey("alice"), PowerLevelsKey,
                     JoinRulesKey, MemberKey("bob")} |->
                CASE k = CreateKey -> 1 [] k = MemberKey("alice") -> 2
                  [] k = PowerLevelsKey -> 3 [] k = JoinRulesKey -> 5
                  [] OTHER -> 6]

ForkEvents == 7..11

(* The base state with the events of S applied in id order. *)
RECURSIVE ApplyInOrder(_, _)
ApplyInOrder(m, S) ==
  IF S = {} THEN m
  ELSE LET e == CHOOSE x \in S : \A y \in S : x <= y
       IN  ApplyInOrder(Put(m, StateKey(e), e), S \ {e})

MCForks == {ApplyInOrder(BaseState, S) : S \in SUBSET ForkEvents}

(* Forks without charlie's join, for three state sets: each key is then   *)
(* conflicted among up to three values, e.g. power levels 3, 7 and 9.     *)
MCForks3 == {ApplyInOrder(BaseState, S) : S \in SUBSET (ForkEvents \ {11})}

=============================================================================
