----------------------------- MODULE StateEvents -----------------------------
(***************************************************************************)
(* Events as the state-resolution core of ruma-state-res sees them, through *)
(* the `Event` trait and the event fetcher, and the pure helpers of         *)
(* src/crates/ruma-state-res/src/lib.rs that both the detailed and the      *)
(* abstract specification of `resolve` use.                                 *)
(*                                                                         *)
(* An event id is a positive integer: ids are totally ordered and the      *)
(* order is a tie-break of both sorts, so ids are not a symmetry set.      *)
(* A state map (`StateMap<E::Id>`) is a function from state keys           *)
(* <<type, state_key>> to ids.                                             *)
(*                                                                         *)
(* `auth_check` and `auth_types_for_event` live in event_auth.rs, which is *)
(* not part of the modelled sources: they are modelled from the spec's     *)
(* contract (a black box that accepts or rejects an event given its auth   *)
(* context) by a small subset of the Matrix authorization rules: a create  *)
(* event is always accepted; every other event needs a create event in its *)
(* context; a self-join needs a public join rule or an existing join and   *)
(* no ban; any other event needs the sender joined; a kick or ban needs    *)
(* BanLevel and more power than the target; other state events need       *)
(* StateDefault.                                                           *)
(***************************************************************************)
EXTENDS Orderings

CONSTANTS
  Ev,         \* id -> [type, sk, sender, membership, joinRule, auth, ts,
              \*        users, usersDefault, token]: what the Event trait
              \*        exposes; token is the signed third_party_invite
              \*        token of an invite, "none" otherwise
  Fetchable,  \* ids for which event_fetch returns Some
  Exists      \* ids for which event_exists returns true; the two closures
              \* are the caller's and need not agree

Ids == DOMAIN Ev
NoId == 0          \* Option::None for an id
MissingId == -1    \* Error::NotFound raised while walking auth events

ASSUME Ids \subseteq Nat \ {0} /\ Fetchable \subseteq Ids /\ Exists \subseteq Ids

CreateKey      == <<"create", "">>
PowerLevelsKey == <<"power_levels", "">>
JoinRulesKey   == <<"join_rules", "">>
MemberKey(u)   == <<"member", u>>

BanLevel     == 50   \* default `ban` of the power-levels content
StateDefault == 50   \* default `state_default` of the power-levels content

(* EventTypeExt::with_state_key applied to an event's type and state key. *)
StateKey(e) == <<Ev[e].type, Ev[e].sk>>

(* A state map updated at one key, as HashMap::insert does. *)
Put(m, k, v) == [x \in DOMAIN m \cup {k} |-> IF x = k THEN v ELSE m[x]]

(* m overlaid by n: HashMap::extend, entries of n win. *)
Extend(m, n) == [x \in DOMAIN m \cup DOMAIN n |->
                   IF x \in DOMAIN n THEN n[x] ELSE m[x]]

-----------------------------------------------------------------------------
(* is_type_and_key *)
IsTypeAndKey(e, t, k) == Ev[e].type = t /\ Ev[e].sk = k

IsPowerLevels(e) == IsTypeAndKey(e, "power_levels", "")

(* is_power_event: a create, power-levels or join-rules event with an     *)
(* empty state key, or a leave or ban of someone other than the sender.   *)
IsPowerEvent(e) ==
  \/ Ev[e].type \in {"power_levels", "join_rules", "create"} /\ Ev[e].sk = ""
  \/ /\ Ev[e].type = "member"
     /\ Ev[e].membership \in {"leave", "ban"}
     /\ Ev[e].sender # Ev[e].sk

(* is_power_event_id: an event the fetcher does not return is no control. *)
IsPowerEventId(e) == e \in Fetchable /\ IsPowerEvent(e)

(* get_power_level_for_sender: the first fetchable power-levels event     *)
(* among the event's auth events decides; users[sender], else             *)
(* users_default; 0 when the event or such a parent is missing.           *)
PowerLevelForSender(e) ==
  LET auth == IF e \in Fetchable THEN Ev[e].auth ELSE <<>>
      pls  == SelectSeq(auth, LAMBDA a : a \in Fetchable /\ IsPowerLevels(a))
      pl   == Ev[Head(pls)]
  IN  IF pls = <<>> THEN 0
      ELSE IF Ev[e].sender \in DOMAIN pl.users THEN pl.users[Ev[e].sender]
      ELSE pl.usersDefault

(* The walk over an event's auth events that mainline_sort and            *)
(* get_mainline_depth share: every auth event up to the first power-levels *)
(* one is fetched, a missing one is NotFound.                             *)
RECURSIVE FirstPowerLevelsIn(_)
FirstPowerLevelsIn(s) ==
  IF s = <<>> THEN NoId
  ELSE IF Head(s) \notin Fetchable THEN MissingId
  ELSE IF IsPowerLevels(Head(s)) THEN Head(s)
  ELSE FirstPowerLevelsIn(Tail(s))

(* The event itself is fetched first: a missing one is NotFound as well. *)
NextMainlineParent(e) ==
  IF e \notin Fetchable THEN MissingId ELSE FirstPowerLevelsIn(Ev[e].auth)

(* Variant of get_mainline_depth that stops at an auth event it cannot    *)
(* fetch as if no power-levels event were left (`.ok()` in place of `?`). *)
RECURSIVE MainlineDepthMissingEnds(_, _)
MainlineDepthMissingEnds(e, mainlineMap) ==
  IF e \in DOMAIN mainlineMap THEN mainlineMap[e]
  ELSE LET p == NextMainlineParent(e)
       IN  IF p \in {NoId, MissingId} THEN 0 ELSE MainlineDepthMissingEnds(p, mainlineMap)

(* get_mainline_depth: the depth of the closest power-levels ancestor on  *)
(* the mainline, 0 when none is reached, MissingId on NotFound.           *)
RECURSIVE MainlineDepth(_, _)
MainlineDepth(e, mainlineMap) ==
  IF e \in DOMAIN mainlineMap THEN mainlineMap[e]
  ELSE LET p == NextMainlineParent(e)
       IN  IF p = NoId THEN 0
           ELSE IF p = MissingId THEN MissingId
           ELSE MainlineDepth(p, mainlineMap)

(* The mainline_map of mainline_sort: the tip, first in the mainline,     *)
(* gets the greatest depth and the root depth 0.                          *)
MainlineMap(mainline) == [i \in Range(mainline) |->
                            Len(mainline) - CHOOSE j \in DOMAIN mainline :
                                                     mainline[j] = i]

-----------------------------------------------------------------------------
(* Variant that compares only the ids present, so a key some set lacks   *)
(* is unconflicted when the sets that hold it agree.                      *)
SeparateIgnoreMissing(sets) ==
  LET keys    == UNION {DOMAIN sets[i] : i \in DOMAIN sets}
      Vals(k) == {sets[i][k] : i \in {j \in DOMAIN sets : k \in DOMAIN sets[j]}}
      Agreed  == {k \in keys : Cardinality(Vals(k)) = 1}
  IN  [clean      |-> [k \in Agreed |-> CHOOSE v \in Vals(k) : TRUE],
       conflicted |-> [k \in keys \ Agreed |-> Vals(k)]]

(* separate: a key is unconflicted when every state set holds the same    *)
(* id for it; otherwise it is conflicted with the ids that are present.   *)
Separate(sets) ==
  LET keys     == UNION {DOMAIN sets[i] : i \in DOMAIN sets}
      At(k, i) == IF k \in DOMAIN sets[i] THEN sets[i][k] ELSE NoId
      Agreed   == {k \in keys : \A i, j \in DOMAIN sets : At(k, i) = At(k, j)}
  IN  [clean      |-> [k \in Agreed |-> At(k, CHOOSE i \in DOMAIN sets : TRUE)],
       conflicted |-> [k \in keys \ Agreed |->
                         {sets[i][k] : i \in {j \in DOMAIN sets : k \in DOMAIN sets[j]}}]]

(* Variant that keeps only the ids of exactly one auth chain, the         *)
(* symmetric difference of two chains generalised wrongly.                 *)
AuthChainDiffExactlyOne(chains) ==
  {id \in UNION Range(chains) :
     Cardinality({i \in DOMAIN chains : id \in chains[i]}) = 1}

(* get_auth_chain_diff: ids in some auth chains but not in all of them. *)
AuthChainDiff(chains) ==
  {id \in UNION Range(chains) :
     Cardinality({i \in DOMAIN chains : id \in chains[i]}) < Len(chains)}

-----------------------------------------------------------------------------
(* event_auth::auth_types_for_event (spec-modelled): the state keys needed *)
(* to authorize an event.                                                 *)
AuthTypesForEvent(e) ==
  IF Ev[e].type = "create" THEN {}
  ELSE {CreateKey, PowerLevelsKey, MemberKey(Ev[e].sender)}
       \cup (IF Ev[e].type = "member" THEN {MemberKey(Ev[e].sk)} ELSE {})
       \cup (IF Ev[e].type = "member" /\ Ev[e].membership = "join"
             THEN {JoinRulesKey} ELSE {})
       \cup (IF Ev[e].type = "member" /\ Ev[e].token # "none"
             THEN {<<"third_party_invite", Ev[e].token>>} ELSE {})

LevelIn(ctx, u) ==
  IF PowerLevelsKey \in DOMAIN ctx
  THEN LET p == Ev[ctx[PowerLevelsKey]]
       IN  IF u \in DOMAIN p.users THEN p.users[u] ELSE p.usersDefault
  ELSE IF CreateKey \in DOMAIN ctx /\ Ev[ctx[CreateKey]].sender = u THEN 100
  ELSE 0

MembershipIn(ctx, u) ==
  IF MemberKey(u) \in DOMAIN ctx THEN Ev[ctx[MemberKey(u)]].membership
  ELSE "leave"

(* event_auth::auth_check (spec-modelled black box). `tpi` is the third- *)
(* party invite event passed in, NoId for None: an invite carrying a     *)
(* token is allowed when that event holds the token and was sent by the   *)
(* inviter; any other invite needs the inviter joined and the target      *)
(* neither joined nor banned.                                             *)
AuthCheck(e, ctx, tpi) ==
  LET ev       == Ev[e]
      selfJoin == ev.type = "member" /\ ev.sk = ev.sender /\ ev.membership = "join"
      invite   == ev.type = "member" /\ ev.membership = "invite"
  IN  \/ ev.type = "create"
      \/ /\ CreateKey \in DOMAIN ctx
         /\ invite
         /\ MembershipIn(ctx, ev.sk) \notin {"join", "ban"}
         /\ IF ev.token # "none"
            THEN tpi # NoId /\ Ev[tpi].sk = ev.token /\ Ev[tpi].sender = ev.sender
            ELSE MembershipIn(ctx, ev.sender) = "join"
      \/ /\ CreateKey \in DOMAIN ctx
         /\ selfJoin
         /\ MembershipIn(ctx, ev.sender) # "ban"
         /\ \/ MembershipIn(ctx, ev.sender) = "join"
            \/ JoinRulesKey \in DOMAIN ctx /\ Ev[ctx[JoinRulesKey]].joinRule = "public"
      \/ /\ CreateKey \in DOMAIN ctx
         /\ ~selfJoin /\ ~invite
         /\ MembershipIn(ctx, ev.sender) = "join"
         /\ IF ev.type = "member" /\ ev.sk # ev.sender
            THEN LevelIn(ctx, ev.sender) >= BanLevel
                 /\ LevelIn(ctx, ev.sender) > LevelIn(ctx, ev.sk)
            ELSE ev.type = "member" \/ LevelIn(ctx, ev.sender) >= StateDefault

(* The auth context iterative_auth_check assembles for an event: its own  *)
(* fetchable auth events by state key (a later one wins), overlaid by the *)
(* resolved state at the keys auth_types_for_event names.                 *)
AuthContext(e, resolved) ==
  LET declared == FoldLeft(LAMBDA ctx, a : IF a \in Fetchable
                                           THEN Put(ctx, StateKey(a), a)
                                           ELSE ctx,
                           <<>>, Ev[e].auth)
      overlay  == {k \in AuthTypesForEvent(e) \cap DOMAIN resolved :
                     resolved[k] \in Fetchable}
  IN  Extend(declared, [k \in overlay |-> resolved[k]])

(* The third-party invite events of an auth context: find_map returns    *)
(* the first of them in the HashMap's iteration order, any one of them.  *)
ThirdPartyInvitesIn(ctx) ==
  {ctx[k] : k \in {k \in DOMAIN ctx : Ev[ctx[k]].type = "third_party_invite"}}

(* One iteration of iterative_auth_check for a fetchable event, given the *)
(* third-party invite found: on accept the event is inserted into the     *)
(* resolved state at its key.                                             *)
AuthStepWith(e, resolved, tpi) ==
  IF AuthCheck(e, AuthContext(e, resolved), tpi)
  THEN Put(resolved, StateKey(e), e)
  ELSE resolved

(* The step as a deterministic resolve would take it: the third-party     *)
(* invite passed is the one stored under the event's own token.           *)
AuthStepResult(e, resolved) ==
  LET ctx == AuthContext(e, resolved)
      key == <<"third_party_invite", Ev[e].token>>
  IN  AuthStepWith(e, resolved, IF key \in DOMAIN ctx THEN ctx[key] ELSE NoId)

=============================================================================
