--------------------------- MODULE StateResolution ---------------------------
(***************************************************************************)
(* What `resolve` promises: one atomic step from the inputs (the forks'    *)
(* state maps and their auth chains) to the resolved state map or an       *)
(* error, where the result is a function of the inputs alone. Each stage  *)
(* is stated declaratively: the control graph as a reachability closure,  *)
(* the control order as the least topological order, the iterative auth   *)
(* checks as folds, the mainline as a recursive walk, a mainline depth as *)
(* the greatest depth in a closure, and the remaining events in           *)
(* <<depth, ts, id>> order. Resolve (the step-by-step model of the code,  *)
(* with the iteration orders of its hash maps left open) is checked to    *)
(* implement this module.                                                 *)
(***************************************************************************)
EXTENDS StateEvents

CONSTANTS
  Forks,    \* the state maps a server may hold for the room
  NumSets   \* how many state sets one call resolves

ASSUME NumSets \in Nat \ {0}

VARIABLES stateSets, authChains, outcome

absVars == <<stateSets, authChains, outcome>>

(* The full auth chain of a state set, as the caller supplies it: every  *)
(* id reachable through auth_events from an event of the set.           *)
RECURSIVE AuthClosure(_)
AuthClosure(S) ==
  LET next == S \cup UNION {Range(Ev[e].auth) : e \in S}
  IN  IF next = S THEN S ELSE AuthClosure(next)

AuthChainOf(s) == AuthClosure(UNION {Range(Ev[e].auth) : e \in Range(s)})

(* Ids reachable from S through auth edges that stay inside `within`. *)
RECURSIVE ReachWithin(_, _)
ReachWithin(S, within) ==
  LET next == S \cup UNION {Range(Ev[e].auth) \cap within : e \in S}
  IN  IF next = S THEN S ELSE ReachWithin(next, within)

(* The mainline from a power-levels event down to the first one without *)
(* a power-levels parent; MissingId marks a walk that hit NotFound.      *)
RECURSIVE MainlineFrom(_)
MainlineFrom(p) ==
  IF p = NoId THEN <<>>
  ELSE LET q == NextMainlineParent(p)
       IN  IF q = MissingId THEN <<MissingId>>
           ELSE <<p>> \o MainlineFrom(q)

(* The power-levels ancestry of an event: the event and every event the   *)
(* walk of get_mainline_depth can step to, each the first power-levels     *)
(* auth event of the one before.                                          *)
RECURSIVE PowerAncestry(_)
PowerAncestry(S) ==
  LET next == S \cup ({NextMainlineParent(x) : x \in S} \ {NoId, MissingId})
  IN  IF next = S THEN S ELSE PowerAncestry(next)

(* The mainline depth of an event, stated without the walk: position j of  *)
(* the mainline (tip first) has depth Len - j, and an event takes the       *)
(* greatest depth in its ancestry. Every mainline event after the first    *)
(* one reached is also in the ancestry, with a smaller depth. With none     *)
(* reached the depth is 0, or NotFound when the walk met an event it could  *)
(* not fetch.                                                               *)
MainlineDepthOf(e, mainline) ==
  LET anc  == PowerAncestry({e})
      hits == {j \in DOMAIN mainline : mainline[j] \in anc}
  IN  IF hits # {} THEN Len(mainline) - Min(hits)
      ELSE IF MissingId \in {NextMainlineParent(x) : x \in anc} THEN MissingId
      ELSE 0

AuthFold(seed, order) == FoldLeft(LAMBDA r, e : AuthStepResult(e, r), seed, order)

Ok(m)  == [status |-> "ok", state |-> m]
Failed == [status |-> "error", state |-> <<>>]
Pending == [status |-> "pending", state |-> <<>>]

(* Section 4.1 and invariant 2: the unconflicted state is the keys every *)
(* set holds with one and the same event; every other event any set holds *)
(* is conflicted. Invariant 5: the unconflicted state overrides the rest. *)
ResolveFn(sets, chains) ==
  LET agreed    == {k \in DOMAIN sets[1] :
                      \A i \in DOMAIN sets : k \in DOMAIN sets[i] /\ sets[i][k] = sets[1][k]}
      clean     == [k \in agreed |-> sets[1][k]]
      contested == UNION {{sets[i][k] : k \in DOMAIN sets[i] \ agreed} : i \in DOMAIN sets}
      diff      == {id \in UNION Range(chains) :
                      \E i, j \in DOMAIN chains : id \in chains[i] \ chains[j]}
      full      == (diff \cup contested)
                     \cap Exists
      controls  == {e \in full : IsPowerEvent(e)}
      nodes     == ReachWithin(controls, full)
      graph     == [n \in nodes |-> Range(Ev[n].auth) \cap full]
      powerKey  == [n \in nodes |-> <<-PowerLevelForSender(n), Ev[n].ts, n>>]
      ctrlOrder == LeastTopologicalOrder(graph, powerKey)
      afterCtrl == AuthFold(clean, ctrlOrder)
      rest      == full \ Range(ctrlOrder)
      tip       == IF PowerLevelsKey \in DOMAIN afterCtrl
                   THEN afterCtrl[PowerLevelsKey] ELSE NoId
      mainline  == MainlineFrom(tip)
      depth     == [e \in rest |-> MainlineDepthOf(e, mainline)]
      ranked    == {e \in rest \cap Fetchable : depth[e] # MissingId}
      mkey      == [e \in ranked |-> <<depth[e], Ev[e].ts, e>>]
      restOrder == SetToSortSeq(ranked, LAMBDA a, b : KeyLess(mkey[a], mkey[b]))
      resolved  == AuthFold(afterCtrl, restOrder)
  IN  IF contested = {} THEN Ok(clean)
      ELSE IF ~(nodes \subseteq Fetchable) THEN Failed
      ELSE IF rest # {} /\ MissingId \in Range(mainline) THEN Failed
      ELSE Ok([k \in DOMAIN resolved \cup agreed |->
                 IF k \in agreed THEN clean[k] ELSE resolved[k]])

Init ==
  /\ stateSets \in [1..NumSets -> Forks]
  /\ authChains = [i \in 1..NumSets |-> AuthChainOf(stateSets[i])]
  /\ outcome = Pending

Resolve ==
  /\ outcome = Pending
  /\ outcome' = ResolveFn(stateSets, authChains)
  /\ UNCHANGED <<stateSets, authChains>>

Spec == Init /\ [][Resolve]_absVars

=============================================================================
