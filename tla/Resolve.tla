------------------------------- MODULE Resolve -------------------------------
(***************************************************************************)
(* `resolve` (lib.rs) step by step: one action per stage between two       *)
(* loops and one per loop iteration, in the order the code runs them. The  *)
(* order in which the code iterates a HashMap or HashSet (the control      *)
(* events to seed the graph walk, the events to rank in mainline_sort) is  *)
(* left open: each iteration picks any remaining element.                  *)
(*                                                                         *)
(* The inputs are drawn as in StateResolution; the Kahn loop is the        *)
(* LexTopoSort component, instantiated on this module's variables.         *)
(***************************************************************************)
EXTENDS StateEvents

CONSTANTS Forks, NumSets

VARIABLES
  stateSets, authChains,  \* the inputs of resolve
  pc,                     \* the stage resolve is in
  clean, conflicted,      \* the two halves returned by separate
  fullConflicted,         \* all_conflicted
  toSeed,                 \* control_events not yet walked by the graph builder
  graph,                  \* the graph of reverse_topological_power_sort
  stack,                  \* the worklist of add_event_and_auth_chain_to_graph
  plMap,                  \* event_to_pl
  outdegree, reverse, heap, sorted,  \* lexicographical_topological_sort
  resolved,               \* resolved_state of iterative_auth_check
  idx,                    \* position of iterative_auth_check in its list
  eventsToResolve,        \* events_to_resolve
  plCursor,               \* `pl` of the mainline loop
  mainline,               \* the mainline, tip first
  toRank,                 \* to_sort entries mainline_sort has not ranked yet
  orderMap,               \* order_map: id -> <<depth, ts, id>>
  sortedLeft,             \* sorted_left_events
  result                  \* the state map resolve returns

inputVars == <<stateSets, authChains>>
topoVars  == <<outdegree, reverse, heap, sorted>>
sepVars   == <<clean, conflicted, fullConflicted>>
graphVars == <<toSeed, graph, stack, plMap>>
authVars  == <<resolved, idx>>
mainVars  == <<eventsToResolve, plCursor, mainline, toRank, orderMap, sortedLeft>>
vars == <<inputVars, pc, sepVars, graphVars, topoVars, authVars, mainVars, result>>

Topo == INSTANCE LexTopoSort

(* What resolve has returned so far, in the abstract specification's terms. *)
Outcome ==
  CASE pc = "done"  -> [status |-> "ok", state |-> result]
    [] pc = "error" -> [status |-> "error", state |-> <<>>]
    [] OTHER        -> [status |-> "pending", state |-> <<>>]

Abs == INSTANCE StateResolution WITH outcome <- Outcome

(* Variant of SortKey that forgets to negate the power level. *)
SortKeyUnnegated == [n \in DOMAIN graph |-> <<plMap[n], Ev[n].ts, n>>]

(* TieBreaker of reverse_topological_power_sort: <<-power, ts, id>>. *)
SortKey == [n \in DOMAIN graph |-> <<-plMap[n], Ev[n].ts, n>>]

(* The list the running iterative_auth_check works through. *)
CheckList == IF pc = "authControls" THEN sorted ELSE sortedLeft

Init ==
  /\ stateSets \in [1..NumSets -> Forks]
  /\ authChains = [i \in 1..NumSets |-> Abs!AuthChainOf(stateSets[i])]
  /\ pc = "separate"
  /\ clean = <<>> /\ conflicted = <<>> /\ fullConflicted = {}
  /\ toSeed = {} /\ graph = <<>> /\ stack = <<>> /\ plMap = <<>>
  /\ outdegree = <<>> /\ reverse = <<>> /\ heap = EmptyBag /\ sorted = <<>>
  /\ resolved = <<>> /\ idx = 1 /\ eventsToResolve = {}
  /\ plCursor = NoId /\ mainline = <<>> /\ toRank = {} /\ orderMap = <<>>
  /\ sortedLeft = <<>> /\ result = <<>>

-----------------------------------------------------------------------------
(* separate, then the early return when nothing conflicts. *)
SeparateState ==
  LET sep == Separate(stateSets)
  IN  /\ pc = "separate"
      /\ clean' = sep.clean
      /\ conflicted' = sep.conflicted
      /\ IF DOMAIN sep.conflicted = {}
         THEN pc' = "done" /\ result' = sep.clean
         ELSE pc' = "filter" /\ UNCHANGED result
      /\ UNCHANGED <<inputVars, fullConflicted, graphVars, topoVars, authVars,
                     mainVars>>

(* Step 3 of resolve: all_conflicted becomes `ids`, the ids the control  *)
(* pass works on.                                                         *)
FilterTo(ids) ==
  /\ pc = "filter"
  /\ fullConflicted' = ids
  /\ pc' = "controls"
  /\ UNCHANGED <<inputVars, clean, conflicted, graphVars, topoVars, authVars,
                 mainVars, result>>

(* Variant of FilterConflicted without the event_exists filter. *)
FilterConflictedUnchecked ==
  FilterTo(AuthChainDiff(authChains) \cup UNION Range(conflicted))

(* The auth chain difference plus the conflicted ids, keeping those the   *)
(* event_exists closure confirms.                                         *)
FilterConflicted ==
  FilterTo({id \in AuthChainDiff(authChains) \cup UNION Range(conflicted) : id \in Exists})

(* The control events: is_power_event_id over all_conflicted. *)
SelectControls ==
  /\ pc = "controls"
  /\ toSeed' = {id \in fullConflicted : IsPowerEventId(id)}
  /\ pc' = "graph"
  /\ UNCHANGED <<inputVars, sepVars, graph, stack, plMap, topoVars, authVars,
                 mainVars, result>>

(* The next control event starts a walk of add_event_and_auth_chain_to_graph. *)
SeedGraph ==
  /\ pc = "graph" /\ stack = <<>>
  /\ \E e \in toSeed : stack' = <<e>> /\ toSeed' = toSeed \ {e}
  /\ UNCHANGED <<inputVars, pc, sepVars, graph, plMap, topoVars, authVars,
                 mainVars, result>>

(* Variant of WalkGraph that adds an edge only to the ids it pushes. *)
WalkGraphNewEdgesOnly ==
  LET eid    == Last(stack)
      g1     == IF eid \in DOMAIN graph THEN graph ELSE Put(graph, eid, {})
      auth   == IF eid \in Fetchable THEN Ev[eid].auth ELSE <<>>
      fresh  == SelectSeq(auth, LAMBDA a : a \in fullConflicted /\ a \notin DOMAIN g1)
  IN  /\ pc = "graph" /\ stack # <<>>
      /\ graph' = [g1 EXCEPT ![eid] = @ \cup Range(fresh)]
      /\ stack' = Front(stack) \o fresh
      /\ UNCHANGED <<inputVars, pc, sepVars, toSeed, plMap, topoVars,
                     authVars, mainVars, result>>

(* One iteration of the worklist: pop an id, make it a node, add an edge  *)
(* to each auth event inside the auth diff and push those not yet nodes.  *)
WalkGraph ==
  LET eid    == Last(stack)
      g1     == IF eid \in DOMAIN graph THEN graph ELSE Put(graph, eid, {})
      auth   == IF eid \in Fetchable THEN Ev[eid].auth ELSE <<>>
      inDiff == SelectSeq(auth, LAMBDA a : a \in fullConflicted)
  IN  /\ pc = "graph" /\ stack # <<>>
      /\ graph' = [g1 EXCEPT ![eid] = @ \cup Range(inDiff)]
      /\ stack' = Front(stack) \o SelectSeq(inDiff, LAMBDA a : a \notin DOMAIN g1)
      /\ UNCHANGED <<inputVars, pc, sepVars, toSeed, plMap, topoVars,
                     authVars, mainVars, result>>

(* event_to_pl: the sender's power level of every node of the graph. *)
ComputePowerLevels ==
  /\ pc = "graph" /\ stack = <<>> /\ toSeed = {}
  /\ plMap' = [n \in DOMAIN graph |-> PowerLevelForSender(n)]
  /\ pc' = "topoStart"
  /\ UNCHANGED <<inputVars, sepVars, toSeed, graph, stack, topoVars, authVars,
                 mainVars, result>>

(* Variant of StartTopoSort whose key function skips a node it cannot  *)
(* fetch instead of failing.                                             *)
StartTopoSortSkipMissing ==
  /\ pc = "topoStart"
  /\ Topo!Start([n \in DOMAIN graph \cap Fetchable |-> graph[n]])
  /\ pc' = "topo"
  /\ UNCHANGED <<inputVars, sepVars, graphVars, authVars, mainVars, result>>

(* The sort starts once every node can be fetched for its key. *)
StartTopoSort ==
  /\ pc = "topoStart" /\ DOMAIN graph \subseteq Fetchable
  /\ Topo!Start(graph)
  /\ pc' = "topo"
  /\ UNCHANGED <<inputVars, sepVars, graphVars, authVars, mainVars, result>>

(* key_fn fetches every node without outgoing edges before the loop; an  *)
(* id event_exists confirmed but the fetcher cannot return has no edges   *)
(* (its auth events were never read), so the sort fails with NotFound.   *)
TopoKeyNotFound ==
  /\ pc = "topoStart" /\ ~(DOMAIN graph \subseteq Fetchable)
  /\ pc' = "error"
  /\ UNCHANGED <<inputVars, sepVars, graphVars, topoVars, authVars, mainVars,
                 result>>

PopTopoSort ==
  /\ pc = "topo"
  /\ Topo!Pop(SortKey)
  /\ UNCHANGED <<inputVars, pc, sepVars, graphVars, authVars, mainVars,
                 result>>

(* The sort returns; iterative_auth_check over the controls starts from   *)
(* a clone of the unconflicted state.                                     *)
FinishTopoSort ==
  /\ pc = "topo" /\ Topo!Finished
  /\ pc' = "authControls" /\ resolved' = clean /\ idx' = 1
  /\ UNCHANGED <<inputVars, sepVars, graphVars, topoVars, mainVars, result>>

-----------------------------------------------------------------------------
(* One iteration of iterative_auth_check: assemble the auth context, pick *)
(* a third-party invite from it as find_map does, auth_check the event    *)
(* and insert it into the resolved state on accept.                       *)
AuthCheckNext ==
  /\ pc \in {"authControls", "authRest"}
  /\ idx <= Len(CheckList)
  /\ LET e   == CheckList[idx]
         tps == ThirdPartyInvitesIn(AuthContext(e, resolved))
     IN  \E tpi \in IF tps = {} THEN {NoId} ELSE tps :
           resolved' = AuthStepWith(e, resolved, tpi)
  /\ idx' = idx + 1
  /\ UNCHANGED <<inputVars, pc, sepVars, graphVars, topoVars, mainVars,
                 result>>

(* The control pass ends with `rest` left to resolve: mainline_sort      *)
(* starts from the resolved power-levels event, or the second pass starts *)
(* at once when nothing is left.                                          *)
FinishControlsLeaving(rest) ==
  /\ pc = "authControls" /\ idx > Len(sorted)
  /\ eventsToResolve' = rest
  /\ IF rest = {}
     THEN /\ pc' = "authRest" /\ idx' = 1 /\ sortedLeft' = <<>>
          /\ UNCHANGED <<plCursor, toRank>>
     ELSE /\ pc' = "mainline" /\ toRank' = rest
          /\ plCursor' = IF PowerLevelsKey \in DOMAIN resolved
                         THEN resolved[PowerLevelsKey] ELSE NoId
          /\ UNCHANGED <<idx, sortedLeft>>
  /\ UNCHANGED <<inputVars, sepVars, graphVars, topoVars, resolved,
                 mainline, orderMap, result>>

(* Variant of FinishControls that removes only the controls that passed. *)
FinishControlsAcceptedOnly == FinishControlsLeaving(fullConflicted \ Range(resolved))

(* The controls are resolved: every sorted control, accepted or not,      *)
(* leaves all_conflicted.                                                 *)
FinishControls == FinishControlsLeaving(fullConflicted \ Range(sorted))

(* One iteration of the mainline loop: append the current power-levels   *)
(* event and descend to the first power-levels event among its auth       *)
(* events, fetching each one before it.                                   *)
ExtendMainline ==
  /\ pc = "mainline" /\ plCursor # NoId
  /\ NextMainlineParent(plCursor) # MissingId
  /\ mainline' = Append(mainline, plCursor)
  /\ plCursor' = NextMainlineParent(plCursor)
  /\ UNCHANGED <<inputVars, pc, sepVars, graphVars, topoVars, authVars,
                 eventsToResolve, toRank, orderMap, sortedLeft, result>>

(* An auth event of a mainline event cannot be fetched: NotFound aborts. *)
MainlineNotFound ==
  /\ pc = "mainline" /\ plCursor # NoId
  /\ NextMainlineParent(plCursor) = MissingId
  /\ pc' = "error"
  /\ UNCHANGED <<inputVars, sepVars, graphVars, topoVars, authVars, mainVars,
                 result>>

(* One iteration of the order_map loop. `if let Some` skips an event the *)
(* fetcher cannot return (depth `unfetched` when MissingId) and          *)
(* `if let Ok(depth)` one that has no mainline depth.                     *)
RankEventBy(unfetched) ==
  /\ pc = "mainline" /\ plCursor = NoId
  /\ \E e \in toRank :
       LET depth == IF e \in Fetchable THEN MainlineDepth(e, MainlineMap(mainline))
                    ELSE unfetched
           ranks == depth # MissingId
       IN  /\ toRank' = toRank \ {e}
           /\ orderMap' = IF ranks THEN Put(orderMap, e, <<depth, Ev[e].ts, e>>)
                          ELSE orderMap
  /\ UNCHANGED <<inputVars, pc, sepVars, graphVars, topoVars, authVars,
                 eventsToResolve, plCursor, mainline, sortedLeft, result>>

(* Variant of RankEvent that passes the fetch result to get_mainline_depth *)
(* without `if let Some` (depth 0 for a missing event).                     *)
RankEventUnfetchedDepthZero == RankEventBy(0)

RankEvent == RankEventBy(MissingId)

(* mainline_sort returns the ranked ids in <<depth, ts, id>> order and    *)
(* iterative_auth_check over them starts from the resolved controls.      *)
SortByMainline ==
  /\ pc = "mainline" /\ plCursor = NoId /\ toRank = {}
  /\ sortedLeft' = SetToSortSeq(DOMAIN orderMap,
                                LAMBDA a, b : KeyLess(orderMap[a], orderMap[b]))
  /\ pc' = "authRest" /\ idx' = 1
  /\ UNCHANGED <<inputVars, sepVars, graphVars, topoVars, resolved,
                 eventsToResolve, plCursor, mainline, toRank, orderMap,
                 result>>

(* The end of resolve: the result is `merged`. *)
FinishResolveWith(merged) ==
  /\ pc = "authRest" /\ idx > Len(sortedLeft)
  /\ result' = merged
  /\ pc' = "done"
  /\ UNCHANGED <<inputVars, sepVars, graphVars, topoVars, authVars, mainVars>>

(* Variant that merges the other way round, clean.extend(resolved_state):  *)
(* the auth passes' decisions win over the unconflicted state.            *)
FinishResolveCleanFirst == FinishResolveWith(Extend(clean, resolved))

(* The unconflicted state is put back over the resolved state. *)
FinishResolve == FinishResolveWith(Extend(resolved, clean))

Next ==
  \/ SeparateState \/ FilterConflicted \/ SelectControls
  \/ SeedGraph \/ WalkGraph \/ ComputePowerLevels
  \/ StartTopoSort \/ TopoKeyNotFound \/ PopTopoSort \/ FinishTopoSort
  \/ AuthCheckNext \/ FinishControls
  \/ ExtendMainline \/ MainlineNotFound \/ RankEvent \/ SortByMainline
  \/ FinishResolve

Spec == Init /\ [][Next]_vars

-----------------------------------------------------------------------------
Keys == {StateKey(e) : e \in Ids}
IsStateMap(m) == DOMAIN m \subseteq Keys /\ Range(m) \subseteq Ids

TypeOK ==
  /\ pc \in {"separate", "filter", "controls", "graph", "topoStart", "topo",
             "authControls", "mainline", "authRest", "done", "error"}
  /\ IsStateMap(clean) /\ IsStateMap(resolved) /\ IsStateMap(result)
  /\ DOMAIN conflicted \subseteq Keys /\ \A k \in DOMAIN conflicted : conflicted[k] \subseteq Ids
  /\ fullConflicted \subseteq Exists /\ toSeed \subseteq fullConflicted
  /\ DOMAIN graph \subseteq Ids /\ \A n \in DOMAIN graph : graph[n] \subseteq fullConflicted
  /\ stack \in Seq(Ids)
  /\ sorted \in Seq(DOMAIN graph) /\ sortedLeft \in Seq(eventsToResolve)
  /\ idx \in 1..Cardinality(Ids) + 1
  /\ plCursor \in Ids \cup {NoId} /\ mainline \in Seq(Ids)
  /\ toRank \subseteq eventsToResolve /\ DOMAIN orderMap \subseteq eventsToResolve

(* The graph walk and the Kahn loop together never let a control event be *)
(* auth-checked before a conflicted auth event of its own: every auth     *)
(* event of a sorted control that lies in all_conflicted precedes it.     *)
ControlsAfterAuthAncestors ==
  \A i \in DOMAIN sorted :
    Range(Ev[sorted[i]].auth) \cap fullConflicted \subseteq Range(SubSeq(sorted, 1, i - 1))

(* Spec invariant 3: the output of resolve holds an event for every state *)
(* key that appeared in any input. The code inserts a conflicted event    *)
(* only when auth_check accepts it, so a key whose every candidate is     *)
(* rejected is missing from the result.                                   *)
EveryInputKeyResolved ==
  pc = "done" => DOMAIN result = UNION {DOMAIN stateSets[i] : i \in DOMAIN stateSets}

(* Spec section 7: inside mainline sort a missing auth parent aborts the *)
(* resolution with NotFound. mainline_sort drops an event whose          *)
(* get_mainline_depth fails (`if let Ok(depth)`) and goes on, so an event *)
(* of events_to_resolve may never be auth-checked while resolve succeeds. *)
NoEventSilentlyDropped ==
  pc \in {"authRest", "done"} => Range(sortedLeft) = eventsToResolve

(* Spec sections 4.7 and 6.1: an auth event that cannot be fetched is    *)
(* fatal inside iterative auth. iterative_auth_check only logs a warning  *)
(* and checks the event against the auth events it did fetch, so resolve  *)
(* can succeed after auth-checking an event with a missing auth parent.   *)
MissingAuthParentIsFatal ==
  pc = "done" =>
    \A e \in Range(sorted) \cup Range(sortedLeft) : Range(Ev[e].auth) \subseteq Fetchable

(* The fetch at the head of iterative_auth_check (NotFound) is never hit: *)
(* every id either auth pass checks can be fetched, even when event_exists *)
(* confirms ids the fetcher cannot return. The sort fails on such an id    *)
(* among the controls' graph first, and mainline_sort skips it (563).      *)
IterativeAuthNeverFetchesMissing ==
  pc \in {"authControls", "authRest"} => Range(CheckList) \subseteq Fetchable

(* The mainline walk of mainline_sort (533-552) ends: it never comes back *)
(* to a power-levels event it has already pushed, from where it would push *)
(* the same cycle forever.                                                 *)
MainlineWalkEnds ==
  pc = "mainline" => plCursor \notin Range(mainline)

(* resolve implements StateResolution: whatever order the hash maps and  *)
(* sets are iterated in, the call returns the same state map (or the same *)
(* error) as the declarative pipeline.                                   *)
ResolveImplementsSpec == Abs!Spec

=============================================================================
