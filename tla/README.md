# TLA+ models of ruma-state-res (State Resolution v2)

This directory holds TLA+ models of `src/crates/ruma-state-res/src/lib.rs`,
the Matrix State Resolution v2 algorithm. TLC checks them. Two other source
files are in scope and hold little behaviour:
- `ruma-common/src/events/room.rs` holds media and thumbnail types, and
  `MediaSource`'s JSON decoding and its conversions to and from
  extensible-event content (modelled in RoomMedia);
- `ruma-federation-api/src/membership/create_invite/v2.rs` holds request and
  response types.

## The system

`resolve` (lib.rs 57-170) takes:
- N state maps, each a function from `(event type, state key)` to an event id;
- the auth chain of each map;
- two caller closures over a store of events: `event_fetch` and
  `event_exists`.

It returns one merged state map or an error.

The work is sequential and runs inside a single `async` call. The only
awaits are on the caller's fetch closures, and no state is shared with other
tasks. Nothing is persisted, so there is no crash or restart case.

The hard behaviour is about order and partial information:
- the iteration order of HashMaps and HashSets;
- the tie-breaks of two sorts;
- which events the fetcher can return;
- the interplay of the auth checks with state that has already been resolved.

| Stage | Code | What it does |
|---|---|---|
| separate | 179-205 | Splits the keys into agreed ones (`clean`) and conflicted ones. |
| auth chain diff | 208-219, 90-99 | Takes the ids in some auth chains but not in all of them, adds the conflicted ids, and keeps only the ids that exist. |
| controls | 107-112, 654-687 | Selects power events: create, power levels, join rules, and kicks or bans of others. |
| graph | 242-249, 624-652 | A worklist walk from each control through auth edges that stay inside the conflicted set. |
| power sort | 251-275, 283-367 | Kahn's algorithm over outgoing edges, with a min-heap on `<<-power, ts, id>>`. |
| auth pass 1 | 123-125, 422-504 | `iterative_auth_check` of the sorted controls, starting from `clean`. |
| mainline | 130-151, 513-622 | The resolved power-levels chain. Every other conflicted event is ranked by `<<depth, ts, id>>`. |
| auth pass 2 | 155-161 | `iterative_auth_check` of the ranked events. |
| finish | 165 | `extend(clean)`: unconflicted values win. |

`auth_check` and `auth_types_for_event` live in `event_auth.rs`, which is not
among the sources. They are modelled from the spec's contract (marked
spec_modelled in PROJECT.json). The model implements a small subset of the
Matrix authorization rules:
- a create event is always accepted;
- an invite needs the target neither joined nor banned. If it carries a
  signed third-party token, it also needs the third-party invite handed to
  `auth_check` to hold that token and to come from the inviter. Otherwise the
  inviter must be joined;
- a join requires a public join rule or an existing join, and no ban;
- a kick or ban requires the ban level and more power than the target;
- any other state event requires `state_default`.

## Modules

- **Orderings**: `KeyLess`, the derived `Ord` of `TieBreaker` and of the
  order-map tuples. `HeapMin` is the heap's pop.
  `LeastTopologicalOrder` is the reference definition of the sort: a
  recursive operator that repeatedly takes the least ready node.
- **LexTopoSort**: the body of `lexicographical_topological_sort`. Its
  variables are `outdegree`, `reverse`, `heap` (a bag) and `sorted`. It has
  two actions: `Start` (lines 309-336) and `Pop` (one iteration of the loop
  at 341-364). The key is a function argument.
- **MCLexTopoSort**: drives LexTopoSort on every graph of the constant
  `Graphs` and every key from `Powers × Ages × id`.
  - `DAGs` is every graph consistent with some rank order.
  - `AllGraphs`, cycles included, is the malformed input the public function
    also accepts.
- **StateEvents**: the events as the `Event` trait and the fetcher show them.
  - `Ev` maps an id to type, state key, sender, membership, join rule, auth
    events, ts and power-levels content.
  - `Fetchable` is the set of ids the fetcher returns, and `Exists` the set
    `event_exists` confirms. They are two caller closures and need not
    agree.
  - It also holds the pure helpers of lib.rs and the spec-modelled auth
    rules.
- **StateResolution**: the abstract specification. One `Resolve` step maps
  the inputs to `Ok(map)` or `Failed`, and every stage is stated
  declaratively:
  - the unconflicted state is the keys every set holds with one event, and
    every other event a set holds is conflicted;
  - the auth chain difference is the ids in some chain and missing from
    another;
  - the graph is a reachability closure;
  - the control order is `LeastTopologicalOrder`;
  - the auth passes are folds;
  - the mainline is a recursive walk;
  - an event's mainline depth is the greatest depth in its power-levels
    ancestry (`PowerAncestry`, `MainlineDepthOf`), not the code's walk;
  - the remaining events are sorted by their key;
  - the output is the resolved map with the unconflicted keys put over it.
- **Resolve**: the detailed specification. There is one variable per local
  variable of `resolve` and its callees, plus a program counter `pc`. There
  is one action per loop iteration or step:

  | Action | Code |
  |---|---|
  | `SeparateState` | the early return at 82-85 |
  | `FilterConflicted` | 90-99 |
  | `SelectControls` | 108-112 |
  | `SeedGraph` | the `for` loop at 243, with the HashSet order left open |
  | `WalkGraph` | one pop of `state` at 636 |
  | `ComputePowerLevels` | 252-266 |
  | `StartTopoSort`, `PopTopoSort`, `FinishTopoSort` | LexTopoSort, keyed by `SortKey` |
  | `TopoKeyNotFound` | `key_fn` fails (270-271) on a node it cannot fetch, called at 320 |
  | `AuthCheckNext` | one iteration of 441-502. The third-party invite is any one in the auth context (`find_map` over a HashMap, 483-485) |
  | `FinishControls` | 132-151, with the early return of `mainline_sort` at 527 |
  | `ExtendMainline` | one iteration of 533-552 |
  | `MainlineNotFound` | the `?` at 538/543 |
  | `RankEvent` | one iteration of 562-579, with the order left open |
  | `SortByMainline` | 583-586 |
  | `FinishResolve` | 165-169 |

  Where a mutant changes one argument of a step, the step is a helper with
  that argument as a parameter: `FilterTo`, `FinishControlsLeaving`,
  `RankEventBy` and `FinishResolveWith`. The action and
  its variant are one-line uses of the helper. The variables are grouped
  (`sepVars`, `graphVars`, `topoVars`, `authVars`, `mainVars`) the way the
  stages of `resolve` own them.

  The abstract spec hands `auth_check` the third-party invite stored under
  the invite's own token, which is the deterministic choice.
  `Abs == INSTANCE StateResolution WITH outcome <- Outcome` maps `pc`/`result`
  to the abstract outcome. `ResolveImplementsSpec` is `Abs!Spec`.
- **MCResolve**: a room of 12 events.
  - The base state: create (1), alice's join (2), power levels
    {alice:100} (3), a public join rule (5) and bob's join (6).
  - Forks may apply any subset of: new power levels {alice:100, bob:50} (7),
    alice banning bob (8), bob issuing power levels (9), bob's topic (10) and
    charlie's join (11).
  - Events 4 (an older join rule) and 12 (an older bob join) appear only
    as auth events.
  - Event 12 is not fetchable in `MCFetchable`. In `MCFetchableAll` it is.
    The stale run lets `event_exists` confirm it while the
    fetcher cannot return it.
  - The universe is built so that each of these happens:
    - auth-diff events overwrite a clean key (4);
    - a walk reaches an already-visited node (9 → 6);
    - a mainline hits NotFound (9 → 12);
    - a mainline depth fails (10 → 12, its auth events being <<1, 12, 7>>).
- **MCResolveInvite**: a room where alice has issued third-party invites t1
  (5) and t2 (6) and invites dave with token t2 (7). Both invites are among
  7's auth events. The forks hold neither, both, or both and 7.
- **MCResolveCycle**: a room whose agreed power levels 3 and 4 cite each
  other as auth events. A topic held by one fork is conflicted, so
  `mainline_sort` runs.
- **RoomMediaTypes** (room.rs) holds the media types and the pure
  conversions: the custom `Deserialize` of `MediaSource`,
  `into_extensible_content`, `From<&FileContent>` and
  `EncryptedFile::from_extensible_content`.
- **RoomMedia** (room.rs) follows one media body through the calls a client
  chains on it:
  - `Deserialize` is the custom `Deserialize` at 75-93: a missing field is
    an error, and `file` wins over `url`;
  - `ToExtensible` is `into_extensible_content` (60-68);
  - `FromExtensible` is `From<&FileContent>` (96-106) with
    `EncryptedFile::from_extensible_content` (283-286).

  URIs, keys, IVs and hash maps are model values. **MCRoomMedia** has two of
  each and two protocol versions.
- **RoomImageInfo** (room.rs) follows one extensible image message, made of
  a file info, an image size and a list of thumbnails:
  - `FromExtensible` is `ImageInfo::from_extensible_content` (166-204).
    It uses `From<&ThumbnailFileContent>` (107-118) and
    `ThumbnailInfo::from_extensible_content` (238-250) on the first
    thumbnail;
  - `ThumbnailToExtensible` turns the thumbnail source back with
    `into_extensible_content`.

  **MCRoomImageInfo** has up to two thumbnails and two keys, and every
  field may be present or absent.

## Runs

Each run checks a set of properties and the section below says what each
result shows.

**lex_topo_sort** (MCLexTopoSort.cfg) passes, with 834,048 states.
- `SortIsLeastOrder`: when the heap is empty, the output is exactly the least
  topological order under the key. This also shows that no node is lost,
  and, since the reference order respects every edge, that no node is
  emitted before an auth parent.

**lex_topo_sort_cycle** (MCLexTopoSort_cycle.cfg, 3 nodes, all graphs) is a
violation run: `SortEmitsEveryNode` fails.
- In the trace every node points at node 1, which points at itself.
- No node has outdegree 0, the heap starts empty, and the code returns
  `Ok([])`.
- Spec §9 says a non-empty remainder should surface as an error.

**resolve** (MCResolve.cfg, NumSets = 2) passes, with 23,948 states. It
ranges over every pair of the 32 forks and every hash iteration order.
- `ControlsAfterAuthAncestors`: every control is sorted after its auth events
  that lie in the conflicted set.
- `ResolveImplementsSpec`: the outcome is the same whatever the iteration
  orders, and equals the declarative pipeline, error outcomes included.
  - The abstract states separation, the chain difference, the final merge
    and the mainline depth without the code's operators. So a bug in any of
    them shows here. Examples:
    - a merge the wrong way round lets the older join rule 4 replace the
      agreed rule 5;
    - a depth walk that ends quietly on NotFound ranks topic 10.
  - `PowerLevelForSender` and the auth rules are still shared between the
    two specs, so a bug in them would not show here.

**resolve_three** (MCResolve_three.cfg, NumSets = 3) passes, with 82,704
states. It uses the 16 forks without charlie's join (`MCForks3`).
- `ResolveImplementsSpec` holds. Power levels can now be conflicted among
  3, 7 and 9, and an id can lie in two of three auth chains.
- The abstract spec states the auth chain difference set-theoretically: in
  some chain and missing from another. The code counts occurrences and keeps
  counts below the number of sets (218).
- A count that keeps only ids seen exactly once passes with two sets but
  fails here.

**resolve_stale** (MCResolve_stale.cfg) passes, with 23,284 states. Here
`event_exists` confirms event 12, which the fetcher cannot return.
- If 12 is in a control's auth graph, the sort's key function fails with
  NotFound.
- Otherwise `mainline_sort` skips it at 563.
- `IterativeAuthNeverFetchesMissing`: neither auth pass is ever handed an id
  it cannot fetch, so the `NotFound` at 444 is unreachable.
- `ResolveImplementsSpec` still holds. The abstract spec fails exactly when
  the controls' graph holds an unfetchable id.

**room_media** (MCRoomMedia.cfg) passes, with 202 states.
- `NoEncryptionDowngrade`: a body that carries `file`, with or without
  `url`, stays encrypted with the same url and key. This holds through
  decoding, conversion to extensible content and conversion back.
- `ExtensibleRoundTrip`: the conversion to extensible content and back
  returns the source unchanged.

**room_image_info** (MCRoomImageInfo.cfg) passes, with 342,040 states.
- `ThumbnailRoundTrip`: the thumbnail source, turned back into extensible
  content, has the first thumbnail's url and encryption info.

**resolve_keys** is a violation run: `EveryInputKeyResolved` fails.
- Spec invariant 3 says every input key is in the output.
- In the trace, fork A bans bob and fork B also has bob's topic.
- Bob's topic is rejected, so the topic key disappears.
- This follows Matrix semantics, so the spec sentence is too strong.

**resolve_dropped** is a violation run: `NoEventSilentlyDropped` fails.
- Topic 10 is not on the mainline <<3>>. The depth walk over its auth
  events <<1, 12, 7>> fetches 1 and then fails on 12, which cannot be
  fetched.
- `if let Ok(depth)` (564) drops the topic and `resolve` returns Ok.
- Spec §7 says NotFound is fatal inside mainline sort.

**resolve_auth_missing** is a violation run: `MissingAuthParentIsFatal`
fails.
- Control 9 has auth event 12, which cannot be fetched, and it is still
  auth-checked (line 461 only warns).
- Spec §4.7/§6.1 say this is fatal.

**resolve_invite** (MCResolveInvite.cfg) is a violation run:
`ResolveImplementsSpec` fails.
- Dave's invite is conflicted, and its auth context holds both t1 and t2.
- `find_map` (483) returns whichever invite the HashMap yields first. With
  t1 the invite is rejected and dave's key is missing from the result.
- The HashMap's hash seed is random per process. So two servers can resolve
  the same inputs differently, which spec §8 rules out.

**resolve_cycle** (MCResolveCycle.cfg) is a violation run:
`MainlineWalkEnds` fails.
- The walk pushes 3, then 4, and then reaches 3 again.
- It has no visited set, so it would push the cycle forever.
- The spec assumes acyclic auth events and does not say what happens here.

Every property of a passing run has a mutant in PROJECT.json that models a
plausible bug and that TLC catches:
- a reverse graph missing its own entries;
- a parent pushed one edge early;
- a max-heap;
- no exists filter;
- edges only to new nodes;
- only accepted controls removed;
- an unnegated power level;
- a key function that skips missing nodes;
- depth 0 for an unfetched event;
- a deserializer that prefers `url`, or that has no missing-field error;
- a `from_extensible_content` that defaults `v`;
- an auth chain difference that keeps only ids seen once (three sets);
- a thumbnail conversion that drops encryption;
- a final merge the other way round, `clean.extend(resolved_state)`;
- a `separate` that ignores the sets lacking a key, so a key some set
  lacks counts as agreed;
- a `get_mainline_depth` that treats a NotFound as the end of the walk.

## Bounds and why they suffice

- **LexTopoSort** covers all 4-node DAGs, with two power levels and two ages.
  This includes:
  - nodes with two parents;
  - ties broken at every position of the key;
  - several ready nodes at once.
- **Resolve** uses NumSets = 2. With two state sets every key is either
  agreed or conflicted. The 32 forks include:
  - the ban vs. power-levels race of the spec's first scenario;
  - a topic reset (scenario 2);
  - a join under an older join rule.

  `resolve_three` adds a third set over 16 forks. This is where a key has
  three candidates and an id lies in some chains, but in neither one nor
  all of them.

## Fairness

No run assumes fairness, and no liveness property is checked.
- `resolve` is one sequential call.
- On acyclic auth events every loop runs over a finite set that shrinks, or
  over a finite chain, so termination follows from the definitions.
- On cyclic auth events the mainline loop does not terminate.
  `resolve_cycle` shows this as a safety violation (`MainlineWalkEnds`).

## Not modelled

- **Unreachable errors.** The `NotFound` of iterative auth (444) is not an
  action, because it is unreachable: `IterativeAuthNeverFetchesMissing`
  checks this. The `event_to_pl` lookup in `key_fn` (270) is unreachable as
  well, because every graph node gets a power level.
- **The order of the `key_fn` calls.** Which call fails first does not
  matter, since every failure is the same NotFound.
- **Errors outside the modelled data.** `InvalidPdu` (447, 455),
  `RoomVersion::new` and serde errors concern data the model does not
  represent.
- **Parts of room.rs.** The remaining items of room.rs are `new()`, the
  `EncryptedFileInit` and `JsonWebKeyInit` conversions, and the serde
  derives. They move fields and have no behaviour. `blurhash` is always
  `None` and is left out. `ImageContent::is_empty` is outside the sources
  and is modelled as "no dimension set".
- **create_invite v2** declares a request and a response and has no
  behaviour.
- **Cyclic auth graphs** appear only in the two cycle runs. They show the
  Kahn loop omitting nodes and the mainline loop (533) never ending.
  `get_mainline_depth` (602) loops in the same way when an event's
  power-levels ancestry is cyclic and never reaches the mainline. It is not
  run, because its recursive model would not terminate either. Every other
  universe is acyclic, as honest servers produce.
