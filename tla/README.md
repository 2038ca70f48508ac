# TLA+ models of the data-server intent merge engine

This directory holds TLA+ specifications of the data-server's intent
pipeline, together with the TLC configurations that check them.

When a client sends a `SetIntent`, the datastore does the following. Several
intents ("owners") may configure the same leaf with different priorities.

1. It takes the datastore's try-lock.
2. It builds a throw-away config tree from the intended store, which holds every
   owner's claims.
3. It resolves each leaf to the claim with the best (lowest) priority.
4. It pushes the resulting updates and deletes to the device.
5. It writes the intended store, the config store and the intents store, which
   holds the raw request blobs.

## System inventory

| Part | Source | What it does | Interacts with |
|---|---|---|---|
| Leaf variants | `src/pkg/tree/yang-parser-adapter.go` 144-257 | The claims of all owners on one leaf. Implements `shouldDelete` and the `GetHighestPrecedence` scan. | Tree entries |
| Tree entries | `src/pkg/tree/entry.go` | Path insertion (`AddCacheUpdateRecursive`), `MarkOwnerDelete`, delete aggregation over keyed lists and presence containers (`GetDeletes`), choice/case resolvers, mandatory checks, `Navigate`, `AddChild` | Leaf variants, TreeContext (cache/schema) |
| Intent transaction | `src/unnamed/part_000` (`SetIntent`, `applyIntent`), `src/pkg/datastore/intent_rpc_set_update.go` (`populateTree`, `SetIntentUpdate`) | Lock, candidate, tree build, delta extraction, validation, southbound push, store writes | Cache client (intended, config and intents stores), southbound target |
| Raw intents | `src/unnamed/part_000` 305-404, 488-490 | Request blobs stored under `__raw_intent__<owner>_<priority>`, then listed and parsed back | Cache client (intents store) |
| NETCONF target | `src/unnamed/part_001` | `Set` issues edit-config of the deletes, then of the adds, on the candidate, then commits. It also covers `Get`, periodic `Sync`, and reconnect on EOF. | Device, config store (sync) |
| XPath adapter | `src/pkg/tree/yang-parser-adapter.go` 1-143 | Exposes tree entries to the schema's XPath engine (leafref and must evaluation) | Tree entries |
| Integer ranges | `src/pkg/utils/srnges.go` | Range check of integer leaf values | Schema validation |
| Validation client | `src/pkg/datastore/clients/validationClient.go` | Delegation to the schema client | - |

## Modules

| Module | Models | State / operators |
|---|---|---|
| `LeafVariants` | `LeafVariants` methods and the leaf step of `AddCacheUpdateRecursive` / `MarkOwnerDelete` | Pure operators over a sequence of variant records `[owner, priority, value, isNew, isUpdated, delete]`. The sequence keeps the slice order, because equal priorities are resolved by position. `PrecedenceScan` is the `for` loop of `GetHighestPrecedence`, written as a fold. |
| `MergeSpec` | the promise of the merge engine (spec.md sections 4.2 and 8) | `claims` (the intended store) and `running` (the device). A `SetIntent` replaces an owner's claims in one step, and the device then shows a best-priority claim at every path. |
| `IntentMerge` | one datastore's `SetIntent` pipeline | The variables are `intended`, `device`, `config`, `raw` and `txn` (the request in flight, which also means the lock is held). There is one action per step: `SetIntent` (TryLock and dispatch), `BuildTree` (populateTree, FinishInsertionPhase and the four delta queries), `Abort` (any error before the push), `ApplyIntent` (sbi.Set), `StoreIntended`, `StoreConfig` and `StoreRaw`, and `StoreFail` (a store write failing after the push). The ghost `acked` is the request just answered OK. The ghost `lost` is, per owner, the latest request if it failed after its push. |
| `MCIntentMerge` | TLC instance | Model values for owners, paths and values, plus priority assignments and request sets |
| `NetconfTarget` | `ncTarget` in `src/unnamed/part_001` and the device behind it | The device state is `running`, `candidate` and `alive` (the current session is up). The target state is `connected` and the goroutines: `setSt` (the one Set in flight), `syncSt` (the sync goroutine), `pending` (reconnect goroutines waiting on the mutex `m`) and `rec` (the one holding it). `cfgStore` is the datastore's config store. |
| `Ranges` | `SRnges` in `src/pkg/utils/srnges.go` | The variable `rnges` is the list of ranges. `Init` is `NewSrnges` and `AddRange` is `addRange`. `IsWithinAnyRange` and `IsInRange` are operators. `ParseInt` is `strconv.ParseInt(value, 10, BitSize)`: an optional sign, then the digit loop of `ParseUint` (a fold), then the asymmetric cutoff. A reference (`Spells`, `Admitted`) is built from the decimal spellings of integers and the union of the ranges. |
| `MCRanges` | TLC instance | Bit size 4, strings of up to three characters over `+ - 0 1 7 8 x`, bounds {-8, 0, 1, 7} |
| `MCNetconfTarget` | TLC instance | Two paths and two values as model values |
| `ConfigTree` | the tree of `src/pkg/tree/entry.go` over a schema, built by `populateTree` | Entries are paths over a fixed schema (`SchemaOf`: `MandatoryContainer(keys, choices, mandatory)`, `Container(keys, choices)`, `PresenceContainer` or `Field`). The state is `nodes` (entries created), `lv` (the leaf variants per leaf path), `res` (the choice resolvers once finished), `toLoad` and `toAdd` (claims still to insert) and `phase`. The tree queries (`EntryShouldDelete`, `EntryGetDeletes`, `EntryGetHighestPrecedence`, `BranchValue`, `AncestorSchema`, `Navigate`, `ValidateMandatory`, `EntryGetByOwner`) are RECURSIVE operators over the entries. |
| `RawIntentsSpec` | what the intents store promises (spec.md sections 4.2 and 5) | `intents`, a function from (owner, priority) to the saved request. `Save` and `Delete` change one pair. `Get` reads a pair, and `Listing` sorts the pairs by priority and then by name. |
| `RawIntents` | `saveRawIntent`, `deleteRawIntent`, `getRawIntent`, `listRawIntent` (`src/unnamed/part_000` 305-404), `rawIntentName` (488-490), `GetIntent` and `ListIntent` | `store`, the INTENTS store: a function from keys (strings as sequences of characters) to request blobs. The conversions are modelled by what they do: `%d` (`FormatInt`), `strings.TrimPrefix`, `Split` and `Join`, `strconv.Atoi` and the `int32()` wrap-around (`Int32`, at width `PrioBits`), and Go's byte order on strings (`StrLess`). `ListRawIntent` returns every sorted permutation of the parsed keys, because the cache returns keys in any order and `sort.Slice` is not stable. |
| `MCRawIntents` | TLC instance | Owner names `""`, `a`, `a_`, `a_1` and `_r_` (the key prefix); priorities -1, 2 and 12, so that `a_` at 12 and `a_1` at 2 would collide without the separator; 2 update tokens; at most 3 stored requests. |
| `MCConfigTree` | TLC instance | A root with a keyed list `l` (one instance `i1` with key leaf `k` and mandatory leaf `m`), a container `c` with choice `caseA: x` / `caseB: y` and a leaf `z`, and a presence container `p` with a leaf `q`. Owner O (priority 5) and another owner B; store and request sets per run. |

How `IntentMerge` corresponds to the code:

- **Reading the intended store.** The tree is built from what the code reads.
  - The keys of the intended store give the paths the owner already claims (`TouchedPaths`).
  - The `PriorityCount` best priority groups are read per path (`TopPriorities`, `LoadOrders`). The real loader, `RootEntry.LoadIntendedStoreOwnerData` (called at `intent_rpc_set_update.go:88`), is not in this repository, so both are modelled from the spec. Reading two groups is an assumption about that loader.
  - The owner's own claims are also loaded (`LoadedClaims`).
  - Each group comes back in any order, and `LoadOrders` lets TLC try every order. That is where the tie behaviour comes from.
- **Writing the intended store.** The write is keyed by the *request's* priority (`ModifyIntended`), as in `cacheClient.Modify` with `Opts{Owner, Priority}`.
- **Refinement.** `IntentMerge` implements `MergeSpec` under the mapping `claims <- ClaimsMapped`, `running <- device`.
  - `ClaimsMapped` counts the owner's data as written from the push on.
  - So the push together with the intended-store write is the abstract `SetIntent`.
  - Aborts and the config and raw writes are stuttering steps.

How `NetconfTarget` corresponds to the code:

- **Set.** One action per outcome of each RPC.
  - `SetCall` is the `connected` check.
  - `SetEditOk`, `SetEditEOF` and `SetEditError` cover the edit-config of the delete document, then of the add document. An empty document is skipped (`FirstPhase`, `AfterDelete`).
  - `SetEditError` calls Discard, which may itself fail. The code tests `err` instead of `err2`: the failure is logged (`part_001:183`) but not handled, and the changes stay pending in the candidate.
  - `SetCommitOk`, `SetCommitEOF`, `SetCommitLost` (applied, reply lost) and `SetCommitError` cover the commit. A rejected commit is not discarded.
  - `SetEOF` is the EOF branch: `Close`, `connected = false`, `go reconnect()`.
  - `SetWriteback` is the config-store write of `SetIntentUpdate` after a successful push (`intent_rpc_set_update.go` 262-268).
- **The driver is re-read per RPC.** Each RPC goes to whatever session is current (`alive`). A Set can therefore start on one session and finish on another.
- **Sync.** `SyncGet` is `internalSync` and `Get`: a get-config of running while connected. `SyncEOF` is the EOF branch that `Get` and then `internalSync` both run. It closes twice and spawns two reconnects (`pending + 2`). The two run back to back with no blocking call between them, so they are one step. `SyncPush` hands the snapshot to the config store. The consumer of `syncCh` is not in this repository; only its effect, replacing the config store, is modelled.
- **Reconnect.** `ReconnectLock` takes `m` and returns if connected. `ReconnectDialFail` and `ReconnectDial` are the dial loop. `ReconnectDone` sets `connected = true`.
- **Faults.** `Drop` is the environment closing the session. `MaxFaults` bounds drops, failed dials and lost commit replies together.
- **The device.** The candidate is shared by all sessions, as in RFC 6241 without `<lock>`, and the data-server takes no lock. `CandidateDiscardedOnClose` says whether the device drops a closed session's uncommitted edits.

How `RawIntents` corresponds to the code:

- **Writes.** `SaveRawIntent` writes the key `rawIntentName(owner, priority)` as one Modify of the intents store, replacing any earlier blob under that key. `DeleteRawIntent` removes the key. `MaxIntents` bounds the store.
- **Reads.** `ListRawIntent` follows the loop of `listRawIntent`:
  - trim the prefix;
  - split at every `_`;
  - `Atoi` of the last component, with an error if it fails;
  - join the remaining components back into the owner name;
  - sort by priority, then by name.
- **Refinement.** `RawIntents` implements `RawIntentsSpec` under `intents <- StoredIntents`. `StoredIntents` reads each (owner, priority) pair off its key.

How `ConfigTree` corresponds to the code:

- **Build.** `Init` is `NewTreeRoot`, with the claims `populateTree` loads: at every path the request or O's stored intent touches, the claims of every owner (two owners, so every priority group is read). `LoadClaim` is `AddCacheUpdateRecursive(..., false)` for a stored claim, `MarkDelete` is `MarkOwnerDelete` and `AddRequest` is `AddCacheUpdateRecursive(..., true)` for a request update. `AddCacheUpdateRecursive` creates every missing entry of the path and then applies the leaf step of `LeafVariants`.
- **Key levels.** An entry under a keyed list has no schema of its own (`HasSchema`). `AncestorSchema` counts the levels up to the list, as `GetAncestorSchema` does. `GetDeletes` uses that to delete a whole list instance when all its key leaves are to be deleted (`IsDeleteKeyAttributesInLevelDown`).
- **Choices.** `Finish` is `FinishInsertionPhase`. `ChoiceKeys` are the resolvers `initChoiceCasesResolvers` creates. `OldValues` and `NewValues` are what `populateChoiceCaseResolvers` feeds them, with the index asked at `ResolverPath`, the container's path as in the code. The resolver type is not in this repository. It is modelled from spec.md section 4.4: best and old-best are a case with the smallest value, and among equal values any such case may be chosen. `ActiveChildren` is `filterActiveChoiceCaseChilds`, and `ChoiceDeletes` is the case-delete loop of `GetDeletes`.
- **Presence containers.** A presence container holds leaf variants of its own beside its children, so `Leaves`, the paths that hold variants, includes it. `EntryShouldDelete` and `EntryGetDeletes` follow the code: an entry with variants is judged by its variants alone. The reference `DeviceView` counts a presence container as existing when it or anything below it has a value, because creating a child creates its parents.
- **Index.** `StoreIndex` is `readIntendedStoreKeysMeta`: every intended-store entry, of every owner, under the key `strings.Join(path, "_")` (`IndexKey`). The tree context's lookups (`PathExists`, and `IndexBest` for `GetBranchesHighesPrecedence`) are modelled from the spec as the keys at or below a path (`KeyBelow`).
- **Store write.** `EntryGetByOwner` is `GetByOwner` over all the children. `GetByOwnerFiltered` applies a named `LeafEntryFilter`, and `GetUpdatesForOwner` and `GetDeletesForOwner` use it. `ModifyIntended` is the intended-store Modify with `Opts{Owner, Priority}`.
- **Mandatory.** `ValidateMandatory` and `ValidateMandatoryWithKeys` follow `entry.go` 451-498. They descend the key levels of a list over the active children. At the instance, the mandatory child must be a child that is not to be deleted, or else `PathExists` must find it in the index. `TreeContext.PathExists` is not in this repository. It is modelled as a lookup in the intended store over every owner, because the call passes no owner filter. `MandatoryHolds` is the reference: every present instance has its mandatory children present.
- **Reference.** `EffectiveView` says what a device shows for a set of claims: the best claim per leaf, with the elements of a case beaten by a better claim in another case of the same choice dropped. `ApplyEdit` applies deletes (as subtrees) and updates to a view, an update displacing the other cases of its choice as RFC 7950 section 7.9 says. `DeltaCorrect` requires that the tree's deletes and updates take the old view to the new one.

## Runs

All runs use the instance of `MCIntentMerge` with 3 owners, 2 leaf paths, 2
values, priorities 1..4 and `PriorityCount = 2`, except where noted.

| Run | Cfg | Expect | Checks | Shows |
|---|---|---|---|---|
| core | `MCIntentMerge_core.cfg` | pass (88,679 states, ~20 s) | `TypeOK`, `IdempotentResend`, `RawIntentConsistent`, `MergeSpecRefined` | With one distinct priority per owner, updates, deletes and empty intents all refine the merge promise. The fallback to the second-best claim when the best owner deletes works, because two groups are read. An identical resend pushes nothing. Raw blobs follow the claims. |
| failures | `MCIntentMerge_failures.cfg` | pass (640k states with symmetry, ~35 s) | `RetryHeals` | 2 owners. Store writes after the push may fail. If a client re-sends its failed request before sending anything else, the device agrees with the intended store whenever every owner's latest request has succeeded. |
| ties | `MCIntentMerge_ties.cfg` | violation of `MergeSpecRefined` | | Owners o2 and o3 share priority 2. When the one whose value is on the device deletes, the other may be loaded first, so it is "highest, not new". Nothing is pushed and the deleted value stays. |
| prio_change | `MCIntentMerge_prio_change.cfg` | violation of `MergeSpecRefined` | | o1 re-sends with priority 3. Its priority-1 claim remains in the intended store, because the Modify is keyed by the new priority. |
| netconf_faults | `MCNetconfTarget_faults.cfg` | pass (142k states, ~15 s) | `TypeOK`, `Reconnected`, `ConfigStoreConverges` | 2 Set calls, 2 faults, RPC errors and a shared candidate. Whatever drops, failed dials and double EOF handlers happen, the target eventually stays connected on a live session. The config store eventually equals running, despite the racing writeback and lost commit replies. |
| ranges | `MCRanges.cfg` | pass (273 states, ~5 s) | `AcceptsExactlyAdmitted` | For every list of up to two ranges, and every string of up to three characters, `isWithinAnyRange` accepts exactly the spellings of admitted integers. The lists include min > max. The strings include leading zeros, `+`, `-0`, `-8` and `8` at the 4-bit cutoff. An empty list admits every value of the type. |
| session_switch | `MCNetconfTarget_session_switch.cfg` | violation of `CommitAppliesOwnRequest` | | The session drops after the delete edit-config. The sync goroutine's EOF handler and a reconnect install a new session, and Set sends its adds and commit there. The deletes died with the old session, and Set returns OK. |
| tree_list | `MCConfigTree_list.cfg` | pass (189,810 states, ~30 s) | `TreeWellFormed`, `DeltaCorrect`, `StoreWriteCorrect` | For every store of O and B (B only in the list) and every request of O over the list, the choice and `z`, the tree is prefix-closed with one variant per owner, and its deletes and updates are exactly the delta of the effective views. This covers the delete of a whole list instance when O drops its key leaf, the fallback to B's value and O switching cases. The intended-store write then holds exactly the request's claims of O beside B's, including O's claim in a case that lost. |
| tree_choice_switch | `MCConfigTree_switch.cfg` | violation of `DeltaCorrect` | | spec.md scenario D. B holds `x` (case A) at 7, and O requests `y` at 5. The delete emitted is `c/caseA`, a case name, not `c/x`. |
| tree_presence | `MCConfigTree_presence.cfg` | violation of `DeltaCorrect` | | O holds the presence container `p` and its leaf `q`, and re-sends only `q`. `p`'s own variants are all deleted, so `GetDeletes` deletes `p`, which takes `q` with it. `q` is unchanged and is not pushed again, so the device loses `q`, which O still claims. |
| tree_mandatory | `MCConfigTree_mandatory.cfg` | violation of `MandatoryEnforced` | | O holds `k` and the mandatory `m` of `i1`, and sends a request with only `k`. The tree marks `m` for deletion, but `PathExists` finds O's own old `m` in the index, so validation passes and the device keeps `i1` without `m`. |
| raw_intents | `MCRawIntents.cfg` | pass (4,091 states, ~5 s) | `RoundTrip`, `RawIntentsRefined` | For owner names that contain `_`, end in it, or repeat the key prefix, and for signed priorities, each key names one (owner, priority) pair. So the store implements `RawIntentsSpec`. Whatever order the cache returns the keys in, `ListIntent` returns exactly the stored pairs in order, and `GetIntent` finds each one. |

Further cfgs reproduce the behaviours below. They are not in the run list of `PROJECT.json`, and each is recorded as a hazard with a note:

- `MCIntentMerge_empty_intent.cfg` (violation of `AckedIntentInForce`): A request with no updates and no delete flag is acknowledged with no effect. spec.md scenario C expects a delete.
- `MCNetconfTarget_commit_error.cfg` (violation of `CommitAppliesOwnRequest`): A rejected commit leaves its edits in the candidate. The next Set commits them, so a failed request's values reach running.
- `MCConfigTree_fallback.cfg` (violation of `DeltaCorrect`): O removes its `y`, which beat B's `x`. Only `y` is deleted. `x` is never loaded into the tree, so it is never pushed back, although it is now the best claim.
- `MCIntentMerge_orphan.cfg` (violation of `RetryHeals`): Without the re-send discipline, a delete sent after a failed update leaves the pushed value on the device for good.
- `MCIntentMerge_delete_with_updates.cfg` (violation of `RawIntentConsistent`): Updates together with delete=true are applied and stored, but the raw blob is deleted.
- `MCConfigTree_sibling.cfg` (violation of `DeltaCorrect`): B claims `z` beside the choice. The index is asked at the container's path, so every case gets B's priority as its old value, and the resolver may name different best and old-best cases.
- `MCConfigTree_navigate.cfg` (violation of `NavigateReachesChild`): `Navigate` starts its loop with `cont := false`, so every non-empty path fails.

Each property of the passing runs has a mutant in `PROJECT.json`. Each mutant
is a plausible bug in the modelled code that TLC finds:

- one priority group read too few (`TopPrioritiesOffByOne`);
- an equal resend flagged updated (`AddLeafVariantAlwaysUpdate`);
- the raw blob saved on delete (`StoreRawAlwaysSave`);
- new variants not pushed (`GetHighestPrecedenceUpdatedOnly`);
- the leaf entry passed on instead of its value (`TreeUpdatesWholeEntry`);
- the whole `SyncUpdate` handed on instead of its notification (`SyncPushWholeUpdate`);
- the early return of reconnect testing `connected` the wrong way round (`ReconnectLockInverted`);
- the sync reading the candidate instead of running (`SyncGetCandidate`);
- `isInRange` with open bounds (`IsInRangeStrict`);
- only the leaf entry created, not its ancestors (`AddCacheUpdateRecursiveLeafOnly`);
- a list instance deleted when any key leaf goes, not all of them (`IsDeleteKeyAttributesInLevelDownAnyChild`);
- `GetByOwner` visiting only the active children of a choice (`EntryGetByOwnerActive`);
- the separator left out of the raw-intent key (`RawIntentNameNoSep`);
- the priority parsed from the second component instead of the last (`ParseRawIntentNamePrioSecond`).

## Bounds

- **Two paths and two values.** This allows a path to be claimed by several
  owners with different values, and one owner to claim one path while dropping
  another.
- **Three owners in core.** This allows a best claim, a fallback and a third
  owner that must be left alone.
- **Priorities 1..4.** These give the distinct, tied and changed assignments
  (`MCDistinctPriorities`, `MCTiedPriorities`, `MCChangingPriorities`).
- **`PriorityCount = 2`.** This is the smallest value at which the fallback
  works. The `TopPrioritiesOffByOne` mutant shows that 1 is not enough. It is an
  assumption about `LoadIntendedStoreOwnerData`, which is not in this repository.
- **Restricted request sets.** The core and failures runs exclude requests that
  carry both updates and delete=true (`MCNoDeleteWithUpdates`). That case is
  the separate `delete_with_updates` run. Including it in core multiplies the
  state space by about 10 and adds nothing but that violation.
- **Two owners in the failures run.** With three owners the `lost` ghost makes
  the state space too large for TLC (over 40M states).
- **Symmetry in the failures run.** That run uses symmetry over paths and
  values. No action or property singles out a path or a value, so this is
  sound.

- **NetconfTarget: `MaxSets = 2`, `MaxFaults = 2`.** Two Sets allow one to leave the candidate dirty and the next to commit it. Two faults allow a drop followed by a failed dial, or two drops, so reconnects overlap. `MaxSets = 3` also passes but takes about 2 minutes. The violation runs need only what their trace uses. No symmetry is used there, because symmetry is unsound for liveness checking.

- **Ranges: bit size 4.** `ParseInt` treats every bit size alike, so 4 bits put both sides of its cutoff (-8 parses, 8 and -9 do not) and a magnitude past 2^4 - 1 (`17`) within strings of three characters. The bounds include both type limits, so ranges at the limits and inverted ranges occur. The run does not check deadlock: once the schema's ranges are built, `addRange` is not called again.

- **ConfigTree: one list instance, one choice of two one-leaf cases, one sibling leaf, two owners.** This is the least that exercises key aggregation, case switching and fallback. Each run fixes where B's claims may lie. Stores and requests follow two rules of `expandUpdates`, which is not in this repository: a claim on a list instance includes its key leaf, and no intent claims both cases of a choice (`Legal`). B's claims are only in the list in `tree_list`, because a claim of B inside the container triggers the `entry.go:565` divergence, which `MCConfigTree_sibling.cfg` reproduces. In `tree_presence` only O claims under the presence container. That keeps B's claims, which are never loaded when O touches only `p`, from adding the separate loading issue of `intent_rpc_set_update.go:58`. The runs do not check deadlock: the tree is built once per request and then only queried.

- **RawIntents: five names, three priorities, `MaxIntents = 3`, `PrioBits = 8`.**
  - The names hold the separator inside (`a_1`) and at the end (`a_`), an empty name, and the prefix itself.
  - The priorities include a negative one. Without the separator, `a_` at 12 and `a_1` at 2 would give the same key.
  - Three stored requests give listings of three keys in every order.
  - Eight bits keep `Int32` within TLC's integers, and the priorities are well inside the range.
- **ConfigTree mandatory run.** The stores are those of the list whose effective view satisfies the mandatory rule, because a store that broke it would have been refused when it was written.

## Fairness

`IntentMerge` checks safety only. `NetconfTarget` assumes weak fairness of each goroutine group:

- `SetStep`: a Set in flight finishes. Each RPC either returns or fails with EOF when the session is gone.
- `SyncStep`: the ticker fires again for as long as the datastore runs.
- `RecStep`: a reconnect goroutine waiting on `m` gets it, and the dial loop retries after `ConnectRetry`.

Dial failures and drops are bounded by `MaxFaults`, so after the last fault a dial succeeds. No fairness is assumed for `SetCall` or `Drop`, which are client and environment steps.

## What is not modelled, and the plan

These are modelled from the spec, not from the source, because the code is not
in this repository:

- `SetIntentDelete`, modelled as the same pipeline with no updates;
- `NewLeafEntry`, `EqualSkipPath`, `MarkUpdate` and `LoadIntendedStoreOwnerData`.

`IntentMerge` uses flat leaf paths. The tree structure is in `ConfigTree`, which
does not model the following:

- lazy loading (`tryLoading`), which only the loop of `Navigate` calls, and that loop never runs;
- `Walk`, whose one caller in `populateTree` is commented out;
- the `AddChild` guards, which cannot fail on paths that follow the schema;
- the string forms.
`TreeContext.PathExists`, used by the mandatory check, is modelled from the spec.

Code that nothing calls is not modelled: `readCurrentUpdatesHighestPriorities`,
`validateChoiceCases`,
`getIntentFlatNotifications`, `pathsAddKeysAsLeaves` and
`buildPathsWithKeysAsLeaves`.

Validation and the must/leafref checks appear only as a possible failure
(`Abort`).

Not built, and why:

- **A composition of `IntentMerge` with `NetconfTarget`.** `ApplyIntent` treats `sbi.Set` as one step that succeeds or fails. `NetconfTarget` shows what that step hides:
  - a Set acknowledged with its deletes lost (`session_switch`);
  - a failed Set whose edits stay in the candidate (`MCNetconfTarget_commit_error.cfg`);
  - a lost commit reply, which `IntentMerge` sees as the push succeeding with its store writes failing (`StoreFail`, checked by `RetryHeals`).

  Joined, the two modules would show these same violations again. A passing run over the composition would need the faults turned off, and then it repeats `core`.
- **`RawIntentConsistent` under priority changes.** The raw blob of the old priority stays listed (the hazard at `part_000:311`). Showing it takes a violation run of its own, and the project is at its limit of twelve runs. The `prio_change` run already shows the same root cause in the intended store.

The parts left out entirely:

- the XPath adapter, which calls `Entry` methods this repository's `Entry` interface does not have (`Navigate` with three arguments, `GetFirstAncestorWithSchema`, `NavigateLeafRef`, `getHighestPrecedenceLeafValue`), so it belongs to another version of the tree package;
- `pathIsKeyAsLeaf`, which nothing calls;
- the validation client, which is only glue;
- the unit tests.
