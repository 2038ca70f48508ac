---------------------------- MODULE IntentMerge ----------------------------
(***************************************************************************)
(* One datastore's SetIntent pipeline (pkg/datastore: SetIntent,          *)
(* SetIntentUpdate, populateTree) over the leaf paths of the device.      *)
(*                                                                         *)
(* State kept between requests lives in external stores: the intended    *)
(* store (every owner's claims, keyed by owner, priority and path), the   *)
(* config store (optimistic copy of the running config), the intents      *)
(* store (raw request blobs, keyed "__raw_intent__<owner>_<priority>")    *)
(* and the device itself.  A request runs under the datastore's try-lock  *)
(* (intentMutex), so at most one transaction is in flight; it builds a    *)
(* throw-away tree from the intended store, derives the southbound        *)
(* updates and deletes, pushes them, then writes the stores one by one.   *)
(* Each external call may fail and ends the request with an error.        *)
(***************************************************************************)
EXTENDS Integers, Sequences, SequencesExt, FiniteSets, LeafVariants

CONSTANTS
    Owners,             \* intent names
    Paths,              \* leaf paths of the device (model values)
    Values,             \* leaf values
    Priorities,         \* priority numbers (int32; lower wins)
    OwnerPriorities,    \* [Owners -> SUBSET Priorities]: priorities a client uses
    NoValue,            \* sentinel: the path holds no value
    NoRequest,          \* sentinel for the ghost maps below
    PriorityCount,      \* priority groups read per path (cache Opts.PriorityCount)
    PostApplyFailures,  \* whether store writes after the push may fail
    RetryUntilSuccess   \* whether a client re-sends a request that failed
                        \* after the push before it sends another one

ASSUME /\ PriorityCount \in Nat \ {0}
       /\ OwnerPriorities \in [Owners -> SUBSET Priorities]
       /\ RunningIntentName \notin Owners
       /\ PostApplyFailures \in BOOLEAN
       /\ RetryUntilSuccess \in BOOLEAN

VARIABLES
    intended,   \* intended store: set of claim records
    device,     \* running config of the device: [Paths -> Values \cup {NoValue}]
    config,     \* config store (running-config writeback)
    raw,        \* intents store: set of <<owner, priority>> blobs present
    txn,        \* the SetIntent in flight, NoTxn when the lock is free
    acked,      \* ghost: the request just acknowledged OK (until the next one)
    lost        \* ghost, per owner: the owner's latest request, if its push
                \*        reached the device and a store write then failed

vars == <<intended, device, config, raw, txn, acked, lost>>

MS == INSTANCE MergeSpec WITH claims <- intended, running <- device

Claim   == MS!Claim
Config  == MS!Config
\* SetIntentRequest: intent name, priority, updates, delete flag
AnyRequest == {r \in [owner : Owners, priority : Priorities, cfg : Config,
                      del : BOOLEAN] : r.priority \in OwnerPriorities[r.owner]}

\* the requests clients send (a model may narrow AnyRequest)
Request == AnyRequest

Phase == {"build", "apply", "intended", "config", "raw"}
NoTxn == [pc |-> "idle"]
Txn   == [pc : Phase, req : Request, updates : Config, deletes : SUBSET Paths,
          updOwner : SUBSET Claim, delOwner : SUBSET Paths]

OwnerClaims(st, o) == {c \in st : c.owner = o}
ReqClaims(r)       == MS!ClaimsOf(r.owner, r.priority, r.cfg)

-----------------------------------------------------------------------------
(***************************************************************************)
(* populateTree                                                            *)
(***************************************************************************)

\* the paths the tree holds: the request's paths and, from the keys of the
\* intended store, every path the owner already claims
TouchedPaths(r) == DOMAIN r.cfg \cup {c.path : c \in OwnerClaims(intended, r.owner)}

\* readCurrentUpdatesHighestPriorities: the claims at p of the PriorityCount
\* best priority groups
\* mutant: one priority group fewer than PriorityCount
TopPrioritiesOffByOne(p) ==
    LET ps == {c.priority : c \in {d \in intended : d.path = p}}
    IN  {q \in ps : Cardinality({q2 \in ps : q2 < q}) < PriorityCount - 1}

TopPriorities(p) ==
    LET ps == {c.priority : c \in {d \in intended : d.path = p}}
    IN  {q \in ps : Cardinality({q2 \in ps : q2 < q}) < PriorityCount}

\* LoadIntendedStoreOwnerData: those claims and the owner's own claim at p
LoadedClaims(r, p) ==
    {c \in intended : c.path = p /\ (c.priority \in TopPriorities(p)
                                     \/ c.owner = r.owner)}

\* the groups come back in ascending priority; inside a group in any order
LoadOrders(S) ==
    {s \in SetToSeqs(S) : \A i, j \in 1..Len(s) : i < j => s[i].priority <= s[j].priority}

\* one entry of the tree: stored claims added with new = false, the owner's
\* variant marked for deletion, then the request's value added with new = true
PopulateEntry(r, p, order) ==
    LET Load(lv, c) == AddLeafVariant(lv, CacheUpdate(c.owner, c.priority, c.value), FALSE)
        loaded      == MarkOwnerDelete(FoldLeft(Load, <<>>, order), r.owner)
    IN  IF p \in DOMAIN r.cfg
        THEN AddLeafVariant(loaded, CacheUpdate(r.owner, r.priority, r.cfg[p]), TRUE)
        ELSE loaded

\* root.GetHighestPrecedence(true): the southbound updates
\* mutant: the leaf entry handed on instead of its value
TreeUpdatesWholeEntry(tree) ==
    LET ps == {p \in DOMAIN tree : GetHighestPrecedence(tree[p], TRUE) # 0}
    IN  [p \in ps |-> tree[p][GetHighestPrecedence(tree[p], TRUE)]]

TreeUpdates(tree) ==
    LET ps == {p \in DOMAIN tree : GetHighestPrecedence(tree[p], TRUE) # 0}
    IN  [p \in ps |-> tree[p][GetHighestPrecedence(tree[p], TRUE)].value]

\* root.GetDeletes(): the southbound deletes (leaf entries only here)
TreeDeletes(tree) == {p \in DOMAIN tree : ShouldDelete(tree[p])}

\* the owner's variant of entry p, as a claim
OwnerVariant(tree, p, o) == tree[p][GetByOwner(tree[p], o)]
HasOwnerVariant(tree, p, o) == GetByOwner(tree[p], o) # 0

\* GetUpdatesForOwner: the owner's variants not deleted, new or updated
UpdatesForOwner(tree, o) ==
    {[owner |-> o, priority |-> OwnerVariant(tree, p, o).priority, path |-> p,
      value |-> OwnerVariant(tree, p, o).value] :
        p \in {q \in DOMAIN tree :
                 /\ HasOwnerVariant(tree, q, o)
                 /\ ~OwnerVariant(tree, q, o).delete
                 /\ OwnerVariant(tree, q, o).isNew \/ OwnerVariant(tree, q, o).isUpdated}}

\* GetDeletesForOwner: paths of the owner's variants still marked deleted
DeletesForOwner(tree, o) ==
    {p \in DOMAIN tree : HasOwnerVariant(tree, p, o) /\ OwnerVariant(tree, p, o).delete}

-----------------------------------------------------------------------------
(***************************************************************************)
(* Store and device writes                                                 *)
(***************************************************************************)

\* cacheClient.Modify on the intended store with Opts{owner, priority}:
\* deletes and updates are keyed by (owner, priority, path)
ModifyIntended(st, o, pr, dels, upds) ==
    {c \in st : ~(c.owner = o /\ c.priority = pr
                  /\ c.path \in dels \cup {u.path : u \in upds})} \cup upds

\* a Set of deletes then updates, applied to a running config
ApplyDeltas(cfgMap, upds, dels) ==
    [p \in Paths |-> IF p \in DOMAIN upds THEN upds[p]
                     ELSE IF p \in dels THEN NoValue ELSE cfgMap[p]]

\* the intended store once the transaction's owner data is written
IntendedAfter(t) ==
    ModifyIntended(intended, t.req.owner, t.req.priority, t.delOwner, t.updOwner)

-----------------------------------------------------------------------------
(***************************************************************************)
(* Actions                                                                 *)
(***************************************************************************)

Init ==
    /\ intended = {}
    /\ device = [p \in Paths |-> NoValue]
    /\ config = [p \in Paths |-> NoValue]
    /\ raw = {}
    /\ txn = NoTxn
    /\ acked = NoRequest
    /\ lost = [o \in Owners |-> NoRequest]

\* SetIntent: TryLock, create the candidate, dispatch.  A request with
\* updates goes to SetIntentUpdate, one with delete set to SetIntentDelete,
\* any other returns OK at once.
SetIntent(r) ==
    /\ txn = NoTxn
    /\ RetryUntilSuccess => lost[r.owner] \in {NoRequest, r}
    /\ IF DOMAIN r.cfg # {} \/ r.del
       THEN /\ txn' = [pc |-> "build", req |-> r, updates |-> <<>>, deletes |-> {},
                       updOwner |-> {}, delOwner |-> {}]
            /\ acked' = NoRequest
       ELSE /\ acked' = r
            /\ UNCHANGED txn
    /\ UNCHANGED <<intended, device, config, raw, lost>>

\* populateTree, FinishInsertionPhase and the delta queries, on a private
\* tree under the lock
BuildTree ==
    /\ txn.pc = "build"
    /\ LET r == txn.req
           T == TouchedPaths(r)
       IN  \E order \in [T -> UNION {LoadOrders(LoadedClaims(r, p)) : p \in T}] :
             /\ \A p \in T : order[p] \in LoadOrders(LoadedClaims(r, p))
             /\ LET tree == [p \in T |-> PopulateEntry(r, p, order[p])]
                IN  txn' = [txn EXCEPT !.pc = "apply",
                                       !.updates = TreeUpdates(tree),
                                       !.deletes = TreeDeletes(tree),
                                       !.updOwner = UpdatesForOwner(tree, r.owner),
                                       !.delOwner = DeletesForOwner(tree, r.owner)]
    /\ UNCHANGED <<intended, device, config, raw, acked, lost>>

\* any error before the push: store reads, validation, candidate set,
\* must/leafref checks, southbound Set; nothing is written
Abort ==
    /\ txn.pc \in {"build", "apply"}
    /\ txn' = NoTxn
    /\ UNCHANGED <<intended, device, config, raw, acked, lost>>

\* applyIntent: the southbound Set commits the updates and deletes
ApplyIntent ==
    /\ txn.pc = "apply"
    /\ device' = ApplyDeltas(device, txn.updates, txn.deletes)
    /\ txn' = [txn EXCEPT !.pc = "intended"]
    /\ UNCHANGED <<intended, config, raw, acked, lost>>

\* a store write after the push fails: the request returns the error,
\* the device keeps the pushed config
StoreFail ==
    /\ PostApplyFailures
    /\ txn.pc \in {"intended", "config", "raw"}
    /\ lost' = [lost EXCEPT ![txn.req.owner] = txn.req]
    /\ txn' = NoTxn
    /\ UNCHANGED <<intended, device, config, raw, acked>>

\* Modify of the intended store with the owner's updates and deletes
StoreIntended ==
    /\ txn.pc = "intended"
    /\ intended' = IntendedAfter(txn)
    /\ txn' = [txn EXCEPT !.pc = "config"]
    /\ UNCHANGED <<device, config, raw, acked, lost>>

\* fast and optimistic writeback to the config store
StoreConfig ==
    /\ txn.pc = "config"
    /\ config' = ApplyDeltas(config, txn.updates, txn.deletes)
    /\ txn' = [txn EXCEPT !.pc = "raw"]
    /\ UNCHANGED <<intended, device, raw, acked, lost>>

\* mutant: the raw blob saved whatever the delete flag
StoreRawAlwaysSave ==
    /\ txn.pc = "raw"
    /\ LET r == txn.req IN
       /\ raw' = raw \cup {<<r.owner, r.priority>>}
       /\ acked' = r
       /\ lost' = [lost EXCEPT ![r.owner] = NoRequest]
    /\ txn' = NoTxn
    /\ UNCHANGED <<intended, device, config>>

\* deleteRawIntent or saveRawIntent, then OK; the lock is released
StoreRaw ==
    /\ txn.pc = "raw"
    /\ LET r == txn.req IN
       /\ raw' = IF r.del THEN raw \ {<<r.owner, r.priority>>}
                 ELSE raw \cup {<<r.owner, r.priority>>}
       /\ acked' = r
       /\ lost' = [lost EXCEPT ![r.owner] = NoRequest]
    /\ txn' = NoTxn
    /\ UNCHANGED <<intended, device, config>>

Next ==
    \/ \E r \in Request : SetIntent(r)
    \/ BuildTree
    \/ Abort
    \/ ApplyIntent
    \/ StoreFail
    \/ StoreIntended
    \/ StoreConfig
    \/ StoreRaw

Spec == Init /\ [][Next]_vars

-----------------------------------------------------------------------------
(***************************************************************************)
(* Properties                                                              *)
(***************************************************************************)

TypeOK ==
    /\ intended \subseteq Claim
    /\ device \in [Paths -> Values \cup {NoValue}]
    /\ config \in [Paths -> Values \cup {NoValue}]
    /\ raw \subseteq Owners \X Priorities
    /\ txn \in Txn \cup {NoTxn}
    /\ acked \in Request \cup {NoRequest}
    /\ lost \in [Owners -> Request \cup {NoRequest}]

\* Refinement mapping: from the push on, the transaction's owner data counts
\* as written, so the push and the intended-store write form one abstract step.
ClaimsMapped == IF txn.pc = "intended" THEN IntendedAfter(txn) ELSE intended

Abstract == INSTANCE MergeSpec WITH claims <- ClaimsMapped, running <- device

\* The pipeline implements the merge promise: every push leaves the device
\* showing a best-priority claim of the intended store the request produces,
\* although the tree loads only the top priority groups of each path, marks
\* the owner's old variants and derives updates from the new/updated flags.
MergeSpecRefined == Abstract!Spec

\* Re-sending an intent identical to the owner's stored claims pushes
\* nothing: the equal variant only loses its delete flag in
\* AddCacheUpdateRecursive and is neither new nor updated (spec.md
\* section 8, invariant 5).
IdempotentResend ==
    (txn.pc = "apply" /\ ReqClaims(txn.req) = OwnerClaims(intended, txn.req.owner))
        => (txn.updates = <<>> /\ txn.deletes = {})

\* A store write failing after the push leaves device and intended store
\* apart (SetIntentUpdate logs nothing back to the device); once every
\* owner's latest request has succeeded, the device shows best-priority
\* claims of the intended store again (spec.md 4.7, "at-least-once
\* convergence").  The pass run assumes clients re-send a failed request.
RetryHeals ==
    (txn = NoTxn /\ \A o \in Owners : lost[o] = NoRequest)
        => device \in MS!Resolutions(intended)

\* Between requests, the intents store holds a raw blob for (owner,
\* priority) exactly when the intended store holds claims of that owner at
\* that priority: GetIntent/ListIntent answer from the blobs, the device is
\* driven from the claims, and SetIntentUpdate writes both.
RawIntentConsistent ==
    txn = NoTxn =>
        \A o \in Owners, pr \in Priorities :
            (<<o, pr>> \in raw) <=> (\E c \in intended : c.owner = o /\ c.priority = pr)

\* Once SetIntent answered OK, the intended store holds exactly the
\* owner's acknowledged intent: its updates, or nothing for a delete or
\* an empty intent (spec.md 8, scenario C).
AckedIntentInForce ==
    (txn = NoTxn /\ acked # NoRequest) =>
        OwnerClaims(intended, acked.owner) =
            IF acked.del THEN {} ELSE ReqClaims(acked)

=============================================================================
