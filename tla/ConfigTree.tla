----------------------------- MODULE ConfigTree -----------------------------
(***************************************************************************)
(* The config tree that SetIntentUpdate builds for one request             *)
(* (src/pkg/tree/entry.go, populateTree in intent_rpc_set_update.go).      *)
(*                                                                         *)
(* An entry is identified by its path.  Paths are sequences of names over  *)
(* a fixed schema: SchemaOf[p] is what the schema client returns for p,    *)
(* a container (with its keys and choices) or a field.                    *)
(* A keyed list instance is a key level: its entry gets no schema, and    *)
(* below it the key leaves sit beside the other leaves.                   *)
(*                                                                         *)
(* The request is built into the tree in the order of populateTree: the   *)
(* intended-store claims at the touched paths are added with new = FALSE  *)
(* (in any order), the owner's claims are marked deleted, the request's   *)
(* updates are added with new = TRUE (in any order), and                   *)
(* FinishInsertionPhase resolves the choices.  GetDeletes and              *)
(* GetHighestPrecedence(true) then give the southbound deltas.            *)
(***************************************************************************)
EXTENDS Integers, Sequences, SequencesExt, FiniteSets, LeafVariants

CONSTANTS
    Owner,          \* the request's intent (req.GetIntent())
    ReqPriority,    \* the request's priority
    TreePaths,      \* every path an entry can have, <<>> the root
    SchemaOf,       \* [TreePaths -> schema record]
    NoValue,        \* a leaf path holding nothing
    Stores,         \* intended stores to start from: sets of claims
    Requests        \* requests: sets of [path, value]

\* a schema record: kind "container" or "field"; keys a sequence of key
\* leaf names; choices a set of functions from case names to element
\* names; mandatory the names of the container's mandatory children;
\* presence whether the container's existence is itself configuration
MandatoryContainer(keys, choices, mandatory) ==
    [kind |-> "container", keys |-> keys, choices |-> choices, mandatory |-> mandatory,
     presence |-> FALSE]
Container(keys, choices) == MandatoryContainer(keys, choices, {})
PresenceContainer ==
    [kind |-> "container", keys |-> <<>>, choices |-> {}, mandatory |-> {}, presence |-> TRUE]
Field == [kind |-> "field", keys |-> <<>>, choices |-> {}, mandatory |-> {}, presence |-> FALSE]

\* the paths that hold leaf variants: fields, and presence containers,
\* which hold variants beside their children (spec.md section 3)
Leaves == {p \in TreePaths : SchemaOf[p].kind = "field" \/ SchemaOf[p].presence}

\* tree.KeysIndexSep
KeysIndexSep == "_"

VARIABLES
    store,      \* the intended store: claims [owner, priority, path, value]
    req,        \* the request's updates [path, value]
    nodes,      \* paths of the entries of the tree
    lv,         \* leafVariants of every entry, <<>> for none
    toLoad,     \* intended-store claims not yet added to the tree
    toAdd,      \* request updates not yet added to the tree
    phase,      \* "load", "request", "done"
    res         \* choice resolution per <<container, choice>>: [best, oldBest]

vars == <<store, req, nodes, lv, toLoad, toAdd, phase, res>>

Children(p) == {q \in nodes : Len(q) = Len(p) + 1 /\ Front(q) = p}

(***************************************************************************)
(* newSharedEntryAttributes: an entry gets its schema unless it is a key   *)
(* level.  GetAncestorSchema walks up to the nearest ancestor with a       *)
(* schema and counts the levels; a container ancestor with at least that  *)
(* many keys makes the entry a key level.  The root always has a schema.  *)
(***************************************************************************)
RECURSIVE AncestorSchema(_), HasSchema(_)
AncestorSchema(p) ==
    IF HasSchema(Front(p)) THEN <<Front(p), 1>>
    ELSE LET a == AncestorSchema(Front(p)) IN <<a[1], a[2] + 1>>
HasSchema(p) ==
    \/ p = <<>>
    \/ LET a == AncestorSchema(p)
       IN  ~(SchemaOf[a[1]].kind = "container" /\ Len(SchemaOf[a[1]].keys) >= a[2])

\* sharedEntryAttributes.ShouldDelete: the variants' verdict if there are
\* any, otherwise every child should be deleted
RECURSIVE EntryShouldDelete(_)
EntryShouldDelete(p) ==
    IF Len(lv[p]) > 0 THEN ShouldDelete(lv[p])
    ELSE \A c \in Children(p) : EntryShouldDelete(c)

\* GetHighestPrecedenceValueOfBranch: best priority over the branch
RECURSIVE BranchValue(_)
BranchValue(p) ==
    Min({GetHighestPrecedenceValue(lv[p])} \cup {BranchValue(c) : c \in Children(p)})

\* choicesResolvers.GetSkipElements: the elements of every case that is not
\* the resolved best one
SkipElements(p) ==
    UNION {UNION {ch[cs] : cs \in {d \in DOMAIN ch :
                     <<p, ch>> \notin DOMAIN res \/ d # res[<<p, ch>>].best}}
           : ch \in SchemaOf[p].choices}

\* filterActiveChoiceCaseChilds
ActiveChildren(p) ==
    IF ~HasSchema(p) THEN Children(p)
    ELSE {c \in Children(p) : Last(c) \notin SkipElements(p)}

\* the entry is the level right below a keyed list's key levels
InstanceLevel(p) ==
    /\ ~HasSchema(p)
    /\ LET a == AncestorSchema(p)
       IN  SchemaOf[a[1]].kind = "container" /\ a[2] = Len(SchemaOf[a[1]].keys)

\* mutant: any child that should be deleted, not the key leaves, decides
IsDeleteKeyAttributesInLevelDownAnyChild(p) ==
    \E c \in Children(p) : EntryShouldDelete(c)

\* IsDeleteKeyAttributesInLevelDown: every key leaf present should be deleted
IsDeleteKeyAttributesInLevelDown(p) ==
    \A k \in Range(SchemaOf[AncestorSchema(p)[1]].keys) :
        p \o <<k>> \in nodes => EntryShouldDelete(p \o <<k>>)

\* deletes of a choice's old best case when another case became best
ChoiceDeletes(p) ==
    IF ~HasSchema(p) \/ SchemaOf[p].kind # "container" THEN {}
    ELSE {p \o <<res[k].oldBest>> :
            k \in {k \in DOMAIN res : /\ k[1] = p
                                     /\ res[k].oldBest # "" /\ res[k].best # ""
                                     /\ res[k].oldBest # res[k].best}}

\* sharedEntryAttributes.GetDeletes: a whole list instance when its keys go,
\* the old best case of a switched choice, a deleted leaf, else the children
RECURSIVE EntryGetDeletes(_)
EntryGetDeletes(p) ==
    IF InstanceLevel(p)
    THEN IF IsDeleteKeyAttributesInLevelDown(p) THEN {p}
         ELSE UNION {EntryGetDeletes(c) : c \in Children(p)}
    ELSE ChoiceDeletes(p) \cup
         (IF Len(lv[p]) > 0 /\ ShouldDelete(lv[p]) THEN {p}
          ELSE UNION {EntryGetDeletes(c) : c \in Children(p)})

\* sharedEntryAttributes.GetHighestPrecedence: the variant to push per leaf,
\* over the active children only
RECURSIVE EntryGetHighestPrecedence(_, _)
EntryGetHighestPrecedence(p, onlyNewOrUpdated) ==
    LET i == GetHighestPrecedence(lv[p], onlyNewOrUpdated)
    IN  (IF i = 0 THEN {} ELSE {[path |-> p, value |-> lv[p][i].value]})
        \cup UNION {EntryGetHighestPrecedence(c, onlyNewOrUpdated) : c \in ActiveChildren(p)}

\* the index key of a path: strings.Join(path, KeysIndexSep)
IndexKey(p) == IF p = <<>> THEN ""
               ELSE FoldLeft(LAMBDA acc, e : acc \o KeysIndexSep \o e, Head(p), Tail(p))

\* readIntendedStoreKeysMeta: every intended-store entry, of every owner,
\* grouped under the index key of its path; populateTree hands it to the
\* tree context (SetStoreIndex)
StoreIndex == [k \in {IndexKey(c.path) : c \in store} |-> {c \in store : IndexKey(c.path) = k}]

\* an index key at or below the path q
KeyBelow(q, k) == k = IndexKey(q) \/ IsPrefix(IndexKey(q) \o KeysIndexSep, k)

\* RootEntry.GetDeletes and RootEntry.GetHighestPrecedence: from the root
RootGetDeletes == EntryGetDeletes(<<>>)
RootGetHighestPrecedence(onlyNewOrUpdated) == EntryGetHighestPrecedence(<<>>, onlyNewOrUpdated)

\* mutant: only the active children of a choice are visited
RECURSIVE EntryGetByOwnerActive(_, _)
EntryGetByOwnerActive(p, o) ==
    LET i == GetByOwner(lv[p], o)
    IN  (IF i = 0 THEN {} ELSE {[path |-> p, le |-> lv[p][i]]})
        \cup UNION {EntryGetByOwnerActive(c, o) : c \in ActiveChildren(p)}

\* sharedEntryAttributes.GetByOwner: the owner's variant of every entry of
\* the branch, over all the children
RECURSIVE EntryGetByOwner(_, _)
EntryGetByOwner(p, o) ==
    LET i == GetByOwner(lv[p], o)
    IN  (IF i = 0 THEN {} ELSE {[path |-> p, le |-> lv[p][i]]})
        \cup UNION {EntryGetByOwner(c, o) : c \in Children(p)}

\* the LeafEntryFilters (not in this repository), named
LeafEntryFilter(f, le) ==
    CASE f = "FilterDeleted" -> le.delete
      [] f = "FilterNonDeletedButNewOrUpdated" -> ~le.delete /\ (le.isNew \/ le.isUpdated)

\* RootEntry.getByOwnerFiltered: the owner's entries the filter keeps
GetByOwnerFiltered(o, f) == {e \in EntryGetByOwner(<<>>, o) : LeafEntryFilter(f, e.le)}

\* RootEntry.GetUpdatesForOwner: as cache updates
GetUpdatesForOwner(o) ==
    {[owner |-> o, priority |-> e.le.priority, path |-> e.path, value |-> e.le.value] :
        e \in GetByOwnerFiltered(o, "FilterNonDeletedButNewOrUpdated")}

\* RootEntry.GetDeletesForOwner: the paths
GetDeletesForOwner(o) == {e.path : e \in GetByOwnerFiltered(o, "FilterDeleted")}

\* the intended-store Modify of SetIntentUpdate, Opts{Owner, Priority}:
\* the deletes and then the updates, keyed by owner, priority and path
ModifyIntended(st, dels, ups) ==
    LET Hit(c) == c.owner = Owner /\ c.priority = ReqPriority
    IN  {c \in st : ~(Hit(c) /\ (c.path \in dels \/ \E u \in ups : u.path = c.path))} \cup ups

\* TreeContext.PathExists (not in this repository; spec.md section 4): the
\* index holds the path or a path below it.  The call passes no owner
\* filter, so the request owner's own stored entries count.
PathExists(q) == \E k \in DOMAIN StoreIndex : KeyBelow(q, k)

\* ValidateMandatoryWithKeys: down the key levels, then the mandatory child
\* is an active child not to be deleted, or a path of the index
RECURSIVE ValidateMandatoryWithKeys(_, _, _)
ValidateMandatoryWithKeys(p, level, attribute) ==
    IF level = 0
    THEN LET q == p \o <<attribute>>
         IN  (q \in ActiveChildren(p) /\ ~EntryShouldDelete(q)) \/ PathExists(q)
    ELSE \A c \in ActiveChildren(p) : ValidateMandatoryWithKeys(c, level - 1, attribute)

\* ValidateMandatory: TRUE when no error is returned
RECURSIVE ValidateMandatory(_)
ValidateMandatory(p) ==
    /\ (HasSchema(p) /\ SchemaOf[p].kind = "container") =>
          \A m \in SchemaOf[p].mandatory :
              ValidateMandatoryWithKeys(p, Len(SchemaOf[p].keys), m)
    /\ \A c \in Children(p) : ValidateMandatory(c)

\* sharedEntryAttributes.Navigate: cont is false before the loop, so the
\* loop never runs and every non-empty path ends in the error
Navigate(p, path) == IF path = <<>> THEN [ok |-> TRUE, entry |-> p]
                     ELSE [ok |-> FALSE, entry |-> p]
-----------------------------------------------------------------------------
(***************************************************************************)
(* The choice resolver (choiceCasesResolvers, not in this repository,      *)
(* modelled from spec.md section 4.4).  Per element, the old value is the  *)
(* intended-store index's best priority below a path, other owners only;  *)
(* the new value is the branch value of the child if it exists.  A case   *)
(* counts with the minimum of its values; the best case is one with the   *)
(* minimum, and the old best case likewise over the old values only.  The *)
(* tie-break is not specified, so any minimal case may be chosen.         *)
(***************************************************************************)
\* TreeContext.GetBranchesHighesPrecedence with CacheUpdateFilterExcludeOwner
IndexBest(q) ==
    Min({MaxInt32} \cup {c.priority : c \in {c \in UNION {StoreIndex[k] : k \in {k \in DOMAIN StoreIndex : KeyBelow(q, k)}} :
                                                 c.owner # Owner}})

\* the path populateChoiceCaseResolvers asks the index about for element e
ResolverPath(p, e) == p

\* populateChoiceCaseResolvers: the values SetValue feeds the resolver
OldValues(p, e) == IF IndexBest(ResolverPath(p, e)) < MaxInt32
                   THEN {IndexBest(ResolverPath(p, e))} ELSE {}
NewValues(p, e) == IF p \o <<e>> \in nodes THEN {BranchValue(p \o <<e>>)} ELSE {}

\* the cases a resolver may name best: "" when no case has a value
MinimalCases(ch, Vals(_)) ==
    LET withVal == {cs \in DOMAIN ch : Vals(cs) # {}}
    IN  IF withVal = {} THEN {""}
        ELSE {cs \in withVal : \A d \in withVal : Min(Vals(cs)) <= Min(Vals(d))}

Resolutions(p, ch) ==
    LET Old(cs) == UNION {OldValues(p, e) : e \in ch[cs]}
        All(cs) == Old(cs) \cup UNION {NewValues(p, e) : e \in ch[cs]}
    IN  [best : MinimalCases(ch, All), oldBest : MinimalCases(ch, Old)]

ChoiceKeys == UNION {{<<p, ch>> : ch \in SchemaOf[p].choices} :
                      p \in {q \in nodes : HasSchema(q) /\ SchemaOf[q].kind = "container"}}

-----------------------------------------------------------------------------
\* the claims populateTree loads: every intended-store claim at a path the
\* request or the owner's stored intent touches
Touched(st, rq) == {u.path : u \in rq} \cup {c.path : c \in {c \in st : c.owner = Owner}}
LoadedClaims(st, rq) == {c \in st : c.path \in Touched(st, rq)}

\* NewTreeRoot and the start of populateTree
Init ==
    /\ store \in Stores
    /\ req \in Requests
    /\ nodes = {<<>>}
    /\ lv = [p \in TreePaths |-> <<>>]
    /\ toLoad = LoadedClaims(store, req)
    /\ toAdd = req
    /\ phase = "load"
    /\ res = [k \in {} |-> [best |-> "", oldBest |-> ""]]

\* mutant: intermediate entries not created, only the leaf's own
AddCacheUpdateRecursiveLeafOnly(c, new) ==
    /\ nodes' = nodes \cup {c.path}
    /\ lv' = [lv EXCEPT ![c.path] = AddLeafVariant(@, CacheUpdate(c.owner, c.priority, c.value), new)]

\* AddCacheUpdateRecursive: create the missing entries along the path, then
\* add the update to the variants of the leaf
AddCacheUpdateRecursive(c, new) ==
    /\ nodes' = nodes \cup Prefixes(c.path)
    /\ lv' = [lv EXCEPT ![c.path] = AddLeafVariant(@, CacheUpdate(c.owner, c.priority, c.value), new)]

\* a stored claim joins the tree with new = FALSE
LoadClaim(c) ==
    /\ phase = "load"
    /\ c \in toLoad
    /\ toLoad' = toLoad \ {c}
    /\ AddCacheUpdateRecursive(c, FALSE)
    /\ UNCHANGED <<store, req, toAdd, phase, res>>

\* MarkOwnerDelete on the root, once every claim is loaded
MarkDelete ==
    /\ phase = "load"
    /\ toLoad = {}
    /\ lv' = [p \in TreePaths |-> MarkOwnerDelete(lv[p], Owner)]
    /\ phase' = "request"
    /\ UNCHANGED <<store, req, nodes, toLoad, toAdd, res>>

\* a request update joins the tree with new = TRUE
AddRequest(u) ==
    /\ phase = "request"
    /\ u \in toAdd
    /\ toAdd' = toAdd \ {u}
    /\ AddCacheUpdateRecursive([owner |-> Owner, priority |-> ReqPriority,
                                path |-> u.path, value |-> u.value], TRUE)
    /\ UNCHANGED <<store, req, toLoad, phase, res>>

\* FinishInsertionPhase: populate the choice resolvers
Finish ==
    /\ phase = "request"
    /\ toAdd = {}
    /\ res' \in {f \in [ChoiceKeys -> UNION {Resolutions(k[1], k[2]) : k \in ChoiceKeys}] :
                    \A k \in ChoiceKeys : f[k] \in Resolutions(k[1], k[2])}
    /\ phase' = "done"
    /\ UNCHANGED <<store, req, nodes, lv, toLoad, toAdd>>

Next ==
    \/ \E c \in toLoad : LoadClaim(c)
    \/ MarkDelete
    \/ \E u \in toAdd : AddRequest(u)
    \/ Finish

Spec == Init /\ [][Next]_vars
-----------------------------------------------------------------------------
(***************************************************************************)
(* Reference: what the device should show.  The effective view of a set   *)
(* of claims gives each leaf the value of its best-priority claim, and    *)
(* drops the elements of every case of a choice that another case beats.  *)
(* An edit-config applies the deletes (each removes the subtree below its  *)
(* path), then the updates; an update in one case of a choice removes the *)
(* nodes of the other cases (RFC 7950, section 7.9).                       *)
(***************************************************************************)
ClaimsOn(cl, q) == {c \in cl : c.path = q}

BestValue(cl, q) ==
    (CHOOSE c \in ClaimsOn(cl, q) : \A d \in ClaimsOn(cl, q) : c.priority <= d.priority).value

\* <<container, choice, case>> of every case whose element holds leaf q
CasesOf(q) ==
    UNION {{<<Front(q), ch, cs>> : cs \in {d \in DOMAIN ch : Last(q) \in ch[d]}}
           : ch \in SchemaOf[Front(q)].choices}

BestOfCase(cl, p, ch, cs) ==
    Min({MaxInt32} \cup {c.priority : c \in {c \in cl : \E e \in ch[cs] : IsPrefix(p \o <<e>>, c.path)}})

Beaten(cl, q) ==
    \E k \in CasesOf(q) : \E d \in DOMAIN k[2] \ {k[3]} :
        BestOfCase(cl, k[1], k[2], d) < BestOfCase(cl, k[1], k[2], k[3])

EffectiveView(cl) ==
    [q \in Leaves |-> IF ClaimsOn(cl, q) = {} \/ Beaten(cl, q) THEN NoValue
                      ELSE BestValue(cl, q)]

Displaced(q, ups) ==
    \E k \in CasesOf(q) : \E d \in DOMAIN k[2] \ {k[3]} :
        \E e \in k[2][d], u \in ups : IsPrefix(k[1] \o <<e>>, u.path)

ApplyEdit(view, dels, ups) ==
    [q \in Leaves |->
        IF \E u \in ups : u.path = q THEN (CHOOSE u \in ups : u.path = q).value
        ELSE IF Displaced(q, ups) \/ \E d \in dels : IsPrefix(d, q) THEN NoValue
        ELSE view[q]]

\* the intended store once the request is stored: the owner's claims replaced
NewClaims ==
    {c \in store : c.owner # Owner}
      \cup {[owner |-> Owner, priority |-> ReqPriority, path |-> u.path, value |-> u.value] : u \in req}

\* a node of a view is present when some leaf at or below it has a value
Present(view, q) == \E l \in Leaves : IsPrefix(q, l) /\ view[l] # NoValue

\* every present instance of a container (the container itself when it has
\* no keys) has each of its mandatory children present
MandatoryHolds(view) ==
    \A p \in {q \in TreePaths : SchemaOf[q].kind = "container"} :
        \A i \in {q \in TreePaths : IsPrefix(p, q) /\ Len(q) = Len(p) + Len(SchemaOf[p].keys)} :
            \A m \in SchemaOf[p].mandatory :
                Present(view, i) => Present(view, i \o <<m>>)

\* what the device shows of a view: a presence container exists when it or
\* anything below it holds a value (a child's create creates its parents)
DeviceView(view) ==
    [q \in Leaves |-> IF SchemaOf[q].presence
                      THEN IF Present(view, q) THEN "present" ELSE NoValue
                      ELSE view[q]]

-----------------------------------------------------------------------------
(* The tree is well formed (spec.md section 3): every entry's parent is an *)
(* entry, only leaves of the schema hold variants, and a leaf holds at     *)
(* most one variant per owner, whatever order AddCacheUpdateRecursive and  *)
(* MarkOwnerDelete ran in.                                                 *)
TreeWellFormed ==
    /\ nodes \subseteq TreePaths
    /\ \A p \in nodes : Prefixes(p) \subseteq nodes
    /\ \A p \in TreePaths :
          /\ Len(lv[p]) > 0 => p \in nodes /\ p \in Leaves
          /\ \A i, j \in DOMAIN lv[p] : lv[p][i].owner = lv[p][j].owner => i = j

(* The southbound deltas of the finished tree are right: GetDeletes names  *)
(* data nodes only, and a device that showed the effective view of the    *)
(* intended store shows the effective view of the store with the request   *)
(* applied once the deletes and then GetHighestPrecedence(true)'s updates  *)
(* are applied.  This is spec.md section 8, invariants 4 and 6, and        *)
(* scenarios B, C and D, across key aggregation, choice switches and      *)
(* presence containers, whose delete removes their children.              *)
DeltaCorrect ==
    phase = "done" =>
        LET dels == RootGetDeletes
            ups  == RootGetHighestPrecedence(TRUE)
        IN  /\ dels \subseteq TreePaths
            /\ DeviceView(ApplyEdit(EffectiveView(store), dels, ups)) = DeviceView(EffectiveView(NewClaims))

(* The intended-store write of SetIntentUpdate records the request: after  *)
(* Modify with GetDeletesForOwner and GetUpdatesForOwner, the store holds  *)
(* the other owners' claims and exactly the request's claims of the owner, *)
(* including where the owner switched cases of a choice, or kept a value   *)
(* unchanged that is therefore not written again.                         *)
StoreWriteCorrect ==
    phase = "done" =>
        ModifyIntended(store, GetDeletesForOwner(Owner), GetUpdatesForOwner(Owner)) = NewClaims

(* ValidateMandatory on the finished tree accepts the request exactly when *)
(* the device's view after it holds every mandatory child of every        *)
(* present list instance: a child the request deletes does not count, one *)
(* another owner provides through the index does (spec.md section 4,      *)
(* "Mandatory", and scenario E).                                           *)
MandatoryEnforced ==
    phase = "done" => (ValidateMandatory(<<>>) <=> MandatoryHolds(EffectiveView(NewClaims)))

(* Navigate from an entry by the name of an active child reaches that      *)
(* child (spec.md section 4.5), as leafref and must evaluation need.       *)
NavigateReachesChild ==
    phase = "done" =>
        \A p \in nodes : \A c \in ActiveChildren(p) : Navigate(p, <<Last(c)>>) = [ok |-> TRUE, entry |-> c]
=============================================================================
