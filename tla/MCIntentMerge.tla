--------------------------- MODULE MCIntentMerge ---------------------------
(***************************************************************************)
(* Model-checking instance of IntentMerge: three intents, two leaf paths, *)
(* two values.                                                             *)
(***************************************************************************)
EXTENDS IntentMerge, TLC

CONSTANTS o1, o2, o3, p1, p2, v1, v2

MCOwners == {o1, o2, o3}
\* two intents, for the runs with store failures
MCTwoOwners == {o1, o2}
MCTwoPriorities == (o1 :> {1}) @@ (o2 :> {2})
MCPaths  == {p1, p2}
MCValues == {v1, v2}
MCPriorities == 1..4

\* one priority per intent, all distinct: o1 beats o2 beats o3
MCDistinctPriorities == (o1 :> {1}) @@ (o2 :> {2}) @@ (o3 :> {3})

\* o2 and o3 share a priority: ties between intents
MCTiedPriorities == (o1 :> {1}) @@ (o2 :> {2}) @@ (o3 :> {2})

\* o1 may re-send its intent with another priority
MCChangingPriorities == (o1 :> {1, 3}) @@ (o2 :> {2}) @@ (o3 :> {4})

\* requests of the two kinds the spec defines: updates, or delete alone
MCUpdateOrDelete == {r \in AnyRequest : (DOMAIN r.cfg = {}) = r.del}

\* updates, delete alone, or nothing at all (the empty intent)
MCNoDeleteWithUpdates == {r \in AnyRequest : ~(r.del /\ DOMAIN r.cfg # {})}

\* updates with the delete flag set as well, besides the two kinds above
MCWithDeleteAndUpdates == {r \in AnyRequest : DOMAIN r.cfg # {} \/ r.del}

\* requests with updates only (SetIntentUpdate)
MCUpdatesOnly == {r \in AnyRequest : ~r.del /\ DOMAIN r.cfg # {}}

Symmetry == Permutations(MCValues) \cup Permutations(MCPaths)

=============================================================================
