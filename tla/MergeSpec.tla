----------------------------- MODULE MergeSpec -----------------------------
(***************************************************************************)
(* What the intent merge engine promises, with no tree, no deltas and no  *)
(* stores: each owner holds one intent (a priority and a partial map from *)
(* leaf paths to values); a SetIntent replaces the owner's intent in one  *)
(* step, and the device's running config then shows, at every path, the  *)
(* value of a claim of the best (lowest) priority, or nothing if no       *)
(* intent claims the path.  Equal priorities may resolve either way       *)
(* (spec.md section 9 leaves the tie-break open).                         *)
(***************************************************************************)
EXTENDS Integers

CONSTANTS Owners, Paths, Values, Priorities, NoValue

VARIABLES claims,   \* the intended store: a set of Claim records
          running   \* the device's running config: [Paths -> Values or NoValue]

Claim == [owner : Owners, priority : Priorities, path : Paths, value : Values]

\* the intent payloads: partial maps from leaf paths to values
Config == UNION {[D -> Values] : D \in SUBSET Paths}

ClaimsOf(o, pr, cfg) ==
    {[owner |-> o, priority |-> pr, path |-> p, value |-> cfg[p]] :
        p \in DOMAIN cfg}

\* the values the device may show at p for the claims st
WinningValues(st, p) ==
    LET cs   == {c \in st : c.path = p}
        best == {c \in cs : \A d \in cs : c.priority <= d.priority}
    IN  IF cs = {} THEN {NoValue} ELSE {c.value : c \in best}

Resolutions(st) ==
    {r \in [Paths -> Values \cup {NoValue}] :
        \A p \in Paths : r[p] \in WinningValues(st, p)}

Init ==
    /\ claims = {}
    /\ running = [p \in Paths |-> NoValue]

\* an owner's new intent (cfg = the empty map removes the intent)
SetIntent(o, pr, cfg) ==
    /\ claims' = {c \in claims : c.owner # o} \cup ClaimsOf(o, pr, cfg)
    /\ running' \in Resolutions(claims')

Next == \E o \in Owners, pr \in Priorities, cfg \in Config : SetIntent(o, pr, cfg)

Spec == Init /\ [][Next]_<<claims, running>>

=============================================================================
