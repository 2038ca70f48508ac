---------------------------- MODULE RawIntentsSpec ----------------------------
(***************************************************************************)
(* What the intents store promises (spec.md sections 4.2 and 5): a raw    *)
(* request is kept per (owner, priority).  GetIntent returns the request  *)
(* saved under that pair, and ListIntent returns every pair holding one,  *)
(* ordered by priority and then by owner name.                            *)
(***************************************************************************)
EXTENDS Integers, Sequences, SequencesExt, FiniteSets

CONSTANTS
    Names,          \* owner (intent) names
    Priorities,     \* intent priorities
    Updates,        \* request contents, abstracted to tokens
    MaxIntents,     \* bound on the number of stored requests
    NameBefore(_, _) \* the order ListIntent sorts names by

VARIABLE intents  \* function from <<name, priority>> to the saved request

Pairs == Names \X Priorities

\* saving a request replaces what the pair held
Save(n, p, u) ==
    /\ <<n, p>> \in DOMAIN intents \/ Cardinality(DOMAIN intents) < MaxIntents
    /\ intents' = [k \in DOMAIN intents \cup {<<n, p>>} |->
                      IF k = <<n, p>> THEN [intent |-> n, priority |-> p, update |-> u]
                      ELSE intents[k]]

Delete(n, p) ==
    intents' = [k \in DOMAIN intents \ {<<n, p>>} |-> intents[k]]

Next == \E n \in Names, p \in Priorities :
            \/ \E u \in Updates : Save(n, p, u)
            \/ Delete(n, p)

Init == intents = [k \in {} |-> <<>>]

Spec == Init /\ [][Next]_intents

\* the answer of GetIntent for a pair
Get(n, p) == IF <<n, p>> \in DOMAIN intents
             THEN [found |-> TRUE, req |-> intents[<<n, p>>]]
             ELSE [found |-> FALSE]

\* the listing order: priority first, then name
PairBefore(a, b) == \/ a[2] < b[2]
                    \/ a[2] = b[2] /\ NameBefore(a[1], b[1])

\* ListIntent: every stored pair once, in the listing order
Listing == [i \in 1..Cardinality(DOMAIN intents) |->
               CHOOSE k \in DOMAIN intents :
                   Cardinality({j \in DOMAIN intents : PairBefore(j, k)}) = i - 1]
=============================================================================
