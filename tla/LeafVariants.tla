---------------------------- MODULE LeafVariants ----------------------------
(***************************************************************************)
(* The leaf variants of one tree entry (pkg/tree, type LeafVariants): the  *)
(* claims that several intents ("owners") make on one leaf path, each with *)
(* a priority (lower number = higher precedence) and the flags the merge   *)
(* sets while a SetIntent request is folded into the tree.                 *)
(*                                                                         *)
(* A leaf variant is a record                                              *)
(*   [owner, priority, value, isNew, isUpdated, delete]                    *)
(* and the variants of an entry are a sequence: the Go code scans the      *)
(* slice in order and resolves equal priorities by position.  Operators   *)
(* here are pure; IntentMerge applies them to the entries of its tree.     *)
(***************************************************************************)
EXTENDS Integers, Sequences, SequencesExt

CONSTANTS
    RunningIntentName   \* reserved owner of the device's running config

\* math.MaxInt32: the "no value" answer of GetHighestPrecedenceValue
MaxInt32 == 2147483647

\* cache.Update as far as the leaf is concerned (the path is the entry's)
CacheUpdate(o, pr, v) == [owner |-> o, priority |-> pr, value |-> v]

\* NewLeafEntry(c, new): a fresh variant, neither updated nor deleted
NewLeafEntry(u, new) ==
    [owner |-> u.owner, priority |-> u.priority, value |-> u.value,
     isNew |-> new, isUpdated |-> FALSE, delete |-> FALSE]

\* LeafEntry.EqualSkipPath: the update equals the variant, path ignored
EqualSkipPath(le, u) ==
    /\ le.owner = u.owner
    /\ le.priority = u.priority
    /\ le.value = u.value

\* LeafEntry.MarkUpdate: take over the new update, flag it updated and
\* no longer deleted
MarkUpdate(le, u) ==
    [le EXCEPT !.priority = u.priority, !.value = u.value,
               !.isUpdated = TRUE, !.delete = FALSE]

\* LeafVariants.GetByOwner: index of the first variant of owner o, 0 if none
GetByOwner(lv, o) == SelectInSeq(lv, LAMBDA e : e.owner = o)

(***************************************************************************)
(* AddCacheUpdateRecursive, at the end of the path: the update joins the   *)
(* variants of the entry.  An existing variant of the same owner is kept   *)
(* (delete flag dropped) when equal, or taken over and flagged updated     *)
(* when different; otherwise the update is appended with isNew = new.     *)
(***************************************************************************)
\* mutant: the equality check skipped, an equal update flagged updated
AddLeafVariantAlwaysUpdate(lv, u, new) ==
    LET i == GetByOwner(lv, u.owner)
    IN  IF i = 0 THEN Append(lv, NewLeafEntry(u, new))
        ELSE [lv EXCEPT ![i] = MarkUpdate(@, u)]

AddLeafVariant(lv, u, new) ==
    LET i == GetByOwner(lv, u.owner)
    IN  IF i = 0 THEN Append(lv, NewLeafEntry(u, new))
        ELSE IF EqualSkipPath(lv[i], u)
             THEN [lv EXCEPT ![i].delete = FALSE]
             ELSE [lv EXCEPT ![i] = MarkUpdate(@, u)]

\* MarkOwnerDelete on one entry: flag the owner's variant (if any) deleted
MarkOwnerDelete(lv, o) ==
    LET i == GetByOwner(lv, o)
    IN  IF i = 0 THEN lv ELSE [lv EXCEPT ![i].delete = TRUE]

(***************************************************************************)
(* shouldDelete: the entry holds variants and none of them survives: each  *)
(* is deleted or belongs to the running owner, and the entry is not the   *)
(* running config alone.                                                   *)
(***************************************************************************)
ShouldDelete(lv) ==
    /\ Len(lv) > 0
    /\ ~(lv[1].owner = RunningIntentName /\ Len(lv) = 1)
    /\ \A i \in 1..Len(lv) :
          lv[i].delete \/ lv[i].owner = RunningIntentName

\* GetHighestPrecedenceValue: lowest priority of a non-deleted variant
GetHighestPrecedenceValue(lv) ==
    LET ps == {lv[i].priority : i \in {j \in 1..Len(lv) : ~lv[j].delete}}
    IN  IF ps = {} THEN MaxInt32
        ELSE CHOOSE m \in ps : \A q \in ps : m <= q

(***************************************************************************)
(* The scan of GetHighestPrecedence: <<highest, secondHighest>> as indices *)
(* into lv (0 = nil).  The first variant becomes highest; a later one     *)
(* replaces it only with a strictly lower priority, pushing it to second; *)
(* otherwise it becomes second if that is nil or of strictly higher       *)
(* priority value.  Ties thus stay with the earlier variant.              *)
(***************************************************************************)
PrecedenceScan(lv) ==
    LET Step(st, i) ==
          IF st[1] = 0 THEN <<i, st[2]>>
          ELSE IF lv[st[1]].priority > lv[i].priority THEN <<i, st[1]>>
          ELSE IF st[2] = 0 \/ lv[st[2]].priority > lv[i].priority
               THEN <<st[1], i>>
               ELSE st
    IN  FoldLeftDomain(Step, <<0, 0>>, lv)

(***************************************************************************)
(* GetHighestPrecedence(onlyIfPrioChanged): index of the variant to push   *)
(* to the device, 0 for none.  Nothing for an empty or deleted entry.     *)
(* Without the flag: the highest unless deleted, else the second.  With   *)
(* the flag: the highest only if new or updated; if the highest is        *)
(* deleted, the second when it is not deleted.                            *)
(***************************************************************************)
\* mutant: only updated variants count as changed, new ones are not pushed
GetHighestPrecedenceUpdatedOnly(lv, onlyIfPrioChanged) ==
    IF Len(lv) = 0 \/ ShouldDelete(lv) THEN 0
    ELSE
    LET hs == PrecedenceScan(lv)
        h  == hs[1]
        s  == hs[2]
    IN  IF ~onlyIfPrioChanged
        THEN IF ~lv[h].delete THEN h ELSE s
        ELSE IF ~lv[h].delete
             THEN IF lv[h].isUpdated THEN h ELSE 0
             ELSE IF s # 0 /\ ~lv[s].delete THEN s ELSE 0

GetHighestPrecedence(lv, onlyIfPrioChanged) ==
    IF Len(lv) = 0 \/ ShouldDelete(lv) THEN 0
    ELSE
    LET hs == PrecedenceScan(lv)
        h  == hs[1]
        s  == hs[2]
    IN  IF ~onlyIfPrioChanged
        THEN IF ~lv[h].delete THEN h ELSE s
        ELSE IF ~lv[h].delete
             THEN IF lv[h].isNew \/ lv[h].isUpdated THEN h ELSE 0
             ELSE IF s # 0 /\ ~lv[s].delete THEN s ELSE 0

=============================================================================
