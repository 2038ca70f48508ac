------------------------------ MODULE RawIntents ------------------------------
(***************************************************************************)
(* The raw intent store of a datastore (src/unnamed/part_000 305-404,     *)
(* 488-490).  saveRawIntent writes the request under the cache key        *)
(* rawIntentName(owner, priority) = "__raw_intent__" owner "_" priority in *)
(* the INTENTS store, deleteRawIntent removes that key, getRawIntent reads *)
(* it back, and listRawIntent reads every key and parses owner and        *)
(* priority out of it again.                                               *)
(*                                                                         *)
(* Names and keys are strings, here sequences of characters, so that the  *)
(* separator may occur inside an owner name.  The request blob is the     *)
(* record the protobuf encoding round-trips, with its update list         *)
(* abstracted to a token.                                                  *)
(***************************************************************************)
EXTENDS Integers, Sequences, SequencesExt, FiniteSets, TLC

CONSTANTS
    Names,            \* owner names, sequences of characters
    Priorities,       \* int32 priorities
    Updates,          \* request contents, abstracted to tokens
    MaxIntents,       \* bound on the number of stored requests
    RawIntentPrefix,  \* the characters of "__raw_intent__"
    Sep,              \* intentRawNameSep, "_"
    CharCode,         \* the byte value of each character (Go string order)
    PrioBits          \* width of the priority type (32 in the code)

Digits == <<"0", "1", "2", "3", "4", "5", "6", "7", "8", "9">>

VARIABLE store  \* the INTENTS store: key (a string) -> request blob

vars == <<store>>

-----------------------------------------------------------------------------
(* Conversions                                                             *)

\* fmt's %d of a non-negative magnitude
RECURSIVE Decimal(_)
Decimal(m) == IF m < 10 THEN <<Digits[m + 1]>>
              ELSE Decimal(m \div 10) \o <<Digits[(m % 10) + 1]>>

\* fmt's %d of an int32: a minus sign, then the digits
FormatInt(p) == IF p < 0 THEN <<"-">> \o Decimal(-p) ELSE Decimal(p)

\* mutant: the separator left out of the key
RawIntentNameNoSep(name, pr) == RawIntentPrefix \o name \o FormatInt(pr)

\* rawIntentName
RawIntentName(name, pr) == RawIntentPrefix \o name \o <<Sep>> \o FormatInt(pr)

\* strings.TrimPrefix
TrimPrefix(s, pre) == IF IsPrefix(pre, s) THEN SubSeq(s, Len(pre) + 1, Len(s)) ELSE s

\* strings.Split: every separator ends a component, so n separators give
\* n + 1 components, empty ones included
SplitStep(parts, c) ==
    IF c = Sep THEN Append(parts, <<>>)
    ELSE [parts EXCEPT ![Len(parts)] = Append(@, c)]
Split(s) == FoldLeft(SplitStep, <<<<>>>>, s)

\* strings.Join
Join(parts) == IF parts = <<>> THEN <<>>
               ELSE FoldLeft(LAMBDA acc, q : acc \o <<Sep>> \o q, Head(parts), Tail(parts))

\* strconv.Atoi (the short-string path): an optional sign, then one or
\* more decimal digits
DigitValue(c) == CHOOSE d \in 0..9 : Digits[d + 1] = c
Atoi(s) ==
    LET body == IF s # <<>> /\ Head(s) \in {"+", "-"} THEN Tail(s) ELSE s
        n    == FoldLeft(LAMBDA acc, c : acc * 10 + DigitValue(c), 0, body)
    IN  IF body = <<>> \/ \E i \in DOMAIN body : body[i] \notin Range(Digits)
        THEN [err |-> TRUE]
        ELSE [err |-> FALSE, n |-> IF Head(s) = "-" THEN -n ELSE n]

\* the int32() conversion: two's complement wrap-around at PrioBits
Int32(x) == ((x + 2^(PrioBits - 1)) % 2^PrioBits) - 2^(PrioBits - 1)

\* mutant: the priority taken from the second component
ParseRawIntentNamePrioSecond(key) ==
    LET comps == Split(TrimPrefix(key, RawIntentPrefix))
        inc   == Len(comps)
        pr    == IF inc < 2 THEN [err |-> TRUE] ELSE Atoi(comps[2])
    IN  IF inc < 2 \/ pr.err THEN [err |-> TRUE]
        ELSE [err |-> FALSE, intent |-> Join(SubSeq(comps, 1, inc - 1)),
              priority |-> Int32(pr.n)]

\* one iteration of the listRawIntent loop: trim, split, Atoi of the last
\* component, join the others
ParseRawIntentName(key) ==
    LET comps == Split(TrimPrefix(key, RawIntentPrefix))
        inc   == Len(comps)
        pr    == IF inc < 2 THEN [err |-> TRUE] ELSE Atoi(comps[inc])
    IN  IF inc < 2 \/ pr.err THEN [err |-> TRUE]
        ELSE [err |-> FALSE, intent |-> Join(SubSeq(comps, 1, inc - 1)),
              priority |-> Int32(pr.n)]

\* Go's < on strings: byte-wise lexicographic
RECURSIVE StrLess(_, _)
StrLess(s, t) ==
    IF s = <<>> THEN t # <<>>
    ELSE IF t = <<>> THEN FALSE
    ELSE IF s[1] = t[1] THEN StrLess(Tail(s), Tail(t))
    ELSE CharCode[s[1]] < CharCode[t[1]]

\* the sort.Slice less function of listRawIntent
IntentLess(a, b) ==
    IF a.priority = b.priority THEN StrLess(a.intent, b.intent)
    ELSE a.priority < b.priority

-----------------------------------------------------------------------------
(* Queries                                                                 *)

\* getRawIntent (and GetIntent): ErrIntentNotFound when the key is absent
GetRawIntent(name, pr) ==
    LET rin == RawIntentName(name, pr) IN
    IF rin \in DOMAIN store THEN [found |-> TRUE, req |-> store[rin]]
    ELSE [found |-> FALSE]

\* listRawIntent (and ListIntent).  The cache returns the keys in any
\* order, and sort.Slice is not stable, so the result is any sorted
\* permutation of the parsed names; an error if a key does not parse.
ListRawIntent ==
    LET parsed(ks) == [i \in DOMAIN ks |-> ParseRawIntentName(ks[i])]
        sorted(l)  == \A i, j \in DOMAIN l : i < j => ~IntentLess(l[j], l[i])
        outs       == {parsed(ks) : ks \in SetToSeqs(DOMAIN store)}
    IN  IF \E o \in outs : \E i \in DOMAIN o : o[i].err THEN {[err |-> TRUE]}
        ELSE {[err |-> FALSE,
               intents |-> [i \in DOMAIN l |-> [intent |-> l[i].intent,
                                                priority |-> l[i].priority]]] :
                 l \in {o \in outs : sorted(o)}}

\* GetIntent: the owner, priority and updates of the stored request
GetIntent(name, pr) ==
    LET r == GetRawIntent(name, pr) IN
    IF r.found
    THEN [err |-> FALSE, intent |-> r.req.intent, priority |-> r.req.priority,
          update |-> r.req.update]
    ELSE [err |-> TRUE]

\* ListIntent: the listing of listRawIntent, or its error
ListIntent == ListRawIntent

-----------------------------------------------------------------------------
(* Operations                                                              *)

Init == store = [k \in {} |-> <<>>]

\* saveRawIntent: Modify of the INTENTS store with one update, which
\* replaces a blob under the same key
SaveRawIntent(name, pr, u) ==
    LET rin == RawIntentName(name, pr) IN
    /\ rin \in DOMAIN store \/ Cardinality(DOMAIN store) < MaxIntents
    /\ store' = [k \in DOMAIN store \cup {rin} |->
                    IF k = rin THEN [intent |-> name, priority |-> pr, update |-> u]
                    ELSE store[k]]

\* deleteRawIntent: Modify of the INTENTS store with one delete
DeleteRawIntent(name, pr) ==
    LET rin == RawIntentName(name, pr) IN
    store' = [k \in DOMAIN store \ {rin} |-> store[k]]

Next == \E n \in Names, p \in Priorities :
            \/ \E u \in Updates : SaveRawIntent(n, p, u)
            \/ DeleteRawIntent(n, p)

Spec == Init /\ [][Next]_vars

-----------------------------------------------------------------------------
(* The abstract store is read off the keys: the request saved for a pair  *)
(* is the blob under the pair's key.                                       *)
StoredIntents ==
    [k \in {q \in Names \X Priorities : RawIntentName(q[1], q[2]) \in DOMAIN store} |->
        store[RawIntentName(k[1], k[2])]]

Abs == INSTANCE RawIntentsSpec WITH intents <- StoredIntents, NameBefore <- StrLess

(* Saving or deleting the raw intent of one (owner, priority) changes the *)
(* stored request of that pair and of no other: the key rawIntentName     *)
(* builds names each pair apart, even for owner names that contain the    *)
(* separator "_" or end in digits (saveRawIntent, deleteRawIntent).       *)
RawIntentsRefined == Abs!Spec

(* The round-trip law of spec.md section 5: ListIntent never fails on a   *)
(* stored key and returns exactly the stored (owner, priority) pairs,      *)
(* ordered by priority and then by name, whatever order the cache returns *)
(* the keys in; and GetIntent on each listed pair returns a request of    *)
(* that owner and priority (listRawIntent's split at the last "_",        *)
(* strconv.Atoi of a signed priority, and the sort.Slice comparator).     *)
RoundTrip ==
    \A out \in ListIntent :
        /\ ~out.err
        /\ out.intents = [i \in DOMAIN Abs!Listing |->
                             [intent |-> Abs!Listing[i][1], priority |-> Abs!Listing[i][2]]]
        /\ \A i \in DOMAIN out.intents :
              LET l == out.intents[i]
                  g == GetIntent(l.intent, l.priority)
              IN  ~g.err /\ g.intent = l.intent /\ g.priority = l.priority
=============================================================================
