---------------------------- MODULE MCConfigTree ----------------------------
(* A schema with a plain container c holding a choice {caseA: x, caseB: y} *)
(* and a leaf z, and a list l keyed by k with one instance i1 holding k    *)
(* and m, m mandatory.  Owner O (priority 5) sends the request; owner B holds claims    *)
(* at priority 3 or 7.  A presence container p holds a leaf q.           *)
(*                                                                         *)
EXTENDS ConfigTree, TLC

KeyPath == <<"l", "i1", "k">>
MPath   == <<"l", "i1", "m">>
XPath   == <<"c", "x">>
YPath   == <<"c", "y">>
ZPath   == <<"c", "z">>
PPath   == <<"p">>
QPath   == <<"p", "q">>

MCTreePaths == {<<>>, <<"c">>, XPath, YPath, ZPath, <<"l">>, <<"l", "i1">>, KeyPath, MPath, PPath, QPath}

MCSchemaOf ==
    [p \in MCTreePaths |->
        CASE p = <<"c">> -> Container(<<>>, {("caseA" :> {"x"}) @@ ("caseB" :> {"y"})})
          [] p = <<"l">> -> MandatoryContainer(<<"k">>, {}, {"m"})
          [] p = PPath -> PresenceContainer
          [] p \in {<<>>, <<"l", "i1">>} -> Container(<<>>, {})
          [] OTHER -> Field]

\* what one owner may hold: the key leaf with anything of its instance
\* (expandUpdates adds the keys), and at most one case of the choice
Legal(L) == {S \in SUBSET L : /\ (MPath \in S => KeyPath \in S)
                              /\ ~(XPath \in S /\ YPath \in S)}

ClaimsOf(o, pr, S, val) ==
    {[owner |-> o, priority |-> pr, path |-> q,
      value |-> IF q = KeyPath THEN "i1" ELSE val] : q \in S}

\* O's stored intent (value v1) over leaves LO, B's claims (value v2) over LB
StoresOver(LO, LB, BPriorities) ==
    {ClaimsOf("O", 5, S1, "v1") \cup ClaimsOf("B", bp, S2, "v2") :
        S1 \in Legal(LO), S2 \in Legal(LB), bp \in BPriorities}

RequestsOver(L) ==
    UNION {{{[path |-> q, value |-> IF q = KeyPath THEN "i1" ELSE f[q]] : q \in S}
             : f \in [S -> {"v1", "v2"}]} : S \in Legal(L)}

\* the list and the choice; B claims only in the list
MCListStores   == StoresOver({KeyPath, MPath, XPath, YPath, ZPath}, {KeyPath, MPath}, {3, 7})
MCListRequests == RequestsOver({KeyPath, MPath, XPath, YPath, ZPath})

\* B claims the leaf z beside the choice, O works on the container c
MCSiblingStores   == StoresOver({XPath, YPath, ZPath}, {ZPath}, {3, 7})
MCSiblingRequests == RequestsOver({XPath, YPath, ZPath})

\* spec.md scenario D: B holds x, O with no stored intent requests y
MCSwitchStores   == StoresOver({}, {XPath}, {7})
MCSwitchRequests == RequestsOver({YPath})

\* O removes its intent on y (an empty request) while B holds x
MCFallbackStores   == StoresOver({YPath}, {XPath}, {7})
MCFallbackRequests == RequestsOver({})
\* the list alone; every store passed the mandatory check when written
MCMandatoryStores   == {S \in StoresOver({KeyPath, MPath}, {KeyPath, MPath}, {3, 7}) :
                          MandatoryHolds(EffectiveView(S))}
MCMandatoryRequests == RequestsOver({KeyPath, MPath})
\* the presence container p and its leaf q, claimed by O alone
MCPresenceStores   == StoresOver({PPath, QPath}, {}, {7})
MCPresenceRequests == RequestsOver({PPath, QPath})
=============================================================================
