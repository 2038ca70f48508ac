--------------------------- MODULE NetconfTarget ---------------------------
(***************************************************************************)
(* The NETCONF southbound target of one datastore (package target, type   *)
(* ncTarget) and the device behind it.                                    *)
(*                                                                         *)
(* Three kinds of goroutine share the target: the Set issued by           *)
(* applyIntent (at most one at a time, SetIntent holds intentMutex), the  *)
(* periodic sync goroutine (Sync / internalSync / Get) and the reconnect  *)
(* goroutines that every EOF spawns (they queue on the mutex m).  The     *)
(* flag connected and the driver are shared without a lock; each RPC      *)
(* below reads them in one step.  The device keeps a running and a        *)
(* candidate datastore; edit-config writes the candidate, commit copies   *)
(* it to running, discard-changes copies running back.  The data-server   *)
(* never locks the candidate, so what a dead session left in it stays     *)
(* unless the device drops it itself (CandidateDiscardedOnClose).         *)
(***************************************************************************)
EXTENDS Naturals, FiniteSets

CONSTANTS
    Paths,                      \* leaf paths of the device
    Values,                     \* leaf values
    NoValue,                    \* the path holds no value
    MaxSets,                    \* bound on Set calls
    MaxFaults,                  \* bound on session drops and failed dials
    RpcErrors,                  \* edit-config, commit, discard may fail without EOF
    CandidateDiscardedOnClose   \* the device drops uncommitted edits of a closed session

ASSUME /\ MaxSets \in Nat /\ MaxFaults \in Nat
       /\ RpcErrors \in BOOLEAN /\ CandidateDiscardedOnClose \in BOOLEAN

VARIABLES
    running,    \* device running datastore
    candidate,  \* device candidate datastore
    cfgStore,   \* the datastore's config store (cache)
    alive,      \* the session of the current driver is up
    connected,  \* ncTarget.connected
    pending,    \* reconnect goroutines not yet holding m
    rec,        \* the reconnect goroutine holding m: "free", "dial", "install"
    setSt,      \* the Set call in flight: [pc, req]
    syncSt,     \* the sync goroutine: [pc, snap]
    sets,       \* Set calls so far
    faults      \* drops and failed dials so far

vars == <<running, candidate, cfgStore, alive, connected, pending, rec,
          setSt, syncSt, sets, faults>>

DS     == [Paths -> Values \cup {NoValue}]
Config == UNION {[D -> Values] : D \in SUBSET Paths}

\* a SetDataRequest from applyIntent: disjoint updates and deletes, not empty
SetReq == {r \in [upd : Config, del : SUBSET Paths] :
              /\ DOMAIN r.upd \cap r.del = {}
              /\ DOMAIN r.upd # {} \/ r.del # {}}

DeleteEdit(ds, dels) == [p \in Paths |-> IF p \in dels THEN NoValue ELSE ds[p]]
AddEdit(ds, upd)     == [p \in Paths |-> IF p \in DOMAIN upd THEN upd[p] ELSE ds[p]]

Idle == [pc |-> "idle"]

\* the edit-config documents of Set that are not empty, in order
FirstPhase(r) == IF r.del # {} THEN "delete" ELSE "add"
AfterDelete(r) == IF DOMAIN r.upd # {} THEN "add" ELSE "commit"

\* the device when the current session goes down: with CandidateDiscardedOnClose
\* it drops the uncommitted edits
SessionDown ==
    /\ alive' = FALSE
    /\ candidate' = IF CandidateDiscardedOnClose THEN running ELSE candidate

\* t.Close(); t.connected = false; go t.reconnect()
HandleEOF ==
    /\ IF alive THEN SessionDown ELSE UNCHANGED <<alive, candidate>>
    /\ connected' = FALSE
    /\ pending' = pending + 1

-----------------------------------------------------------------------------
Init ==
    /\ running = [p \in Paths |-> NoValue]
    /\ candidate = running
    /\ cfgStore = running
    /\ alive = TRUE             \* newNCTarget: driver created, connected
    /\ connected = TRUE
    /\ pending = 0
    /\ rec = "free"
    /\ setSt = Idle
    /\ syncSt = Idle
    /\ sets = 0
    /\ faults = 0

\* applyIntent calls Set; "not connected" fails it at once
SetCall(r) ==
    /\ setSt = Idle
    /\ sets < MaxSets
    /\ sets' = sets + 1
    /\ setSt' = IF connected THEN [pc |-> FirstPhase(r), req |-> r] ELSE Idle
    /\ UNCHANGED <<running, candidate, cfgStore, alive, connected, pending, rec, syncSt, faults>>

\* edit-config of the delete document, then of the add document, on the candidate
SetEditOk ==
    /\ setSt.pc \in {"delete", "add"}
    /\ alive
    /\ candidate' = IF setSt.pc = "delete" THEN DeleteEdit(candidate, setSt.req.del)
                    ELSE AddEdit(candidate, setSt.req.upd)
    /\ setSt' = [setSt EXCEPT !.pc = IF @ = "delete" THEN AfterDelete(setSt.req) ELSE "commit"]
    /\ UNCHANGED <<running, cfgStore, alive, connected, pending, rec, syncSt, sets, faults>>

\* edit-config fails with EOF: handled below, no discard
SetEditEOF ==
    /\ setSt.pc \in {"delete", "add"}
    /\ ~alive
    /\ setSt' = [setSt EXCEPT !.pc = "eof"]
    /\ UNCHANGED <<running, candidate, cfgStore, alive, connected, pending, rec, syncSt, sets, faults>>

\* edit-config fails otherwise: Discard, whose own error (err2) is only logged
SetEditError ==
    /\ RpcErrors
    /\ setSt.pc \in {"delete", "add"}
    /\ alive
    /\ candidate' \in {running, candidate}
    /\ setSt' = Idle
    /\ UNCHANGED <<running, cfgStore, alive, connected, pending, rec, syncSt, sets, faults>>

SetCommitOk ==
    /\ setSt.pc = "commit"
    /\ alive
    /\ running' = candidate
    /\ setSt' = [setSt EXCEPT !.pc = "writeback"]
    /\ UNCHANGED <<candidate, cfgStore, alive, connected, pending, rec, syncSt, sets, faults>>

\* commit on a dead session: EOF, nothing applied
SetCommitEOF ==
    /\ setSt.pc = "commit"
    /\ ~alive
    /\ setSt' = [setSt EXCEPT !.pc = "eof"]
    /\ UNCHANGED <<running, candidate, cfgStore, alive, connected, pending, rec, syncSt, sets, faults>>

\* the device commits, then the session drops before the reply: EOF
SetCommitLost ==
    /\ setSt.pc = "commit"
    /\ alive
    /\ faults < MaxFaults
    /\ running' = candidate
    /\ alive' = FALSE
    /\ faults' = faults + 1
    /\ setSt' = [setSt EXCEPT !.pc = "eof"]
    /\ UNCHANGED <<candidate, cfgStore, connected, pending, rec, syncSt, sets>>

\* commit rejected: the error is returned, the candidate is not discarded
SetCommitError ==
    /\ RpcErrors
    /\ setSt.pc = "commit"
    /\ alive
    /\ setSt' = Idle
    /\ UNCHANGED <<running, candidate, cfgStore, alive, connected, pending, rec, syncSt, sets, faults>>

SetEOF ==
    /\ setSt.pc = "eof"
    /\ HandleEOF
    /\ setSt' = Idle
    /\ UNCHANGED <<running, cfgStore, rec, syncSt, sets, faults>>

\* after Set returned OK, SetIntentUpdate writes the intended store and then
\* the same deltas to the config store; a failed intended write skips it
SetWriteback ==
    /\ setSt.pc = "writeback"
    /\ \/ cfgStore' = AddEdit(DeleteEdit(cfgStore, setSt.req.del), setSt.req.upd)
       \/ UNCHANGED cfgStore
    /\ setSt' = Idle
    /\ UNCHANGED <<running, candidate, alive, connected, pending, rec, syncSt, sets, faults>>

\* mutant: get-config of the candidate instead of running
SyncGetCandidate ==
    /\ syncSt = Idle
    /\ connected
    /\ syncSt' = IF alive THEN [pc |-> "push", snap |-> candidate] ELSE [pc |-> "eof"]
    /\ UNCHANGED <<running, candidate, cfgStore, alive, connected, pending, rec, setSt, sets, faults>>

\* internalSync on a ticker: when connected, Get (get-config of running)
SyncGet ==
    /\ syncSt = Idle
    /\ connected
    /\ syncSt' = IF alive THEN [pc |-> "push", snap |-> running] ELSE [pc |-> "eof"]
    /\ UNCHANGED <<running, candidate, cfgStore, alive, connected, pending, rec, setSt, sets, faults>>

\* EOF: Get handles it, then internalSync handles the same error again
SyncEOF ==
    /\ syncSt.pc = "eof"
    /\ IF alive THEN SessionDown ELSE UNCHANGED <<alive, candidate>>
    /\ connected' = FALSE
    /\ pending' = pending + 2
    /\ syncSt' = Idle
    /\ UNCHANGED <<running, cfgStore, rec, setSt, sets, faults>>

\* mutant: the SyncUpdate itself handed on instead of its notification
SyncPushWholeUpdate ==
    /\ syncSt.pc = "push"
    /\ cfgStore' = syncSt
    /\ syncSt' = Idle
    /\ UNCHANGED <<running, candidate, alive, connected, pending, rec, setSt, sets, faults>>

\* the sync updates replace the config store with the snapshot
SyncPush ==
    /\ syncSt.pc = "push"
    /\ cfgStore' = syncSt.snap
    /\ syncSt' = Idle
    /\ UNCHANGED <<running, candidate, alive, connected, pending, rec, setSt, sets, faults>>

\* mutant: the early return tests the flag the wrong way round
ReconnectLockInverted ==
    /\ pending > 0
    /\ rec = "free"
    /\ pending' = pending - 1
    /\ rec' = IF connected THEN "dial" ELSE "free"
    /\ UNCHANGED <<running, candidate, cfgStore, alive, connected, setSt, syncSt, sets, faults>>

\* reconnect: take m; return at once if connected
ReconnectLock ==
    /\ pending > 0
    /\ rec = "free"
    /\ pending' = pending - 1
    /\ rec' = IF connected THEN "free" ELSE "dial"
    /\ UNCHANGED <<running, candidate, cfgStore, alive, connected, setSt, syncSt, sets, faults>>

ReconnectDialFail ==
    /\ rec = "dial"
    /\ faults < MaxFaults
    /\ faults' = faults + 1
    /\ UNCHANGED <<running, candidate, cfgStore, alive, connected, pending, rec, setSt, syncSt, sets>>

\* t.driver = a new driver with a live session
ReconnectDial ==
    /\ rec = "dial"
    /\ alive' = TRUE
    /\ rec' = "install"
    /\ UNCHANGED <<running, candidate, cfgStore, connected, pending, setSt, syncSt, sets, faults>>

\* t.connected = true; release m
ReconnectDone ==
    /\ rec = "install"
    /\ connected' = TRUE
    /\ rec' = "free"
    /\ UNCHANGED <<running, candidate, cfgStore, alive, pending, setSt, syncSt, sets, faults>>

\* the device or the network drops the session
Drop ==
    /\ alive
    /\ faults < MaxFaults
    /\ SessionDown
    /\ faults' = faults + 1
    /\ UNCHANGED <<running, cfgStore, connected, pending, rec, setSt, syncSt, sets>>

SetStep  == SetEditOk \/ SetEditEOF \/ SetEditError \/ SetCommitOk \/ SetCommitEOF
            \/ SetCommitLost \/ SetCommitError \/ SetEOF \/ SetWriteback
SyncStep == SyncGet \/ SyncEOF \/ SyncPush
RecStep  == ReconnectLock \/ ReconnectDialFail \/ ReconnectDial \/ ReconnectDone

Next ==
    \/ \E r \in SetReq : SetCall(r)
    \/ SetStep \/ SyncStep \/ RecStep
    \/ Drop

\* every goroutine keeps running: applyIntent waits for Set, the sync ticker
\* fires forever, a reconnect goroutine loops until it has a driver
Fairness == WF_vars(SetStep) /\ WF_vars(SyncStep) /\ WF_vars(RecStep)

Spec == Init /\ [][Next]_vars /\ Fairness

-----------------------------------------------------------------------------
TypeOK ==
    /\ running \in DS /\ candidate \in DS /\ cfgStore \in DS
    /\ alive \in BOOLEAN /\ connected \in BOOLEAN
    /\ pending \in Nat /\ rec \in {"free", "dial", "install"}
    /\ setSt \in {Idle} \cup [pc : {"delete", "add", "commit", "eof", "writeback"}, req : SetReq]
    /\ syncSt \in {Idle, [pc |-> "eof"]} \cup [pc : {"push"}, snap : DS]
    /\ sets \in 0..MaxSets /\ faults \in 0..MaxFaults

\* A commit changes the device's running config exactly by the deletes and
\* updates of the Set being committed: nothing that an earlier, failed Set
\* left in the shared candidate (an edit-config cut by EOF, a rejected
\* commit) reaches the device (spec.md section 5: "on commit failure,
\* pending changes are discarded").
CommitAppliesOwnRequest ==
    [][running' # running =>
         running' = AddEdit(DeleteEdit(running, setSt.req.del), setSt.req.upd)]_running

\* After the last drop, the EOF handlers and reconnect goroutines leave the
\* target connected over a live session for good, although a late EOF
\* handler may close a driver that a reconnect has just installed.
Reconnected == <>[](connected /\ alive)

\* The config store, written optimistically after each Set and overwritten
\* by each sync with a snapshot taken earlier, ends up equal to the
\* device's running config once Sets stop.
ConfigStoreConverges == <>[](cfgStore = running)

=============================================================================
