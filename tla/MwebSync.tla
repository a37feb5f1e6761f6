------------------------------ MODULE MwebSync ------------------------------
(***************************************************************************)
(* The MWEB utxo sync of src/mweb.go: getMwebUtxos (plan, dispatch,        *)
(* reassembly, commit, purge), the per-response handler handleResponse,    *)
(* purgeSpentMwebTxos and notifyAddedMwebUtxos, with the coin store, the   *)
(* query dispatcher and the shutdown signal as their environment.          *)
(*                                                                         *)
(* Data abstraction.  A chain block is [n, S]: its OutputMMRSize and its   *)
(* unspent leaves; its leafset is the byte slice of module MMR.  A        *)
(* response is the index of the span it answers: the messages an honest    *)
(* peer sends are the reference messages that MwebUtxosVerify shows        *)
(* verifyMwebUtxos accepts, and a bad peer's forged message is one it      *)
(* rejects.  The coin store is the persisted leafset and the set of leaf   *)
(* indices with a coin record; each store call is one atomic step.         *)
(***************************************************************************)
EXTENDS LeafsetDiff, Integers, FiniteSets

CONSTANTS
    Blocks,       \* the chain: a sequence of blocks [n, S], n non-decreasing
    MaxPerQuery,  \* wire.MaxMwebUtxosPerQuery
    Peers,        \* the peers the dispatcher hands requests to
    BadPeers,     \* the peers that answer with forged or mismatched messages
    MaxRestarts,  \* bound on shutdowns followed by a restart
    MaxDups,      \* bound on late duplicate responses
    MaxNotifies   \* bound on calls of notifyAddedMwebUtxos

VARIABLES
    tip,        \* the chain tip: an index into Blocks
    trigger,    \* a tip not yet handed to getMwebUtxos
    db,         \* persisted [leafset, numLeaves] of the coin store
    coins,      \* leaf indices with a persisted coin record
    history,    \* the leafsets the store has held (snapshots a caller may pass)
    pc,         \* getMwebUtxos: "idle", "locking" (before Lock), "loop" or
                \* "purge" (every span committed, before purgeSpentMwebTxos)
    target,     \* the block being synced
    spans,      \* addedLeaves: the planned spans [start, count]
    removed,    \* removedLeaves
    i,          \* the next span to commit (1-based)
    stash,      \* queryResponses: the spans received and not yet committed
    synclog,    \* the leaves passed to the callbacks by the current sync
    utxosChan,  \* the buffered channel of verified responses (span indices)
                \* of the last sync that dispatched; it outlives the sync
    errChan,    \* the dispatcher's error channel: "nil" or "err"
    jobs,       \* per request of the last batch: "pending" or "done"
                \* (its handler returned Finished)
    disp,       \* dispatcher: "idle", "running", "done" or "failed"
    banned,     \* peers banned with InvalidMwebUtxos
    dups,       \* late duplicate responses so far
    worker,     \* per peer: [st, j], st "free", or blocked in handleResponse's
                \* send of response j on utxosChan ("cur") or on the channel
                \* of an earlier sync ("old")
    quit,       \* b.quit is closed
    restarts,   \* shutdowns so far
    lock,       \* mwebUtxosCallbacksMtx: "free", "sync" or "notify"
    npc,        \* notifyAddedMwebUtxos: "idle" or "fetch"
    nAdded,     \* the leaves it is about to fetch
    notifies    \* calls of notifyAddedMwebUtxos so far

storeVars  == <<db, coins, history>>
syncVars   == <<pc, target, spans, removed, i, stash, synclog>>
dispVars   == <<utxosChan, errChan, jobs, disp, banned, dups, worker>>
envVars    == <<tip, trigger, quit, restarts>>
notifyVars == <<lock, npc, nAdded, notifies>>
vars == <<storeVars, syncVars, dispVars, envVars, notifyVars>>

SeqRange(s) == {s[k] : k \in DOMAIN s}

\* The leafset of block k, as the header's leafset message carries it.
BlockLeafset(k) == LeafsetBytes(Blocks[k].S, (Blocks[k].n + 7) \div 8)

\* The leaf indices set in a leafset.
Leaves(l) == {x \in 0..(8 * Len(l) - 1) : contains(l, x)}

\* The leaf indices of the utxos answering span sp: count unspent leaves
\* from start, as verifyMwebUtxos's leaf-range walk requires.
RECURSIVE SpanLeafSeq(_, _, _)
SpanLeafSeq(l, x, count) ==
    IF count = 0 THEN <<>>
    ELSE <<x>> \o SpanLeafSeq(l, nextUnspent(l, x), count - 1)

SpanLeaves(l, sp) == SpanLeafSeq(l, sp.start, sp.count)

\* The elements of a finite set of naturals in ascending order.
AscendingSeq(S) ==
    [j \in 1..Cardinality(S) |-> CHOOSE x \in S : Cardinality({y \in S : y < x}) = j - 1]

(***************************************************************************)
(* Coin store.                                                             *)
(***************************************************************************)

\* Mutant: the leafset is installed but the spent coins are not deleted.
PutLeafSetAndPurgeNoDelete(c, l, n, rem) ==
    /\ db' = [leafset |-> l, numLeaves |-> n]
    /\ coins' = c
    /\ history' = history \cup {l}

\* PutLeafSetAndPurge, called by purgeSpentMwebTxos: install the leafset
\* and delete the coin records of the removed leaves, in one store call.
PutLeafSetAndPurge(c, l, n, rem) ==
    /\ db' = [leafset |-> l, numLeaves |-> n]
    /\ coins' = c \ SeqRange(rem)
    /\ history' = history \cup {l}

(***************************************************************************)
(* getMwebUtxos                                                            *)
(***************************************************************************)

Init ==
    /\ tip = 1 /\ trigger = TRUE
    /\ db = [leafset |-> <<>>, numLeaves |-> 0] /\ coins = {} /\ history = {<<>>}
    /\ pc = "idle" /\ target = 1 /\ spans = <<>> /\ removed = <<>> /\ i = 1
    /\ stash = {} /\ synclog = <<>>
    /\ utxosChan = <<>> /\ errChan = <<>> /\ jobs = <<>> /\ disp = "idle"
    /\ banned = {} /\ dups = 0 /\ worker = [p \in Peers |-> [st |-> "free", j |-> 0]]
    /\ quit = FALSE /\ restarts = 0
    /\ lock = "free" /\ npc = "idle" /\ nAdded = <<>> /\ notifies = 0

\* The locals of getMwebUtxos go away when it returns and the mutex is
\* unlocked by the deferred Unlock.  The channel and the requests stay with
\* the handlers that still hold them (spans is kept as their capacity).
Return ==
    /\ pc' = "idle" /\ lock' = "free"
    /\ removed' = <<>> /\ i' = 1 /\ stash' = {}

\* The outer loop hands the tip to getMwebUtxos, which reads the store,
\* diffs the leafsets and either purges at once (no span to fetch, without
\* taking the mutex) or hands the requests to the dispatcher.
StartSync ==
    /\ pc = "idle" /\ trigger /\ ~quit
    /\ LET new == BlockLeafset(tip)
           n   == Blocks[tip].n
           d   == DiffLeafsets(db.leafset, db.numLeaves, new, n, MaxPerQuery)
       IN  /\ trigger' = FALSE /\ target' = tip /\ synclog' = <<>>
           /\ IF d.addedLeaves = <<>>
              THEN /\ PutLeafSetAndPurge(coins, new, n, d.removedLeaves)
                   /\ UNCHANGED <<pc, spans, removed, i, stash, dispVars>>
              ELSE /\ pc' = "locking" /\ spans' = d.addedLeaves
                   /\ removed' = d.removedLeaves /\ i' = 1 /\ stash' = {}
                   /\ utxosChan' = <<>> /\ errChan' = <<>>
                   /\ jobs' = [k \in DOMAIN d.addedLeaves |-> "pending"]
                   /\ disp' = "running"
                   /\ worker' = [p \in Peers |->
                                    IF worker[p].st = "cur" THEN [worker[p] EXCEPT !.st = "old"]
                                    ELSE worker[p]]
                   /\ UNCHANGED <<storeVars, banned, dups>>
    /\ UNCHANGED <<tip, quit, restarts, notifyVars>>

\* b.mwebUtxosCallbacksMtx.Lock() once the requests are dispatched.
LockSync ==
    /\ pc = "locking" /\ lock = "free"
    /\ pc' = "loop" /\ lock' = "sync"
    /\ UNCHANGED <<storeVars, target, spans, removed, i, stash, synclog,
                   dispVars, envVars, npc, nAdded, notifies>>

\* `for i := 0; i < len(addedLeaves);` has ended.
LoopDone(k) == k > Len(spans)

\* Mutant: `lastIndex <= curIndex` discards the response for the current span.
StaleInclusive(last, cur) == last <= cur

\* A response wholly before the commit frontier is a late duplicate.
Stale(last, cur) == last < cur

\* Mutant: a missing response is skipped instead of waited for.
RECURSIVE ReassembleSkipGap(_, _, _, _)
ReassembleSkipGap(l, sps, st, k) ==
    IF k > Len(sps) THEN [i |-> k, got |-> <<>>, stash |-> st]
    ELSE LET r == ReassembleSkipGap(l, sps, st \ {k}, k + 1)
         IN  IF k \in st THEN [r EXCEPT !.got = SpanLeaves(l, sps[k]) \o @] ELSE r

\* The inner loop: commit the cached responses from span k on, in span
\* order, up to the first one not received: [i, got, stash].
RECURSIVE Reassemble(_, _, _, _)
Reassemble(l, sps, st, k) ==
    IF k <= Len(sps) /\ k \in st
    THEN LET r == Reassemble(l, sps, st \ {k}, k + 1)
         IN  [r EXCEPT !.got = SpanLeaves(l, sps[k]) \o @]
    ELSE [i |-> k, got |-> <<>>, stash |-> st]

\* `case r = <-utxosChan`: discard a late duplicate, else cache it, commit
\* what can be committed (PutCoins and the callbacks, span by span); after
\* the last span the loop ends and the purge follows.
RecvUtxos ==
    /\ pc = "loop" /\ utxosChan # <<>>
    /\ LET k   == Head(utxosChan)
           new == BlockLeafset(target)
           sl  == SpanLeaves(new, spans[k])
       IN  IF Stale(sl[Len(sl)], spans[i].start)
           THEN /\ utxosChan' = Tail(utxosChan)
                /\ UNCHANGED <<storeVars, syncVars, errChan, jobs, disp, lock>>
           ELSE LET r  == Reassemble(new, spans, stash \cup {k}, i)
                    c2 == coins \cup SeqRange(r.got)
                IN  /\ synclog' = synclog \o r.got
                    /\ coins' = c2 /\ i' = r.i /\ stash' = r.stash
                    /\ pc' = IF LoopDone(r.i) THEN "purge" ELSE pc
                    /\ utxosChan' = Tail(utxosChan)
                    /\ UNCHANGED <<db, history, target, spans, removed,
                                   errChan, jobs, disp, lock>>
    /\ UNCHANGED <<banned, dups, worker, envVars, npc, nAdded, notifies>>

\* After the loop: purgeSpentMwebTxos, a second store call, and the return.
Purge ==
    /\ pc = "purge"
    /\ PutLeafSetAndPurge(coins, BlockLeafset(target), Blocks[target].n, removed)
    /\ Return
    /\ UNCHANGED <<target, synclog, spans, dispVars, envVars, npc, nAdded, notifies>>

\* `case err := <-errChan`: nil means every request finished, keep waiting
\* for the responses still on utxosChan; an error (ErrWorkManagerShuttingDown
\* or any other) abandons the sync.
RecvErr ==
    /\ pc = "loop" /\ errChan # <<>>
    /\ IF Head(errChan) = "nil"
       THEN /\ errChan' = Tail(errChan)
            /\ UNCHANGED <<pc, lock, spans, removed, i, stash, utxosChan, jobs, disp>>
       ELSE Return /\ UNCHANGED <<spans, utxosChan, errChan, jobs, disp>>
    /\ UNCHANGED <<storeVars, target, synclog, banned, dups, worker, envVars,
                   npc, nAdded, notifies>>

\* `case <-b.quit`: return.
RecvQuit ==
    /\ pc = "loop" /\ quit
    /\ Return
    /\ UNCHANGED <<storeVars, target, synclog, spans, dispVars, envVars,
                   npc, nAdded, notifies>>

(***************************************************************************)
(* handleResponse, run by the dispatcher's workers for request j.          *)
(***************************************************************************)

\* `case m.utxosChan <- r` of handleResponse's select, on the channel of
\* the sync that dispatched: the response j goes into the buffer when it
\* has room, else worker p blocks until it has room or b.quit is closed.
Deliver(j, p) ==
    \/ /\ Len(utxosChan) < Len(spans)
       /\ utxosChan' = Append(utxosChan, j)
       /\ UNCHANGED worker
    \/ /\ Len(utxosChan) = Len(spans)
       /\ worker' = [worker EXCEPT ![p] = [st |-> "cur", j |-> j]]
       /\ UNCHANGED utxosChan

\* An honest peer's message matches the request and verifies: it is sent on
\* utxosChan (Finished), or the send loses to b.quit (not Finished, the
\* request stays with the dispatcher).  A request of a batch that failed
\* may still be in a worker's hands.
HandleResponse(j, p) ==
    /\ disp \in {"running", "failed"} /\ j \in DOMAIN jobs /\ jobs[j] = "pending"
    /\ p \in Peers \ BadPeers /\ worker[p].st = "free"
    /\ \/ /\ Deliver(j, p)
          /\ jobs' = IF worker'[p].st = "free" THEN [jobs EXCEPT ![j] = "done"] ELSE jobs
       \/ /\ quit
          /\ UNCHANGED <<utxosChan, jobs, worker>>
    /\ UNCHANGED <<storeVars, syncVars, errChan, disp, banned, dups,
                   envVars, notifyVars>>

\* A bad peer's message either does not match the request (not Finished)
\* or fails verifyMwebUtxos: the peer is banned with InvalidMwebUtxos and
\* the dispatcher gives the request to another peer.
HandleBadResponse(j, p) ==
    /\ disp = "running" /\ j \in DOMAIN jobs /\ jobs[j] = "pending"
    /\ p \in BadPeers \ banned
    /\ \/ banned' = banned \cup {p}
       \/ UNCHANGED banned
    /\ UNCHANGED <<storeVars, syncVars, utxosChan, errChan, jobs, disp, dups, worker,
                   envVars, notifyVars>>

\* A late answer to a request already finished, from the worker that timed
\* out on it: verified again and sent again, also after the sync returned.
LateDuplicate(j, p) ==
    /\ j \in DOMAIN jobs /\ jobs[j] = "done"
    /\ p \in Peers \ BadPeers /\ worker[p].st = "free" /\ dups < MaxDups
    /\ Deliver(j, p)
    /\ dups' = dups + 1
    /\ UNCHANGED <<storeVars, syncVars, errChan, jobs, disp, banned,
                   envVars, notifyVars>>

\* A blocked send completes once the coordinator made room: Finished.
SendBlocked(p) ==
    /\ worker[p].st = "cur" /\ Len(utxosChan) < Len(spans)
    /\ utxosChan' = Append(utxosChan, worker[p].j)
    /\ jobs' = [jobs EXCEPT ![worker[p].j] = "done"]
    /\ worker' = [worker EXCEPT ![p] = [st |-> "free", j |-> 0]]
    /\ UNCHANGED <<storeVars, syncVars, errChan, disp, banned, dups,
                   envVars, notifyVars>>

\* `case <-m.blockMgr.quit` of the blocked send: not Finished.
SendQuit(p) ==
    /\ worker[p].st # "free" /\ quit
    /\ worker' = [worker EXCEPT ![p] = [st |-> "free", j |-> 0]]
    /\ UNCHANGED <<storeVars, syncVars, utxosChan, errChan, jobs, disp, banned, dups,
                   envVars, notifyVars>>

(***************************************************************************)
(* The environment: the query dispatcher, the chain and the process.       *)
(***************************************************************************)

\* The dispatcher's error channel gets nil once every request finished.
DispatcherDone ==
    /\ disp = "running" /\ \A j \in DOMAIN jobs : jobs[j] = "done"
    /\ errChan' = Append(errChan, "nil") /\ disp' = "done"
    /\ UNCHANGED <<storeVars, syncVars, utxosChan, jobs, banned, dups, worker,
                   envVars, notifyVars>>

\* The dispatcher gives up on the batch with an error (a request used up
\* its retries, no peer left) before every request finished.
DispatcherError ==
    /\ disp = "running" /\ \E j \in DOMAIN jobs : jobs[j] = "pending"
    /\ errChan' = Append(errChan, "err") /\ disp' = "failed"
    /\ UNCHANGED <<storeVars, syncVars, utxosChan, jobs, banned, dups, worker,
                   envVars, notifyVars>>

\* A new block is verified; the outer loop will hand it to getMwebUtxos.
AdvanceTip ==
    /\ tip < Len(Blocks)
    /\ tip' = tip + 1 /\ trigger' = TRUE
    /\ UNCHANGED <<storeVars, syncVars, dispVars, quit, restarts, notifyVars>>

\* b.quit is closed.
Quit ==
    /\ ~quit /\ restarts < MaxRestarts
    /\ quit' = TRUE /\ restarts' = restarts + 1
    /\ UNCHANGED <<storeVars, syncVars, dispVars, tip, trigger, notifyVars>>

\* The process dies between the last PutCoins and PutLeafSetAndPurge, the
\* two store calls that end a sync; its goroutines are gone, as after a
\* shutdown.
Crash ==
    /\ pc = "purge" /\ ~quit /\ restarts < MaxRestarts
    /\ Return
    /\ quit' = TRUE /\ restarts' = restarts + 1
    /\ UNCHANGED <<storeVars, target, synclog, spans, dispVars, tip, trigger,
                   npc, nAdded, notifies>>

\* Once its goroutines returned, the process starts again from the coin
\* store, with no query in flight, and syncs to the tip.  Store calls are
\* atomic, so a crash at any point leaves the store as some shutdown does.
Restart ==
    /\ quit /\ pc = "idle" /\ npc = "idle"
    /\ \A p \in Peers : worker[p].st = "free"
    /\ quit' = FALSE /\ trigger' = TRUE
    /\ spans' = <<>> /\ utxosChan' = <<>> /\ errChan' = <<>> /\ jobs' = <<>>
    /\ disp' = "idle"
    /\ UNCHANGED <<storeVars, pc, target, removed, i, stash, synclog, banned, dups, worker,
                   tip, restarts, notifyVars>>

(***************************************************************************)
(* notifyAddedMwebUtxos(leafSet), called with a leafset the caller saw.    *)
(***************************************************************************)

\* Under the mutex: GetLeafSet and the scan for the leaves added since the
\* caller's leafset.
NotifyRead(snap) ==
    /\ npc = "idle" /\ lock = "free" /\ notifies < MaxNotifies
    /\ lock' = "notify" /\ npc' = "fetch"
    /\ nAdded' = AddedLeaves(snap, db.leafset, db.numLeaves)
    /\ notifies' = notifies + 1
    /\ UNCHANGED <<storeVars, syncVars, dispVars, envVars>>

\* FetchLeaves(addedLeaves), ChainTip and the callbacks (or an error
\* return); the deferred Unlock.
NotifyFetch ==
    /\ npc = "fetch"
    /\ npc' = "idle" /\ lock' = "free" /\ nAdded' = <<>>
    /\ UNCHANGED <<storeVars, syncVars, dispVars, envVars, notifies>>

(***************************************************************************)
(* Specification                                                           *)
(***************************************************************************)

\* The requests of any sync: at most one per leaf of the last block.
RequestIds == 1..Blocks[Len(Blocks)].n

Next ==
    \/ StartSync \/ LockSync \/ RecvUtxos \/ RecvErr \/ RecvQuit \/ Purge
    \/ \E j \in DOMAIN jobs, p \in Peers :
          HandleResponse(j, p) \/ HandleBadResponse(j, p) \/ LateDuplicate(j, p)
    \/ \E p \in Peers : SendBlocked(p) \/ SendQuit(p)
    \/ DispatcherDone \/ DispatcherError
    \/ AdvanceTip \/ Quit \/ Crash \/ Restart
    \/ \E snap \in history : NotifyRead(snap)
    \/ NotifyFetch

\* The coordinator, the dispatcher's honest workers and their sends, the
\* notify call and the process restart are weakly fair.  So is the
\* dispatcher's error: the work manager times a request out and fails the
\* batch once the request used up its retries.  Bans, duplicates,
\* shutdowns and new blocks are not forced.
Fairness ==
    /\ WF_vars(StartSync) /\ WF_vars(LockSync)
    /\ WF_vars(RecvUtxos) /\ WF_vars(RecvErr) /\ WF_vars(RecvQuit) /\ WF_vars(Purge)
    /\ \A j \in RequestIds : WF_vars(\E p \in Peers \ BadPeers : HandleResponse(j, p))
    /\ \A p \in Peers : WF_vars(SendBlocked(p) \/ SendQuit(p))
    /\ WF_vars(DispatcherDone) /\ WF_vars(DispatcherError)
    /\ WF_vars(NotifyFetch) /\ WF_vars(Restart)

Spec == Init /\ [][Next]_vars /\ Fairness

(***************************************************************************)
(* Properties                                                              *)
(***************************************************************************)

\* The refinement mapping: the block whose leafset the store holds (block
\* leafsets are distinct in the models checked).
SyncedBlock ==
    IF db.leafset = <<>> THEN 0
    ELSE CHOOSE k \in 1..Len(Blocks) : BlockLeafset(k) = db.leafset

Store == INSTANCE MwebStore WITH synced <- SyncedBlock

(***************************************************************************)
(* getMwebUtxos, handleResponse and notifyAddedMwebUtxos together          *)
(* implement the store contract of MwebStore: every PutCoins writes leaves *)
(* a newer verified block adds, a leafset is installed only after the      *)
(* records of all its new leaves, and PutLeafSetAndPurge deletes exactly   *)
(* the spent leaves, through errors, duplicates, shutdowns and restarts.   *)
(***************************************************************************)
StoreFollowsChain == Store!Spec

(***************************************************************************)
(* Each step that installs a new leafset has passed to the subscriber      *)
(* callbacks, during that sync, exactly the leaves the new leafset adds to *)
(* the old one, each once and in ascending leaf order (spec §8.8, S5):     *)
(* the differ's spans, the stash and the commit loop together.             *)
(***************************************************************************)
SyncNotifiesAddedLeaves ==
    [][db' # db =>
         synclog' = AscendingSeq(Leaves(db'.leafset) \ Leaves(db.leafset))]_vars

(***************************************************************************)
(* Every sync that entered the receive loop returns: it commits every      *)
(* span, or an error or the shutdown ends it.  A response the coordinator  *)
(* discards is never sent again, so discarding one it still needs hangs.   *)
(***************************************************************************)
EverySyncEnds == (pc = "loop") ~> (pc = "idle")

(***************************************************************************)
(* The leaves notifyAddedMwebUtxos reads from the persisted leafset still  *)
(* have coin records when it fetches them.                                 *)
(***************************************************************************)
NotifyFetchesStoredCoins == npc = "fetch" => SeqRange(nAdded) \subseteq coins

(***************************************************************************)
(* Once the store holds the tip's leafset and no sync is pending, it holds *)
(* coin records only for unspent leaves (spec §4.5 Finalization).          *)
(***************************************************************************)
SyncedStoreHoldsOnlyUnspent ==
    (pc = "idle" /\ ~trigger /\ db.leafset = BlockLeafset(tip))
        => coins \subseteq Leaves(db.leafset)

(***************************************************************************)
(* A worker blocked in handleResponse's send on utxosChan returns: the     *)
(* coordinator makes room or b.quit is closed (spec.md §5: every           *)
(* suspension also observes shutdown).  A worker that blocks on the        *)
(* channel of a sync that has returned waits for a reader that never comes.*)
(***************************************************************************)
BlockedWorkerReturns ==
    \A p \in Peers : worker[p].st # "free" ~> worker[p].st = "free"
=============================================================================
