# TLA+ models of the MWEB light-client sync (`src/mweb.go`)

This directory holds TLA+ models of the MWEB utxo sync of the neutrino light
client and the TLC configurations that check them.  The Go code they model
is `src/mweb.go`.  `src/banman/reason.go` holds the ban-reason constants and
the package's logger wiring.

## 1. Inventory

| Part | Code (`src/mweb.go`) | State | Operations |
|---|---|---|---|
| A. MMR primitives | 93-171 | none (pure) | `contains`, `nextUnspent`, `nodeIdx`, `height`, `leafIdx`, `left`, `right`, `hash`, `parentHash`, `calcPeaks` |
| B. Header verifier | 19-84 `verifyMwebHeader` | none (pure) | six equality checks over the merkle block, HogEx and blake3 hashes |
| C. UTXO proof verifier | 173-315 | `verifyMwebUtxosVars`: leaf and hash cursors, `isProofHash` | `nextLeaf`, `nextHash`, recursive `calcNodeHash`, leaf-range walk, two passes over the peaks, bagging |
| D. Leafset differ | 340-377, 634-648 | none (pure) | common-prefix skip, spans of added leaves (at most `MaxMwebUtxosPerQuery`), removed leaves; the notify scan |
| E. Sync coordinator | 317-621 | spans, `queryResponses`, `i`, `utxosChan`, `errChan`, mutex, coin store | plan, `Query`, `Lock`, `select` on utxos, error or quit, stash and commit loop (`PutCoins` plus callbacks), `purgeSpentMwebTxos`; `handleResponse` per response (match, verify, ban, send) |
| F. Notification path | 623-672 | mutex, coin store | `GetLeafSet`, added-leaf scan, `FetchLeaves`, `ChainTip`, callbacks |
| G. Ban reasons | `banman/reason.go` 1-63 | none | constants, `String()` |
| H. Logging | `reason.go` 64-111 | logger | `DisableLog`, `UseLogger` |

**How the parts interact.**
1. A new verified block (B) reaches `getMwebUtxos` (E).
2. E reads the coin store and runs the differ (D).
3. E hands one request per span to the external query dispatcher.
4. The dispatcher's workers call `handleResponse` concurrently. It runs the proof verifier (C), which uses the MMR primitives (A). It bans a peer whose message fails verification, and sends verified responses on `utxosChan`.
5. E reassembles the responses in span order, persists them with `PutCoins`, and calls the subscribers.
6. At the end, E installs the new leafset and deletes the spent coins with `PutLeafSetAndPurge`.
7. F runs on another goroutine against the same store and the same mutex.

**What makes it hard.**
- Responses arrive out of order, duplicated or late, from honest and forged peers.
- The dispatcher can fail, and a shutdown can come at any receive or send.
- The process can restart with a store that was half-updated by an abandoned sync.
- The no-fetch path purges without the mutex.
- The verifier's two-pass proof walk is subtle.
- There are boundary cases in the peak-size loops and at the per-query cap.

## 2. Plan and module structure

| Module | Models | Checked by |
|---|---|---|
| `MMR` | A, plus a structural reference MMR (`RefTree`, `RefPeaks`) | `MCMMR` |
| `MwebUtxosVerify` (EXTENDS MMR) | C | `MCMwebUtxosVerify`, against a reference prover |
| `LeafsetDiff` (EXTENDS MMR) | D | `MCLeafsetDiff` |
| `MwebSync` (EXTENDS LeafsetDiff) | E and F, with the store, dispatcher, workers, chain and process as environment | `MCMwebSync` |
| `MwebStore` | the abstract store contract that E implements | `MCMwebSync`, as the property `StoreFollowsChain` |
| `MwebHeaderVerify` | B, with the external merkleblock extraction | `MCMwebHeaderVerify`, against a reference merkle tree and builder |

The project was built in order of importance.
1. The sync coordinator, where the concurrency is.
2. The verifier, which is the security boundary.
3. The differ and the MMR arithmetic, which both depend on.

**Composition.** `MwebSync` treats a response abstractly: the index of the span it answers.
- An honest peer's message is the reference message, which `verify_utxos` shows `verifyMwebUtxos` accepts.
- A bad peer's message either mismatches the request or is a forgery, which `verify_utxos` shows it rejects.

This split keeps the sync model small while its acceptance rule still rests on checked verifier behaviour.

**Refinement.** `MwebStore` is the abstract specification of what the sync promises of the coin store. It has no spans, requests, channels or mutex, only `tip`, `synced` (the block whose leafset the store holds) and `coins`. Its steps are:
- `NewBlock`;
- `StoreCoins(k)`: records for some leaves that block `k` adds to the installed leafset, where `k` is newer than the installed block and not past the tip;
- `Install(k)`: the last records, then the leafset, once every added leaf has a record, with the spent leaves' records deleted.

`MwebSync` instantiates it `WITH synced <- SyncedBlock`, the block whose leafset `db` holds. The `sync` run checks `Store!Spec` as the property `StoreFollowsChain`. The contract allows records of an abandoned sync to stay, which is the `stale_coins` finding. spec.md §4.5 says such a sync is retried only on the next chain advance, so the contract promises no progress.

## 3. Correspondence with the code

**`MMR`.** One operator per Go function.
- The `for peakSize` loops are `RECURSIVE` operators: `HeightLoop`, `LeafIdxLoop`, `PeaksLoop`.
- `OnesCount` and `BitLen` stand for `bits.OnesCount64` and `64 - bits.LeadingZeros64`.
- Leafsets are byte sequences with the MSB-first bit test of `contains`.
- Hashes are ideal: the term `<<"leaf", i, id>>` or `<<"parent", i, l, r>>`. The two blake3 inputs differ in length, so they can never collide.
- The uint64 width is left out, because `2i - popcount(i)` overflows only above 2^63.

**`MwebUtxosVerify`.**
- `calcNodeHash(c, v, node, ht)` returns `[h, v]`. It threads the cursor state `v = [leavesUsed, hashesUsed, isProofHash]` through every call, in the order the Go code mutates it.
- `nextLeaf` and `nextHash` keep their early returns. `nextHash` records a proof position only when a hash is left.
- `PeakPass` is the loop over peaks. `PeakHash` and `PeakStep` are its body, including the bagged-peak read and the `break`.
- `Pass` resets the cursors, keeps `isProofHash`, and checks both used counts.
- `verifyMwebUtxos` has the empty-MMR case and the leaf-range walk (`LeafRangeWalk`, -1 for failure). `VerifyWalked` and `VerifyPasses` run the two `Pass`es, and `VerifyBag` does the bagging.
- Each recursive result is passed on as an operator argument (`RightChild`, `PeakStep`, `PassChecked`) rather than bound by a LET and used several times. TLC's coverage profiling expands every use of a LET-bound result, so the LET form makes that profiling blow up.

**`LeafsetDiff`.**
- `CommonPrefix` is the byte-skip loop.
- `AddLeafSpan` is the closure.
- `DiffStep` is one loop iteration, with both branches in the code's order.
- `DiffLeafsets` returns `addedLeaves` and `removedLeaves`.
- `AddedLeaves` is the scan in `notifyAddedMwebUtxos`.

**`MwebHeaderVerify`.**
- `verifyMwebHeader` holds the nil checks and the block-hash check. `CheckExtracted` holds the checks after the extraction, in the code's order, and returns `"panic"` at the two slice indexings that can go past the end: `Match[len-1]` (line 49) and `TxOut[0]` (line 67).
- `FinalTxIsLast` is the position check at lines 55-60.
- Hashes are ideal terms, as in `MMR`: `BlockHash`, `TxHash`, `MwebHeaderHash`, `Blake3`, and `HogAddr` for the `OP_8 0x20` script.
- `bloom.VerifyMerkleBlock` is not under `src/`. spec.md §4.2 says it is the standard merkleblock algorithm, so it is modelled as the BIP 37 partial merkle tree walk (`Traverse`, `TakeHash`, `Descend`, `JoinRight`, `Extracted`). The walk reads one flag bit per node and one hash per pruned node. A malformed tree, identical children, or unused bits or hashes give the zero root and no match. These definitions are `spec_modelled`.

**`MwebSync` variables.**
- `db` and `coins` are the coin store.
- `pc` is `getMwebUtxos`'s position: `idle`, `locking` (dispatched and waiting for the mutex) or `loop`.
- `spans`, `removed`, `i` and `stash` (`queryResponses`) are its locals.
- `utxosChan` and `errChan` are the channels.
- `jobs` and `disp` are the dispatcher's view of the requests.
- `worker[p]` is peer `p`'s worker: `free`, or blocked in `handleResponse`'s send on `utxosChan` with the response for span `j`. `cur` means the channel is the current sync's, and `old` means one whose sync has returned.
- `lock` is `mwebUtxosCallbacksMtx`.
- `npc` and `nAdded` are `notifyAddedMwebUtxos`'s position and locals.
- `synclog` is what the current sync passed to the subscribers.

**`MwebSync` actions.** Each action is a whole atomic stretch of code between two suspension points.

| Action | Code |
|---|---|
| `StartSync` | `GetLeafSet`, the diff, then either the unlocked `purgeSpentMwebTxos` or `Query` |
| `LockSync` | `Lock()` |
| `RecvUtxos` | the `utxosChan` case: discard, stash, and the commit loop (`PutCoins` and callbacks per span); after the last span, `pc` becomes `purge` |
| `Purge` | `purgeSpentMwebTxos` (`PutLeafSetAndPurge`) and the return |
| `RecvErr` | the `errChan` case: nil continues, an error returns |
| `RecvQuit` | the `quit` case |
| `HandleResponse` | an honest worker: match, verify, then `Deliver`: the send on `utxosChan` completes if there is room, blocks the worker if not, or loses the race to `quit` |
| `SendBlocked` / `SendQuit` | a blocked send completes once the coordinator made room, or returns when `b.quit` is closed |
| `HandleBadResponse` | a mismatched message (no change) or a forged one (ban) |
| `NotifyRead` / `NotifyFetch` | the two halves of `notifyAddedMwebUtxos`, on either side of its second store call |

These actions model code outside `src/`, from spec.md, and are marked `spec_modelled` in `PROJECT.json`:
- `LateDuplicate`: a timed-out worker's late answer, which spec S5 says can arrive.
- `DispatcherDone` and `DispatcherError`.
- `AdvanceTip`: the outer loop.
- `Quit`, `Crash` and `Restart`.

`Return` leaves the channels, spans and dispatcher state alone, as the code does: a sync's channels stay reachable by its workers after it returns. `Restart` resets them, once every worker is free.

Every store call is atomic, so a crash leaves the store as it was after some store call. Most such points are also reached by a shutdown, because the sync observes `b.quit` at its `select`. The one point it does not observe `b.quit` lies between the last `PutCoins` (line 494) and `PutLeafSetAndPurge` (line 529). `Crash` (`spec_modelled`) is the process dying there, and `Restart` then follows.

## 4. Runs

| Run | Expect | What it shows |
|---|---|---|
| `mmr_arith` (`MCMMR.cfg`) | pass | For every leaf count up to 130, `nodeIdx`, `height`, `leafIdx`, `left` and `right` agree with the reference MMR (`NodeArithmeticMatchesReference`), and so does `calcPeaks` (`PeaksMatchReference`). |
| `verify_utxos` (`MCMwebUtxosVerify.cfg`) | pass | See below. |
| `leafset_diff` (`MCLeafsetDiff.cfg`) | pass | Old leafsets of 9 leaves (two bytes, so the prefix skip both fires and stops), new leafsets of 11 leaves that differ in at most 2 leaves, caps 1 and 2. With cap 1, two adjacent added leaves must be split, so a span reaches the cap. A leafset of 9 leaves would add nothing, since it is the same two bytes with leaves 9 and 10 clear. The spans and removed list rebuild the new leafset (`DiffReconstructsNew`). The spans are disjoint, ascending, and hold 1 to cap leaves (`SpansAreOrderedQueries`). |
| `sync` (`MCMwebSync.cfg`) | pass | See below. |
| `sync_liveness` (`MCMwebSyncLive.cfg`) | pass | Every sync that enters the loop returns (`EverySyncEnds`). |
| `header_verify` (`MCMwebHeaderVerify.cfg`) | pass | See below. |
| `stuck_worker` (`MCMwebSyncStuck.cfg`) | violation | `BlockedWorkerReturns` fails: a finding. |
| `header_panic` (`MCMwebHeaderVerifyPanic.cfg`) | violation | `VerifierNeverPanics` fails: a finding. |
| `notify_race` (`MCMwebSyncNotify.cfg`) | violation | `NotifyFetchesStoredCoins` fails: a finding. |
| `stale_coins` (`MCMwebSyncStale.cfg`) | violation | `SyncedStoreHoldsOnlyUnspent` fails: a finding. |

**`verify_utxos`.** The run covers every MMR of 1 to 8 leaves, every unspent set, every start and every count. Against the reference proof and its single-change forgeries, `verifyMwebUtxos` does two things:
- It accepts the reference proof (`ReferenceProofAccepted`).
- It accepts nothing but the reference message for its own start and count (`AcceptedIsReference`).

The reference proof is the maximal subtrees holding no queried leaf, in ascending node order, followed by the bag of the peaks to the right. The forgeries are:
- a forged id;
- a proof hash replaced (by junk or by another hash of the proof), dropped, inserted, swapped with its neighbour, or split into its children;
- a utxo dropped or added;
- a shifted start.

Eight leaves are needed: the smallest case where the two passes matter is n=8, S={0,6}. Sizes start at 1, so the empty-MMR short circuit at lines 242-246 (an empty message for an MMR of size 0 and zero root) is not exercised; the size-0 rejection at 247-249 is outside the queried sizes too.

**`sync`.** The chain has three blocks:
1. leaves 0..2, which makes two spans at cap 2, so responses can come out of order;
2. spends 0 and 2 and adds 3, which makes a span and a purge;
3. spends 1, which takes the no-fetch path.

The environment has one honest and one bad peer, and at most one each of: shutdown plus restart, late duplicate, and notify call. A dispatcher error can happen while a request is pending. Two properties are checked by `sync`:
- `StoreFollowsChain`: the refinement of `MwebStore` described in section 2.
- `SyncNotifiesAddedLeaves`, an action property: every step that installs a leafset has given the subscribers exactly the new leaves, once each and ascending.

`sync_liveness` checks `EverySyncEnds` on the same chain without the notify call. `notifyAddedMwebUtxos` cannot change whether a sync ends, and leaving it out brings the liveness check from about three minutes to under one.

**`header_verify`.** The block has a coinbase, a transaction `Evil` whose first output pays to the HogAddr of a fake header, two plain transactions and the HogEx, five in all, so the tree has an odd level. The peer sends:
- a merkleblock built honestly for any set of matched transactions, or the honest one changed in one place (a hash, a flag bit, the count, a dropped hash or flag byte, the root);
- any transaction of the block marked as HogEx, or HogEx with its marker off or its outputs gone;
- the real or the fake header, and the real leafset, another one, or none.

Two properties are checked:
- `HonestHeaderAccepted`: the honest message and leafset are accepted.
- `AcceptedHeaderIsBound`: an accepted header is the one the last transaction commits to, and the accepted leafset hashes to its root.

**Findings.**
- `notify_race`: `getMwebUtxos` purges without `mwebUtxosCallbacksMtx` when a block only spends (mweb.go:392). That purge can fall between `notifyAddedMwebUtxos`'s `GetLeafSet` (627) and its `FetchLeaves` (650). `FetchLeaves` is then asked for coins that were just deleted.
- `header_panic`: a merkleblock whose eight flag bits are all zero and whose one hash is the merkle root is a valid extraction with no match. `verifyMwebHeader` then indexes `Match[len(Match)-1]` (line 49) and panics. spec.md §5 says the verifier returns a boolean. This assumes `bloom.VerifyMerkleBlock` behaves as the standard algorithm does.
- `stuck_worker`: `utxosChan` has room for one response per request (line 403). After a sync returns on a dispatcher error, a late duplicate sent to its full channel blocks the worker in the `select` of line 608 until `b.quit` is closed, since nobody reads that channel again.
- `stale_coins`: a sync ends on a dispatcher error (435) or a shutdown (444) after `PutCoins` of some spans. The leafset is not installed. If those leaves are spent before the retry, the next diff never lists them as removed. Their coin records stay in a store that otherwise holds exactly the tip's leafset.

Every property of a passing run has a mutant in `PROJECT.json`: a plausible bug in the mapped code that TLC shows the property catches. Examples are a strict `>` in the height loop, a single proof pass, an open span not closed at an old leaf, a span flushed only once it passes the cap, a missing response skipped, `<=` in the late-duplicate test, and a purge that installs the leafset without deleting the spent coins.

**Type invariants.** There is no separate `TypeOK`.
- Every input is drawn from an explicit set in `Init`, or from `\E` over a set.
- TLC stops with an evaluation error on any ill-typed operation: a sequence index out of range, or a record field that does not exist.
- No plausible code mutant could break a type invariant, so one would check nothing about the code.

## 5. Bounds and fairness

**Bounds.** All of them are constants in the cfgs.
- `MaxLeaves`: 130 for the arithmetic (every peak shape up to 8 peaks), 8 for the verifier.
- `OldCount`, `NewCounts`, `MaxToggles` and `Caps` for the differ.
- `MaxPerQuery`, `MaxRestarts`, `MaxDups` and `MaxNotifies` for the sync.
- `Fillers` for the header verifier: two plain transactions make five, a tree of height 3 with an odd level at every height.

The verifier bound is the smallest MMR in which the two-pass order matters. The sync bounds give each hazard its own chance to happen at every point of a sync.

**Fairness** (`MwebSync.Fairness`). Weak fairness holds for:
- the coordinator's steps, the purge after its loop included: a Go `select` picks among ready cases at random;
- the outer loop's `StartSync`;
- honest workers answering a pending request: the dispatcher keeps routing a request until it finishes;
- blocked sends, which complete once there is room or shutdown;
- the dispatcher's final nil, and its error once a request is pending: the work manager fails a batch when a request has used up its retries;
- `NotifyFetch`;
- `Restart`.

Errors, bans, duplicates, shutdowns and new blocks are never forced.

`CHECK_DEADLOCK FALSE` appears in two places. In the sync cfgs, the node idles once the bounded chain ends. In `MCLeafsetDiff` and `MCMwebHeaderVerify`, there is one call of a pure function per input.

## 6. Not modelled

- **G, ban reasons.** These are constants and text.
- **H, logging.** This is I/O wiring.
- **Hash functions.** They are ideal (injective terms), so a property never fails by a collision.
- **The dispatcher's internals** (`query` package). They are not under `src/`. Only the behaviour spec.md states is modelled.
- **Subscriber registration.** It is not in `src/`.
- **Block time and metadata passed to the callbacks.** No property depends on them.
