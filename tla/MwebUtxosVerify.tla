-------------------------- MODULE MwebUtxosVerify --------------------------
(***************************************************************************)
(* verifyMwebUtxos of src/mweb.go: a batch of utxos with a proof is        *)
(* checked against the OutputRoot and OutputMMRSize of a verified MWEB     *)
(* header and the matching leafset.                                        *)
(*                                                                         *)
(* The walk over the MMR threads the cursor state of verifyMwebUtxosVars   *)
(* (leavesUsed, hashesUsed, isProofHash) through every recursive call: a   *)
(* call returns a record [h, v] of the node hash (or Nil) and the cursors. *)
(*                                                                         *)
(* A header is [OutputRoot, OutputMMRSize]; a message is                   *)
(* [StartIndex, Utxos, ProofHashes] with Utxos a sequence of               *)
(* [LeafIndex, OutputId].                                                  *)
(***************************************************************************)
EXTENDS MMR, Integers

\* A nil *chainhash.Hash.
Nil == <<"nil">>

\* chainhash.Hash{}, the all-zero hash.
ZeroHash == <<"zero">>

\* The fields of verifyMwebUtxosVars that never change during a call.
Ctx(m, l, first, last) ==
    [utxos |-> m.Utxos, proof |-> m.ProofHashes, leafset |-> l,
     firstLeafIdx |-> first, lastLeafIdx |-> last]

\* (v *verifyMwebUtxosVars) nextLeaf: the zero leaf index and a nil id once
\* the utxos are used up.
nextLeaf(c, v) ==
    IF v.leavesUsed = Len(c.utxos)
    THEN [idx |-> 0, id |-> Nil, v |-> v]
    ELSE [idx |-> c.utxos[v.leavesUsed + 1].LeafIndex,
          id |-> c.utxos[v.leavesUsed + 1].OutputId,
          v |-> [v EXCEPT !.leavesUsed = @ + 1]]

\* (v *verifyMwebUtxosVars) nextHash: the node is marked as a proof position
\* only when a hash is left to give it.
nextHash(c, v, node) ==
    IF v.hashesUsed = Len(c.proof)
    THEN [h |-> Nil, v |-> v]
    ELSE [h |-> c.proof[v.hashesUsed + 1],
          v |-> [v EXCEPT !.hashesUsed = @ + 1,
                          !.isProofHash = @ \cup {node}]]

\* The hash of a leaf: Nil when spent or when the next utxo is not this leaf.
LeafNodeHash(c, v, node) ==
    LET li == leafIdx(node)
        r  == nextLeaf(c, v)
    IN  IF ~contains(c.leafset, li) THEN [h |-> Nil, v |-> v]
        ELSE IF li # r.idx \/ r.id = Nil THEN [h |-> Nil, v |-> r.v]
        ELSE [h |-> hash(node, r.id), v |-> r.v]

\* The switch closing calcNodeHash: one Nil side is filled from the proof.
\* R is the right child's result, whose cursors come after the left one's.
CombineChildren(c, node, ht, lh, R) ==
    IF lh = Nil /\ R.h = Nil THEN [h |-> Nil, v |-> R.v]
    ELSE IF lh = Nil
         THEN LET x == nextHash(c, R.v, left(node, ht))
              IN  IF x.h = Nil THEN x ELSE [h |-> parentHash(node, x.h, R.h), v |-> x.v]
    ELSE IF R.h = Nil
         THEN LET x == nextHash(c, R.v, right(node))
              IN  IF x.h = Nil THEN x ELSE [h |-> parentHash(node, lh, x.h), v |-> x.v]
    ELSE [h |-> parentHash(node, lh, R.h), v |-> R.v]

RECURSIVE calcNodeHash(_, _, _, _)

\* The right child, after the left child's result L: read from the proof
\* when the last leaf lies at or left of the left child, else computed.
RightChild(c, node, ht, L) ==
    CombineChildren(c, node, ht, L.h,
        IF nodeIdx(c.lastLeafIdx) <= left(node, ht)
        THEN nextHash(c, L.v, right(node))
        ELSE calcNodeHash(c, L.v, right(node), ht - 1))

\* (v *verifyMwebUtxosVars) calcNodeHash
calcNodeHash(c, v, node, ht) ==
    IF node < nodeIdx(c.firstLeafIdx) \/ node \in v.isProofHash
    THEN nextHash(c, v, node)
    ELSE IF ht = 0 THEN LeafNodeHash(c, v, node)
    ELSE RightChild(c, node, ht, calcNodeHash(c, v, left(node, ht), ht - 1))

\* The leaf-range walk: the utxos must be the consecutive unspent leaves
\* from StartIndex; the last leaf index reached, or -1 when they are not.
RECURSIVE LeafRangeWalk(_, _, _, _)
LeafRangeWalk(l, utxos, i, lastLeaf) ==
    IF ~contains(l, lastLeaf) \/ utxos[i].LeafIndex # lastLeaf THEN -1
    ELSE IF i = Len(utxos) THEN lastLeaf
    ELSE LeafRangeWalk(l, utxos, i + 1, nextUnspent(l, lastLeaf))

RECURSIVE PeakPass(_, _, _, _, _, _)

\* A peak's hash, or the next proof hash when it cannot be computed.
PeakHash(c, r0, p) == IF r0.h = Nil THEN nextHash(c, r0.v, p) ELSE r0

\* The rest of the loop body for the k-th peak, given its hash r: fail on
\* Nil, go on while the last leaf lies right of the peak, else read the
\* bagged peaks to its right (unless it is the last) and break.
PeakStep(c, peaks, k, nextNodeIdx, peakHashes, r) ==
    LET p  == peaks[k]
        ph == Append(peakHashes, r.h)
        b  == nextHash(c, r.v, nextNodeIdx)
    IN  IF r.h = Nil THEN [ok |-> FALSE, peakHashes |-> ph, v |-> r.v]
        ELSE IF nodeIdx(c.lastLeafIdx) > p
             THEN PeakPass(c, r.v, peaks, k + 1, nextNodeIdx, ph)
        ELSE IF p = peaks[Len(peaks)]
             THEN [ok |-> TRUE, peakHashes |-> ph, v |-> r.v]
        ELSE [ok |-> b.h # Nil, peakHashes |-> Append(ph, b.h), v |-> b.v]

\* One pass over the peaks (the body of `for i := 0; i < 2; i++`), from the
\* k-th peak on: [ok, peakHashes, v].
PeakPass(c, v, peaks, k, nextNodeIdx, peakHashes) ==
    IF k > Len(peaks) THEN [ok |-> TRUE, peakHashes |-> peakHashes, v |-> v]
    ELSE PeakStep(c, peaks, k, nextNodeIdx, peakHashes,
                  PeakHash(c, calcNodeHash(c, v, peaks[k], height(peaks[k])), peaks[k]))

\* Mutant: the used-hash count is not checked after a pass.
PassNoHashCount(c, v, peaks, nextNodeIdx) ==
    LET r == PeakPass(c, [v EXCEPT !.leavesUsed = 0, !.hashesUsed = 0],
                      peaks, 1, nextNodeIdx, <<>>)
    IN  [r EXCEPT !.ok = @ /\ r.v.leavesUsed = Len(c.utxos)]

\* The check closing a pass: every utxo and every proof hash was used.
PassChecked(c, r) ==
    [r EXCEPT !.ok = /\ @
                     /\ r.v.leavesUsed = Len(c.utxos)
                     /\ r.v.hashesUsed = Len(c.proof)]

\* A pass with the cursors reset and the proof positions of v kept.
Pass(c, v, peaks, nextNodeIdx) ==
    PassChecked(c, PeakPass(c, [v EXCEPT !.leavesUsed = 0, !.hashesUsed = 0],
                            peaks, 1, nextNodeIdx, <<>>))

\* Bagging: fold the peak hashes right to left under parentHash(nextNodeIdx).
RECURSIVE BagPeaks(_, _, _)
BagPeaks(nextNodeIdx, peakHashes, acc) ==
    IF peakHashes = <<>> THEN acc
    ELSE BagPeaks(nextNodeIdx, SubSeq(peakHashes, 1, Len(peakHashes) - 1),
                  parentHash(nextNodeIdx, peakHashes[Len(peakHashes)], acc))

\* The root from the last pass's peak hashes, against OutputRoot.
VerifyBag(hdr, nextNodeIdx, pass) ==
    /\ pass.ok
    /\ BagPeaks(nextNodeIdx, SubSeq(pass.peakHashes, 1, Len(pass.peakHashes) - 1),
                pass.peakHashes[Len(pass.peakHashes)])
          = hdr.OutputRoot

\* Mutant: a single pass, the proof positions learnt on the way.
VerifyOnePass(hdr, c, nextNodeIdx, pass1) == VerifyBag(hdr, nextNodeIdx, pass1)

\* The second pass, with the proof positions the first one learnt.
VerifyPasses(hdr, c, nextNodeIdx, pass1) ==
    /\ pass1.ok
    /\ VerifyBag(hdr, nextNodeIdx, Pass(c, pass1.v, calcPeaks(nextNodeIdx), nextNodeIdx))

\* The passes, once the leaf-range walk reached leaf `last`.
VerifyWalked(hdr, l, m, last) ==
    /\ last # -1
    /\ VerifyPasses(hdr, Ctx(m, l, m.StartIndex, last), nodeIdx(hdr.OutputMMRSize),
                    Pass(Ctx(m, l, m.StartIndex, last),
                         [leavesUsed |-> 0, hashesUsed |-> 0, isProofHash |-> {}],
                         calcPeaks(nodeIdx(hdr.OutputMMRSize)),
                         nodeIdx(hdr.OutputMMRSize)))

\* verifyMwebUtxos(mwebHeader, mwebLeafset, mwebUtxos)
verifyMwebUtxos(hdr, l, m) ==
    IF /\ m.StartIndex = 0 /\ m.Utxos = <<>> /\ m.ProofHashes = <<>>
       /\ hdr.OutputRoot = ZeroHash /\ hdr.OutputMMRSize = 0
    THEN TRUE
    ELSE IF m.Utxos = <<>> \/ hdr.OutputMMRSize = 0 THEN FALSE
    ELSE VerifyWalked(hdr, l, m, LeafRangeWalk(l, m.Utxos, 1, m.StartIndex))
=============================================================================
