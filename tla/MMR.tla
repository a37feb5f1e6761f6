-------------------------------- MODULE MMR --------------------------------
(***************************************************************************)
(* Merkle Mountain Range primitives of src/mweb.go: the leafset bitmap,    *)
(* leaf/node index arithmetic, peak enumeration and node hashing.          *)
(*                                                                         *)
(* Indices are naturals; the uint64 width of leafIdx/nodeIdx never matters *)
(* at the bounds TLC explores (2*i - popcount(i) overflows only for        *)
(* i >= 2^63).  A hash is modelled as an ideal (collision free) hash: the  *)
(* term built from its input.  The leaf and parent inputs have different   *)
(* lengths (8+1+32 versus 8+32+32 bytes), which the tags "leaf" and        *)
(* "parent" stand for.                                                     *)
(***************************************************************************)
EXTENDS Naturals, Sequences

(***************************************************************************)
(* Leafset: a byte slice, bit i is l[i/8] & (0x80 >> (i%8)).               *)
(***************************************************************************)

\* (l leafset) contains: false past the end of the slice, else the MSB-first bit.
contains(l, i) ==
    /\ i \div 8 < Len(l)
    /\ (l[i \div 8 + 1] \div 2^(7 - (i % 8))) % 2 = 1

\* (l leafset) nextUnspent: the first index after i that is set or out of range.
RECURSIVE nextUnspent(_, _)
nextUnspent(l, i) ==
    LET j == i + 1
    IN  IF contains(l, j) \/ j \div 8 >= Len(l) THEN j ELSE nextUnspent(l, j)

\* The byte slice whose set bits are the leaf indices in S.
LeafsetBytes(S, nbytes) ==
    [k \in 1..nbytes |->
        LET bitVal[b \in 0..8] ==
              IF b = 8 THEN 0
              ELSE (IF 8 * (k - 1) + b \in S THEN 2^(7 - b) ELSE 0) + bitVal[b + 1]
        IN  bitVal[0]]

(***************************************************************************)
(* Index arithmetic.                                                       *)
(***************************************************************************)

RECURSIVE OnesCount(_)
OnesCount(x) == IF x = 0 THEN 0 ELSE (x % 2) + OnesCount(x \div 2)

\* 64 - bits.LeadingZeros64(x): the number of significant bits of x.
RECURSIVE BitLen(_)
BitLen(x) == IF x = 0 THEN 0 ELSE 1 + BitLen(x \div 2)

\* (i leafIdx) nodeIdx
nodeIdx(i) == 2 * i - OnesCount(i)

\* Mutant: a node exactly the size of a peak is not taken off.
RECURSIVE HeightLoopStrict(_, _)
HeightLoopStrict(height, peakSize) ==
    IF peakSize = 0 THEN height
    ELSE HeightLoopStrict(IF height > peakSize THEN height - peakSize ELSE height,
                          peakSize \div 2)

\* The loop of (i nodeIdx) height: peakSize runs 2^h-1, 2^(h-1)-1, ..., 1.
RECURSIVE HeightLoop(_, _)
HeightLoop(height, peakSize) ==
    IF peakSize = 0 THEN height
    ELSE HeightLoop(IF height >= peakSize THEN height - peakSize ELSE height,
                    peakSize \div 2)

\* (i nodeIdx) height
height(i) == HeightLoop(i, 2^BitLen(i) - 1)

RECURSIVE LeafIdxLoop(_, _, _)
LeafIdxLoop(leafIndex, numLeft, peakSize) ==
    IF peakSize = 0 THEN leafIndex
    ELSE IF numLeft >= peakSize
         THEN LeafIdxLoop(leafIndex + (peakSize + 1) \div 2, numLeft - peakSize,
                          peakSize \div 2)
         ELSE LeafIdxLoop(leafIndex, numLeft, peakSize \div 2)

\* (i nodeIdx) leafIdx
leafIdx(i) == LeafIdxLoop(0, i, 2^BitLen(i) - 1)

\* (i nodeIdx) left(height) and (i nodeIdx) right()
left(i, h) == i - 2^h
right(i) == i - 1

\* Mutant: the running sum of the previous peaks is not advanced.
RECURSIVE PeaksLoopNoSum(_, _, _, _)
PeaksLoopNoSum(peaks, sumPrevPeaks, nodes, peakSize) ==
    IF peakSize = 0 THEN peaks
    ELSE IF nodes >= peakSize
         THEN PeaksLoopNoSum(Append(peaks, sumPrevPeaks + peakSize - 1),
                             sumPrevPeaks, nodes - peakSize, peakSize \div 2)
         ELSE PeaksLoopNoSum(peaks, sumPrevPeaks, nodes, peakSize \div 2)

\* calcPeaks(nodes): the node index of every peak of an MMR of `nodes` nodes.
RECURSIVE PeaksLoop(_, _, _, _)
PeaksLoop(peaks, sumPrevPeaks, nodes, peakSize) ==
    IF peakSize = 0 THEN peaks
    ELSE IF nodes >= peakSize
         THEN PeaksLoop(Append(peaks, sumPrevPeaks + peakSize - 1),
                        sumPrevPeaks + peakSize, nodes - peakSize, peakSize \div 2)
         ELSE PeaksLoop(peaks, sumPrevPeaks, nodes, peakSize \div 2)

calcPeaks(nodes) == PeaksLoop(<<>>, 0, nodes, 2^BitLen(nodes) - 1)

\* (i nodeIdx) hash(data) and (i nodeIdx) parentHash(left, right)
hash(i, outputId) == <<"leaf", i, outputId>>
parentHash(i, l, r) == <<"parent", i, l, r>>

(***************************************************************************)
(* Reference MMR, defined from the structure and not from the arithmetic:  *)
(* n leaves form perfect trees for the powers of two of n, highest first,  *)
(* laid out in post-order.  Each node is a record of its index, height,    *)
(* leaf range [lo, hi] and child indices.                                  *)
(***************************************************************************)

RECURSIVE RefTree(_, _, _)
RefTree(h, firstNode, firstLeaf) ==
    LET root == firstNode + 2^(h + 1) - 2
    IN  IF h = 0
        THEN {[node |-> firstNode, height |-> 0, lo |-> firstLeaf,
               hi |-> firstLeaf, lchild |-> firstNode, rchild |-> firstNode]}
        ELSE RefTree(h - 1, firstNode, firstLeaf)
             \cup RefTree(h - 1, firstNode + 2^h - 1, firstLeaf + 2^(h - 1))
             \cup {[node |-> root, height |-> h, lo |-> firstLeaf,
                    hi |-> firstLeaf + 2^h - 1,
                    lchild |-> firstNode + 2^h - 2, rchild |-> root - 1]}

\* The heights of the peaks of an MMR of n leaves, tallest (leftmost) first.
RECURSIVE RefPeakHeights(_)
RefPeakHeights(n) ==
    IF n = 0 THEN <<>>
    ELSE LET h == CHOOSE h \in 0..n : 2^h <= n /\ n < 2^(h + 1)
         IN  <<h>> \o RefPeakHeights(n - 2^h)

\* The peaks as records [height, firstNode, firstLeaf, root].
RefPeaks(n) ==
    LET hs == RefPeakHeights(n)
        offs[k \in 0..Len(hs)] ==
            IF k = 0 THEN [node |-> 0, leaf |-> 0]
            ELSE [node |-> offs[k - 1].node + 2^(hs[k] + 1) - 1,
                  leaf |-> offs[k - 1].leaf + 2^hs[k]]
    IN  [k \in 1..Len(hs) |->
            [height |-> hs[k], firstNode |-> offs[k - 1].node,
             firstLeaf |-> offs[k - 1].leaf,
             root |-> offs[k].node - 1, lastLeaf |-> offs[k].leaf - 1]]

RefNodes(n) ==
    LET ps == RefPeaks(n)
    IN  UNION {RefTree(ps[k].height, ps[k].firstNode, ps[k].firstLeaf) : k \in DOMAIN ps}
=============================================================================
