------------------------------- MODULE MCMMR -------------------------------
(***************************************************************************)
(* Checks the MMR index arithmetic of src/mweb.go against the reference    *)
(* MMR of module MMR, for every leaf count up to MaxLeaves.  The state is  *)
(* the leaf count of the MMR the arithmetic is asked about.                *)
(***************************************************************************)
EXTENDS MMR, FiniteSets

CONSTANT MaxLeaves   \* largest OutputMMRSize the arithmetic is checked for

VARIABLE numLeaves

Init == numLeaves = 0

\* Ask about an MMR of any leaf count in range.
Observe == \E k \in 0..MaxLeaves : numLeaves' = k

Spec == Init /\ [][Observe]_numLeaves

(***************************************************************************)
(* The node arithmetic agrees with the MMR structure (spec.md §8.1-3):     *)
(* leafIdx.nodeIdx() numbers the nodes of numLeaves leaves, height() and   *)
(* leafIdx() recover every node's height and leaf, and left(h)/right()     *)
(* name the children calcNodeHash descends into.                           *)
(***************************************************************************)
NodeArithmeticMatchesReference ==
    LET nodes == RefNodes(numLeaves)
    IN  /\ nodeIdx(numLeaves) = Cardinality(nodes)
        /\ \A r \in nodes :
              /\ height(r.node) = r.height
              /\ r.height = 0 => /\ leafIdx(r.node) = r.lo
                                 /\ nodeIdx(r.lo) = r.node
              /\ r.height > 0 => /\ left(r.node, r.height) = r.lchild
                                 /\ right(r.node) = r.rchild

(***************************************************************************)
(* calcPeaks(leafIdx(n).nodeIdx()), as verifyMwebUtxos calls it, returns   *)
(* exactly the peak roots of the MMR of n leaves, left to right.           *)
(***************************************************************************)
PeaksMatchReference ==
    LET ps == RefPeaks(numLeaves)
    IN  calcPeaks(nodeIdx(numLeaves)) = [k \in DOMAIN ps |-> ps[k].root]
=============================================================================
