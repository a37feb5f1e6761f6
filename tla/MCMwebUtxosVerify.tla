------------------------- MODULE MCMwebUtxosVerify -------------------------
(***************************************************************************)
(* Checks verifyMwebUtxos against a reference prover.                      *)
(*                                                                         *)
(* A query is an MMR of n leaves (output id of leaf i is OutputIdOf(i)), a leafset S   *)
(* of unspent leaves, a start leaf s in S and a count c.  The reference    *)
(* message for it carries the c unspent leaves from s and, as proof, the   *)
(* hashes of the maximal subtrees holding none of those leaves in the      *)
(* peaks up to the one holding the last of them (ascending node index),   *)
(* followed by the bag of the peaks to its right.  A peer answers the      *)
(* query with that message or with one changed in one place: a forged     *)
(* output id, a proof hash replaced, dropped, inserted, swapped or split, *)
(* a utxo dropped or added, or a shifted StartIndex.                       *)
(***************************************************************************)
EXTENDS MwebUtxosVerify, SequencesExt, FiniteSets

CONSTANTS
    MaxLeaves,  \* largest OutputMMRSize queried
    FakeId,     \* an output id no honest leaf has
    Junk        \* a hash that is no node of the MMR

VARIABLES
    query,      \* [n, S, s, c]: header size, unspent leaves, start, count
    msg,        \* the MsgMwebUtxos last received for the query
    verdict     \* "none", or what verifyMwebUtxos returned for msg

vars == <<query, msg, verdict>>

OutputIdOf(i) == <<"out", i>>

SeqRange(s) == {s[k] : k \in DOMAIN s}

\* The elements of a finite set of naturals in ascending order.
Ascending(S) ==
    [j \in 1..Cardinality(S) |-> CHOOSE x \in S : Cardinality({y \in S : y < x}) = j - 1]

Sizes == 1..MaxLeaves

\* The reference MMR of every size, computed once.
NodesOf == [n \in Sizes |-> RefNodes(n)]
PeaksOf == [n \in Sizes |-> RefPeaks(n)]
RecOf   == [n \in Sizes |-> [x \in {r.node : r \in NodesOf[n]} |->
                              CHOOSE r \in NodesOf[n] : r.node = x]]

\* The hash of a node of the MMR whose node records are rec.
RECURSIVE RefHash(_, _)
RefHash(rec, node) ==
    IF rec[node].height = 0 THEN hash(node, OutputIdOf(rec[node].lo))
    ELSE parentHash(node, RefHash(rec, rec[node].lchild), RefHash(rec, rec[node].rchild))

\* The hash of every node of the MMR of n leaves, from the reference MMR.
HonestHashes(n) == [node \in DOMAIN RecOf[n] |-> RefHash(RecOf[n], node)]

HashesOf == [n \in Sizes |-> HonestHashes(n)]

\* The bag of the peaks k.. of an MMR of n leaves, folded right to left.
RECURSIVE RightBag(_, _)
RightBag(n, k) ==
    LET ps == PeaksOf[n]
    IN  IF k = Len(ps) THEN HashesOf[n][ps[k].root]
        ELSE parentHash(nodeIdx(n), HashesOf[n][ps[k].root], RightBag(n, k + 1))

HeaderOf == [n \in Sizes |-> [OutputRoot |-> RightBag(n, 1), OutputMMRSize |-> n]]

HeaderLeafset(n, S) == LeafsetBytes(S, (n + 7) \div 8)

\* The leaves a query asks for: the c smallest of S at or after s.
Queried(q) ==
    LET from == {x \in q.S : x >= q.s}
    IN  {x \in from : Cardinality({y \in from : y < x}) < q.c}

Queries ==
    UNION {UNION {UNION {{[n |-> n, S |-> S, s |-> s, c |-> c] :
                             c \in 1..Cardinality({x \in S : x >= s})} :
                         s \in S} :
                  S \in SUBSET (0..n - 1)} :
           n \in Sizes}

\* The peak, of those ps, holding leaf x.
PeakHolding(ps, x) == CHOOSE k \in DOMAIN ps : ps[k].firstLeaf <= x /\ x <= ps[k].lastLeaf

\* The peak holding the last queried leaf.
LastPeak(q) == PeakHolding(PeaksOf[q.n], Max(Queried(q)))

\* The maximal subtrees holding no leaf of Q, of those nodes below `hi`.
CleanRoots(nodes, Q, hi) ==
    LET clean(r) == \A x \in Q : x < r.lo \/ x > r.hi
    IN  {r.node : r \in {r \in nodes :
                           /\ r.hi <= hi /\ clean(r)
                           /\ \A p \in nodes : p.height > 0 /\ r.node \in {p.lchild, p.rchild}
                                                => ~clean(p)}}

\* The records of the nodes pn, by ascending node index.
NodeRecords(rec, pn) == [j \in 1..Cardinality(pn) |-> rec[Ascending(pn)[j]]]

\* The maximal subtrees holding no queried leaf, in the peaks up to
\* LastPeak(q), by ascending node index.
ProofNodes(q) ==
    NodeRecords(RecOf[q.n],
                CleanRoots(NodesOf[q.n], Queried(q), PeaksOf[q.n][LastPeak(q)].lastLeaf))

\* The message for query q, its queried leaves Q ascending, proof nodes pn
\* and last peak k.
MsgOf(q, Q, pn, k) ==
    [StartIndex  |-> q.s,
     Utxos       |-> [j \in 1..q.c |-> [LeafIndex |-> Q[j], OutputId |-> OutputIdOf(Q[j])]],
     ProofHashes |-> [j \in DOMAIN pn |-> HashesOf[q.n][pn[j].node]]
                     \o (IF k = Len(PeaksOf[q.n]) THEN <<>> ELSE <<RightBag(q.n, k + 1)>>)]

ReferenceMsg(q) == MsgOf(q, Ascending(Queried(q)), ProofNodes(q), LastPeak(q))

\* The utxo after the last one of u, in leafset l.
NextUtxo(l, u) ==
    [LeafIndex |-> nextUnspent(l, u[Len(u)].LeafIndex),
     OutputId  |-> OutputIdOf(nextUnspent(l, u[Len(u)].LeafIndex))]

\* Every message one change away from m, whose proof nodes are pn: a
\* forged output id; a proof hash replaced by junk or by another hash of
\* the proof, dropped, duplicated, swapped with its neighbour, or split into
\* the hashes of its two children; junk inserted; a utxo dropped or the next
\* one (nx) added; or a shifted StartIndex.
Mutations(hh, m, pn, nx) ==
    LET u == m.Utxos
        p == m.ProofHashes
    IN  {[m EXCEPT !.Utxos[j].OutputId = FakeId] : j \in DOMAIN u}
        \cup {[m EXCEPT !.ProofHashes[j] = x] : j \in DOMAIN p, x \in {Junk} \cup SeqRange(p)}
        \cup {[m EXCEPT !.ProofHashes = RemoveAt(p, j)] : j \in DOMAIN p}
        \cup {[m EXCEPT !.ProofHashes = InsertAt(p, j, x)] :
                j \in 1..Len(p) + 1, x \in {Junk} \cup SeqRange(p)}
        \cup {[m EXCEPT !.ProofHashes = [p EXCEPT ![j] = p[j + 1], ![j + 1] = p[j]]] :
                j \in 1..Len(p) - 1}
        \cup {[m EXCEPT !.ProofHashes = SubSeq(p, 1, j - 1)
                                        \o <<hh[pn[j].lchild], hh[pn[j].rchild]>>
                                        \o SubSeq(p, j + 1, Len(p))] :
                j \in {i \in DOMAIN pn : pn[i].height > 0}}
        \cup (IF Len(u) > 1 THEN {[m EXCEPT !.Utxos = Front(u)]} ELSE {})
        \cup {[m EXCEPT !.Utxos = Append(u, nx)]}
        \cup {[m EXCEPT !.StartIndex = m.StartIndex + d] :
                d \in {d \in {-1, 1} : m.StartIndex + d >= 0}}

\* The reference message for q and every message one change away from it.
Responses(q) ==
    {ReferenceMsg(q)}
    \cup Mutations(HashesOf[q.n], ReferenceMsg(q), ProofNodes(q),
                    NextUtxo(HeaderLeafset(q.n, q.S), ReferenceMsg(q).Utxos))

Init ==
    /\ query \in Queries
    /\ msg \in Responses(query)
    /\ verdict = "none"

\* The response is handed to verifyMwebUtxos.
Verify ==
    /\ verdict = "none"
    /\ verdict' = IF verifyMwebUtxos(HeaderOf[query.n],
                                     HeaderLeafset(query.n, query.S), msg)
                  THEN "accept" ELSE "reject"
    /\ UNCHANGED <<query, msg>>

\* After a rejection the dispatcher routes the query to another peer, and
\* after an acceptance a late duplicate may come in; either way the next
\* response is the reference one from an honest peer.
Requery ==
    /\ verdict # "none"
    /\ msg' = ReferenceMsg(query)
    /\ verdict' = "none"
    /\ UNCHANGED query

Next == Verify \/ Requery

Spec == Init /\ [][Next]_vars

(***************************************************************************)
(* Completeness (spec.md §8.5): the reference proof for the unspent leaves *)
(* from StartIndex is accepted, whatever the leafset, start and count, so  *)
(* the two passes of verifyMwebUtxos, its cut of right subtrees past the   *)
(* last leaf and its bagging agree with the MMR structure.                 *)
(***************************************************************************)
ReferenceProofAccepted ==
    msg = ReferenceMsg(query) => verdict \in {"none", "accept"}

(***************************************************************************)
(* Soundness: verifyMwebUtxos accepts nothing but the reference message    *)
(* for its own start and count: no forged output id, no proof hash out of  *)
(* place, no proof hash left over and no utxo skipped.                     *)
(***************************************************************************)
AcceptedIsReference ==
    verdict = "accept" =>
        /\ [query EXCEPT !.s = msg.StartIndex, !.c = Len(msg.Utxos)] \in Queries
        /\ msg = ReferenceMsg([query EXCEPT !.s = msg.StartIndex, !.c = Len(msg.Utxos)])
=============================================================================
