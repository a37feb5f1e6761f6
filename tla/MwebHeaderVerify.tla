-------------------------- MODULE MwebHeaderVerify --------------------------
(***************************************************************************)
(* verifyMwebHeader of src/mweb.go: an MWEB header and leafset sent by a   *)
(* peer are bound to the base-chain block whose hash is lastHash, through  *)
(* a merkleblock proving that the HogEx transaction is the block's last    *)
(* transaction, the HogAddr script of its first output and the leafset     *)
(* root of the header.                                                     *)
(*                                                                         *)
(* Hashes are ideal, as in module MMR: the term built from their input.    *)
(* A message is [Merkle, Hogex, MwebHeader] with                           *)
(*   Merkle     = [Header: [MerkleRoot], Transactions, Hashes, Flags],     *)
(*   Hogex      = [id, IsHogEx, TxOut: a sequence of pkScripts],           *)
(*   MwebHeader = [id, LeafsetRoot];                                       *)
(* a nil message or leafset is Nil.  The verdict is "true", "false", or    *)
(* "panic" where the Go code indexes past the end of a slice.              *)
(***************************************************************************)
EXTENDS Integers, Sequences

CONSTANT Nil   \* a nil *wire.MsgMwebHeader or *wire.MsgMwebLeafset

\* chainhash.Hash{}: what the extraction yields as root on a malformed tree.
ZeroHash == <<"zero">>

\* (h *BlockHeader) BlockHash()
BlockHash(hdr) == <<"block", hdr>>

\* (tx *MsgTx) TxHash(): over the transaction's content.  The decoded
\* IsHogEx marker is left out, which only gives the sender more freedom.
TxHash(tx) == <<"tx", tx.id, tx.TxOut>>

\* (h *MwebHeader) Hash()
MwebHeaderHash(mh) == <<"mwebheader", mh>>

\* chainhash.Hash(blake3.Sum256(leafset))
Blake3(ls) == <<"blake3", ls>>

\* append([]byte{txscript.OP_8, 0x20}, mwebHeaderHash[:]...)
HogAddr(h) == <<"OP_8", 32, h>>

(***************************************************************************)
(* bloom.VerifyMerkleBlock, an external collaborator that spec.md §4.2     *)
(* names as the standard merkleblock algorithm (BIP 37 partial merkle      *)
(* tree): a depth-first walk that reads one flag bit per visited node and  *)
(* one hash per node it does not descend into; a leaf whose bit is set is  *)
(* a match.  A tree that is malformed yields the zero root.                *)
(***************************************************************************)

MerkleParent(l, r) == <<"node", l, r>>

\* The number of nodes at height h of a tree over n transactions.
TreeWidth(n, h) == (n + 2^h - 1) \div 2^h

RECURSIVE TreeHeightFrom(_, _)
TreeHeightFrom(n, h) == IF TreeWidth(n, h) > 1 THEN TreeHeightFrom(n, h + 1) ELSE h

\* The walk's cursor state: flag bits and hashes used, matches so far.
NoWalk == [bits |-> 0, hashes |-> 0, bad |-> FALSE, match |-> <<>>, index |-> <<>>]

Bad(st) == [h |-> ZeroHash, st |-> [st EXCEPT !.bad = TRUE]]

\* A node not descended into: its hash is the next one of the message; a
\* leaf whose flag is set is recorded as a match at position pos.
TakeHash(mb, ht, pos, st, flag) ==
    IF st.hashes >= Len(mb.Hashes) THEN Bad(st)
    ELSE [h  |-> mb.Hashes[st.hashes + 1],
          st |-> [st EXCEPT !.hashes = @ + 1,
                            !.match = IF ht = 0 /\ flag THEN Append(@, mb.Hashes[st.hashes + 1]) ELSE @,
                            !.index = IF ht = 0 /\ flag THEN Append(@, pos) ELSE @]]

\* The parent of the left result's hash and the right child R; identical
\* children are the duplicated-subtree forgery and make the tree malformed.
JoinRight(lh, R) ==
    [h |-> MerkleParent(lh, R.h), st |-> IF R.h = lh THEN [R.st EXCEPT !.bad = TRUE] ELSE R.st]

RECURSIVE Traverse(_, _, _, _)

\* After the left child L: the right child, or the left one again when the
\* level has no right child.
Descend(mb, ht, pos, L) ==
    IF 2 * pos + 1 < TreeWidth(mb.Transactions, ht - 1)
    THEN JoinRight(L.h, Traverse(mb, ht - 1, 2 * pos + 1, L.st))
    ELSE [h |-> MerkleParent(L.h, L.h), st |-> L.st]

Traverse(mb, ht, pos, st) ==
    IF st.bad \/ st.bits >= Len(mb.Flags) THEN Bad(st)
    ELSE IF ht = 0 \/ mb.Flags[st.bits + 1] = 0
         THEN TakeHash(mb, ht, pos, [st EXCEPT !.bits = @ + 1], mb.Flags[st.bits + 1] = 1)
    ELSE Descend(mb, ht, pos, Traverse(mb, ht - 1, 2 * pos, [st EXCEPT !.bits = @ + 1]))

NoMatch == [Root |-> ZeroHash, Match |-> <<>>, Index |-> <<>>]

\* The result of the walk: every hash used, every flag byte used.
Extracted(mb, r) ==
    IF \/ r.st.bad
       \/ (r.st.bits + 7) \div 8 # (Len(mb.Flags) + 7) \div 8
       \/ r.st.hashes # Len(mb.Hashes)
    THEN NoMatch
    ELSE [Root |-> r.h, Match |-> r.st.match, Index |-> r.st.index]

VerifyMerkleBlock(mb) ==
    IF mb.Transactions = 0 \/ Len(mb.Hashes) > mb.Transactions \/ Len(mb.Flags) < Len(mb.Hashes)
    THEN NoMatch
    ELSE Extracted(mb, Traverse(mb, TreeHeightFrom(mb.Transactions, 0), 0, NoWalk))

(***************************************************************************)
(* verifyMwebHeader                                                        *)
(***************************************************************************)

\* Mutant: HogEx may sit anywhere among the matched transactions.
FinalTxIsLastAnyPos(mh, r) == TRUE

\* Mutant: the position compared with the transaction count, not its last index.
FinalTxIsLastOffByOne(mh, r) == r.Index[Len(r.Index)] = mh.Merkle.Transactions

\* finalTxPos == mwebHeader.Merkle.Transactions-1.  The uint32 subtraction
\* cannot wrap: a merkleblock of no transactions has no match.
FinalTxIsLast(mh, r) == r.Index[Len(r.Index)] = mh.Merkle.Transactions - 1

\* The checks after the merkle block was extracted to r, in the code's order.
CheckExtracted(mh, ls, r) ==
    IF r.Root # mh.Merkle.Header.MerkleRoot THEN "false"
    ELSE IF ~mh.Hogex.IsHogEx THEN "false"
    ELSE IF r.Match = <<>> THEN "panic"
    ELSE IF TxHash(mh.Hogex) # r.Match[Len(r.Match)] THEN "false"
    ELSE IF ~FinalTxIsLast(mh, r) THEN "false"
    ELSE IF mh.Hogex.TxOut = <<>> THEN "panic"
    ELSE IF mh.Hogex.TxOut[1] # HogAddr(MwebHeaderHash(mh.MwebHeader)) THEN "false"
    ELSE IF Blake3(ls) # mh.MwebHeader.LeafsetRoot THEN "false"
    ELSE "true"

verifyMwebHeader(mh, ls, lastHash) ==
    IF mh = Nil \/ ls = Nil THEN "false"
    ELSE IF BlockHash(mh.Merkle.Header) # lastHash THEN "false"
    ELSE CheckExtracted(mh, ls, VerifyMerkleBlock(mh.Merkle))
=============================================================================
