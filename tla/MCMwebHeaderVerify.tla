------------------------- MODULE MCMwebHeaderVerify -------------------------
(***************************************************************************)
(* Checks verifyMwebHeader against a block of Len(Txs) transactions: a     *)
(* coinbase, an ordinary transaction Evil whose first output pays to the   *)
(* HogAddr of a header FakeMH (anyone can create one), Fillers plain       *)
(* transactions and the HogEx committing to the header MH, whose leafset   *)
(* root is that of LS.                                                     *)
(*                                                                         *)
(* A peer sends a merkleblock built honestly for any set of matched        *)
(* transactions, or the honest one (matching HogEx) changed in one place;  *)
(* as HogEx any transaction of the block, or HogEx with its marker off or  *)
(* its outputs dropped; MH or FakeMH; and LS, another leafset or none.     *)
(***************************************************************************)
EXTENDS MwebHeaderVerify, FiniteSets

CONSTANTS
    Fillers,    \* plain transactions between Evil and HogEx
    Junk        \* a hash that is no node of the block's merkle tree

VARIABLES
    msg,        \* the MsgMwebHeader received, or Nil
    ls,         \* the leafset received, or Nil
    verdict     \* "none", or what verifyMwebHeader returned

vars == <<msg, ls, verdict>>

LS     == <<"leafset">>
FakeLS == <<"other leafset">>
MH     == [id |-> "mweb",      LeafsetRoot |-> Blake3(LS)]
FakeMH == [id |-> "fake mweb", LeafsetRoot |-> Blake3(LS)]

Coinbase == [id |-> <<"coinbase", 0>>, IsHogEx |-> FALSE, TxOut |-> <<<<"pay", 0>>>>]
Evil     == [id |-> <<"evil", 0>>, IsHogEx |-> FALSE, TxOut |-> <<HogAddr(MwebHeaderHash(FakeMH))>>]
Hogex    == [id |-> <<"hogex", 0>>, IsHogEx |-> TRUE, TxOut |-> <<HogAddr(MwebHeaderHash(MH))>>]
Txs == <<Coinbase, Evil>>
       \o [k \in 1..Fillers |-> [id |-> <<"plain", k>>, IsHogEx |-> FALSE, TxOut |-> <<<<"pay", k>>>>]]
       \o <<Hogex>>

N == Len(Txs)
Height == TreeHeightFrom(N, 0)

\* The merkle tree of the block, by its definition: the last node of an odd
\* level is paired with itself.
RECURSIVE CalcHash(_, _)
CalcHash(h, pos) ==
    IF h = 0 THEN TxHash(Txs[pos + 1])
    ELSE MerkleParent(CalcHash(h - 1, 2 * pos),
                      CalcHash(h - 1, IF 2 * pos + 1 < TreeWidth(N, h - 1)
                                      THEN 2 * pos + 1 ELSE 2 * pos))

Header    == [MerkleRoot |-> CalcHash(Height, 0)]
LastHash  == BlockHash(Header)
NodeHashes == UNION {{CalcHash(h, p) : p \in 0..TreeWidth(N, h) - 1} : h \in 0..Height}

\* The BIP 37 builder: flag bits and hashes of the partial tree for the
\* matched positions S, depth first.
RECURSIVE Build(_, _, _, _)
BuildRight(S, h, pos, l) ==
    IF 2 * pos + 1 < TreeWidth(N, h - 1) THEN Build(S, h - 1, 2 * pos + 1, l) ELSE l
Build(S, h, pos, acc) ==
    LET parent == \E p \in S : pos * 2^h <= p /\ p < (pos + 1) * 2^h
        acc1   == [acc EXCEPT !.flags = Append(@, IF parent THEN 1 ELSE 0)]
    IN  IF h = 0 \/ ~parent
        THEN [acc1 EXCEPT !.hashes = Append(@, CalcHash(h, pos))]
        ELSE BuildRight(S, h, pos, Build(S, h - 1, 2 * pos, acc1))

\* Flag bits are sent in whole bytes, padded with zeros.
PadFlags(f) == f \o [k \in 1..((8 - (Len(f) % 8)) % 8) |-> 0]

MerkleFor(S, b) ==
    [Header |-> Header, Transactions |-> N, Hashes |-> b.hashes, Flags |-> PadFlags(b.flags)]

HonestMerkle(S) == MerkleFor(S, Build(S, Height, 0, [flags |-> <<>>, hashes |-> <<>>]))

\* The honest merkleblock changed in one place.
MerkleChanges(m) ==
    {[m EXCEPT !.Hashes[j] = x] : j \in DOMAIN m.Hashes, x \in NodeHashes \cup {Junk}}
    \cup {[m EXCEPT !.Flags[j] = 1 - @] : j \in DOMAIN m.Flags}
    \cup {[m EXCEPT !.Transactions = N + d] : d \in {-1, 1}}
    \cup {[m EXCEPT !.Hashes = SubSeq(@, 1, Len(@) - 1)]}
    \cup {[m EXCEPT !.Flags = SubSeq(@, 1, Len(@) - 8)]}
    \cup {[m EXCEPT !.Header = [MerkleRoot |-> Junk]]}

Merkles == {HonestMerkle(S) : S \in SUBSET (0..N - 1)} \cup MerkleChanges(HonestMerkle({N - 1}))

Hogexes == {Hogex, [Hogex EXCEPT !.IsHogEx = FALSE], [Hogex EXCEPT !.TxOut = <<>>]}
           \cup {[Txs[k] EXCEPT !.IsHogEx = TRUE] : k \in 1..N}

Honest == [Merkle |-> HonestMerkle({N - 1}), Hogex |-> Hogex, MwebHeader |-> MH]

Init ==
    /\ msg \in {Nil} \cup [Merkle: Merkles, Hogex: Hogexes, MwebHeader: {MH, FakeMH}]
    /\ ls \in {LS, FakeLS, Nil}
    /\ verdict = "none"

\* The pair is handed to verifyMwebHeader with the block's hash.
Verify ==
    /\ verdict = "none"
    /\ verdict' = verifyMwebHeader(msg, ls, LastHash)
    /\ UNCHANGED <<msg, ls>>

Spec == Init /\ [][Verify]_vars

(***************************************************************************)
(* Completeness: the header and leafset an honest peer sends, with the     *)
(* merkleblock matching only HogEx, are accepted, so the extraction, the   *)
(* last-match and last-position checks and the HogAddr and leafset-root    *)
(* comparisons agree with how the block commits to them.                   *)
(***************************************************************************)
HonestHeaderAccepted ==
    msg = Honest /\ ls = LS => verdict \in {"none", "true"}

(***************************************************************************)
(* Binding (spec.md §3): an accepted header is the one the block's last    *)
(* transaction commits to, and the accepted leafset hashes to its          *)
(* LeafsetRoot, whatever matched transactions the merkleblock proves and   *)
(* whichever of them pays to a HogAddr.                                    *)
(***************************************************************************)
AcceptedHeaderIsBound ==
    verdict = "true" =>
        /\ HogAddr(MwebHeaderHash(msg.MwebHeader)) = Txs[N].TxOut[1]
        /\ Blake3(ls) = msg.MwebHeader.LeafsetRoot

(***************************************************************************)
(* spec.md §5: the header verifier does not raise, it returns a boolean;   *)
(* whatever a peer sends, verifyMwebHeader never indexes past a slice.     *)
(***************************************************************************)
VerifierNeverPanics == verdict # "panic"
=============================================================================
