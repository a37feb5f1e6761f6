------------------------------ MODULE MwebStore ------------------------------
(***************************************************************************)
(* What the MWEB sync promises of the coin store, without spans, requests, *)
(* channels or the mutex: the store follows the chain.  It holds the       *)
(* leafset of one block, synced (0 before any), and coin records.  Coin    *)
(* records are written only for leaves a later block, already verified,    *)
(* adds to the installed leafset; a block's leafset is installed only once *)
(* every leaf it adds has a coin record, and its install deletes exactly   *)
(* the records of the leaves it spends.  Records written for a block that  *)
(* is never installed may stay (spec.md §4.5: an abandoned sync is retried *)
(* on the next chain advance).                                             *)
(*                                                                         *)
(* A block is [n, S] as in MwebSync: S is its set of unspent leaves.       *)
(***************************************************************************)
EXTENDS Naturals, Sequences

CONSTANT Blocks

VARIABLES
    tip,      \* the newest verified block
    synced,   \* the block whose leafset the store holds, 0 for none
    coins     \* leaf indices with a coin record

BlockLeaves(k) == IF k = 0 THEN {} ELSE Blocks[k].S

\* The leaves block k adds to, and spends from, the installed leafset.
Added(k)   == BlockLeaves(k) \ BlockLeaves(synced)
Spent(k)   == BlockLeaves(synced) \ BlockLeaves(k)

Init == tip = 1 /\ synced = 0 /\ coins = {}

NewBlock ==
    /\ tip < Len(Blocks)
    /\ tip' = tip + 1
    /\ UNCHANGED <<synced, coins>>

\* Coin records for some leaves a verified block adds.
StoreCoins(k) ==
    /\ synced < k /\ k <= tip
    /\ \E S \in SUBSET Added(k) : coins' = coins \cup S
    /\ UNCHANGED <<tip, synced>>

\* The last records of block k are written, then its leafset installed and
\* the spent leaves' records deleted.
Install(k) ==
    /\ synced < k /\ k <= tip
    /\ \E S \in SUBSET Added(k) :
          /\ Added(k) \subseteq coins \cup S
          /\ coins' = (coins \cup S) \ Spent(k)
    /\ synced' = k
    /\ UNCHANGED tip

Next == NewBlock \/ \E k \in 1..Len(Blocks) : StoreCoins(k) \/ Install(k)

Spec == Init /\ [][Next]_<<tip, synced, coins>>
====
