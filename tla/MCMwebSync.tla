---------------------------- MODULE MCMwebSync ----------------------------
(***************************************************************************)
(* A three-block chain for MwebSync.  Block 1 creates leaves 0..2 (two     *)
(* spans at MaxPerQuery = 2, so responses can come out of order); block 2  *)
(* spends 0 and 2 and adds 3 (one span and a purge); block 3 spends 1 and  *)
(* adds nothing, so its sync purges at once without the mutex.             *)
(***************************************************************************)
EXTENDS MwebSync

CONSTANTS p1, p2

MCBlocks ==
    << [n |-> 3, S |-> {0, 1, 2}],
       [n |-> 4, S |-> {1, 3}],
       [n |-> 4, S |-> {3}] >>

MCPeers == {p1, p2}
MCBadPeers == {p2}

\* The refinement mapping of MwebSync tells blocks apart by their leafsets.
ASSUME \A k, m \in DOMAIN MCBlocks : k # m => MCBlocks[k].S # MCBlocks[m].S
=============================================================================
