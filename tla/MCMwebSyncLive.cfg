\* The chain ends after the last block; the node then idles, so the final
\* states have no successor.  notifyAddedMwebUtxos is left out (MaxNotifies
\* = 0): it cannot take the mutex a looping sync holds.
CONSTANTS
    p1 = p1
    p2 = p2
    Blocks <- MCBlocks
    Peers <- MCPeers
    BadPeers <- MCBadPeers
    MaxPerQuery = 2
    MaxRestarts = 1
    MaxDups = 1
    MaxNotifies = 0
SPECIFICATION Spec
CHECK_DEADLOCK FALSE
PROPERTY EverySyncEnds
