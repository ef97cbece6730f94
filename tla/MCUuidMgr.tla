----------------------------- MODULE MCUuidMgr -----------------------------
EXTENDS UuidMgr, TLC

Symmetry ==
    Permutations(Threads) \cup Permutations(Nodes) \cup Permutations(Uuids)
        \cup Permutations(Pairs)
=============================================================================
