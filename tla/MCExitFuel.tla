----------------------------- MODULE MCExitFuel -----------------------------
EXTENDS ExitFuel, TLC

Symmetry == Permutations(Calls) \cup Permutations(Coins) \cup Permutations(Addrs)
=============================================================================
