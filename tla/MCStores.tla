------------------------------ MODULE MCStores ------------------------------
EXTENDS StoresInvariant, TLC
Symmetry == Permutations(Callers) \cup Permutations(Keys)
=============================================================================
