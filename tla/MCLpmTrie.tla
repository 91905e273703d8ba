----------------------------- MODULE MCLpmTrie ------------------------------
EXTENDS LpmTrie, TLC

Symmetry == Permutations(Slot) \cup Permutations(Value)
=============================================================================
