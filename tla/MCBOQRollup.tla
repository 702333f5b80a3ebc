---------------------------- MODULE MCBOQRollup ----------------------------
EXTENDS BOQRollup, TLC
CONSTANTS s1, s2, l1, l2, w1, w2

Symmetry == Permutations(Subs) \cup Permutations(Leaves) \cup Permutations(Workers)
=============================================================================
