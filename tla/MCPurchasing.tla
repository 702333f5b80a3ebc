---------------------------- MODULE MCPurchasing ----------------------------
EXTENDS Purchasing, TLC
CONSTANTS v1, v2, o1, o2, l1, l2, l3, w1, w2, w3

Symmetry == Permutations(Vendors) \cup Permutations(Orders)
            \cup Permutations(Lines) \cup Permutations(Workers)
=============================================================================
