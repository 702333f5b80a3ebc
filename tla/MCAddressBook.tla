--------------------------- MODULE MCAddressBook ---------------------------
EXTENDS AddressBook, TLC
CONSTANTS a1, a2, a3, a4, n1, n2, w1, w2

Row(name, filled, ref) == [name |-> name, filled |-> filled, ref |-> ref]

\* Three rows make a full chunk and a part of one; only the last row needs a
\* parent.  The other file meets the rule only while that is loose.
MCFiles ==
    {[type |-> "install_at",
      rows |-> <<Row(n1, TRUE, None), Row(n1, TRUE, None), Row(n1, TRUE, n1)>>],
     [type |-> "ship_to", rows |-> <<Row(n2, FALSE, None)>>]}

Symmetry == Permutations(Ids) \cup Permutations(Workers)
=============================================================================
