------------------------------ MODULE MCWizard ------------------------------
EXTENDS Wizard
CONSTANTS i1, i2, home, near, far, x, y

MCBoqRow == [i \in Items |-> [unit_price |-> 100, gst_percent |-> 18]]
MCState == [a \in {home, near, far} |-> IF a = far THEN "other" ELSE "own"]

Answer(to, hub, override) == [from |-> home, to |-> to, hub |-> hub, override |-> override]
MCForms ==
    {Answer(<<near>>, FALSE, o) : o \in {None, "igst"}}
        \cup {Answer(<<near, far>>, TRUE, o) : o \in {None, "cgst_sgst"}}
        \cup {Answer(<<far, None>>, TRUE, "igst"), [Answer(<<far>>, TRUE, None) EXCEPT !.from = None]}

Q(n) == [atoi |-> n, scan |-> n]
Odd == [atoi |-> 0, scan |-> 1]  \* "1e1"
Typed(q1, s1, q2, s2) ==
    [i \in Items |-> IF i = i1 THEN [qty |-> q1, serials |-> s1] ELSE [qty |-> q2, serials |-> s2]]

\* Right for one destination, for the second alone, and for both; one serial for
\* two pieces; one twice; one for two items; a quantity the parsers read differently.
MCTypings ==
    {Typed(<<Q(1), Q(0)>>, <<x>>, <<Q(0), Q(0)>>, <<>>),
     Typed(<<Q(0), Q(0)>>, <<>>, <<Q(0), Q(2)>>, <<y>>),
     Typed(<<Q(1), Q(1)>>, <<x, y>>, <<Q(0), Q(2)>>, <<>>),
     Typed(<<Q(2), Q(0)>>, <<x, x>>, <<Q(1), Q(0)>>, <<>>),
     Typed(<<Q(1), Q(0)>>, <<x>>, <<Q(2), Q(1)>>, <<x>>),
     Typed(<<Odd, Q(0)>>, <<>>, <<Odd, Q(1)>>, <<y>>)}
=============================================================================
