----------------------------- MODULE MCNumbering -----------------------------
(* Bounds for checking Numbering: two dates on either side of 1 April, and    *)
(* what the settings form can store, five wordings with start numbers 1, 3    *)
(* and 9 (whose successor has a digit more).                                  *)
EXTENDS Numbering, TLC

MCDates == {[year |-> 2026, month |-> 3], [year |-> 2026, month |-> 4]}
MCReferences == {<<>>, <<"1">>}

MCSymbols == {"{PREFIX}", "{SEP}", "{TYPE}", "{FY}", "{SEQ}", "{PROJECT_REF}",
              "-", "1", "2"}

Stored(po, dc, prefix, format, padding) ==
    [start |-> [t \in SeqTypes |-> IF t = "po" THEN po ELSE dc],
     style |-> [g \in Groups |->
                  [prefix |-> prefix, separator |-> <<"1">>, format |-> format,
                   padding |-> IF g = "po" THEN 3 ELSE padding]]]

\* Digits next to the number before and behind it, the latter with two paddings;
\* the year right behind it; and every token in use, with one more {SEQ} brought
\* in by the prefix.
MCForms ==
    {Stored(1, 9, <<"1">>, <<"{PREFIX}", "{SEQ}">>, 1),
     Stored(9, 1, <<"2">>, <<"{SEQ}", "{PREFIX}">>, 1),
     Stored(3, 9, <<"2">>, <<"{SEQ}", "{PREFIX}">>, 2),
     Stored(9, 3, <<>>, <<"{SEQ}", "{FY}">>, 1),
     Stored(1, 9, <<"{SEQ}">>,
            <<"{PROJECT_REF}", "{PREFIX}", "{SEP}", "{FY}", "{TYPE}", "{SEQ}">>, 1)}

\* Requests are interchangeable.
Symmetry == Permutations(Requests)
=============================================================================
