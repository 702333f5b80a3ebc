------------------------------- MODULE Wizard -------------------------------
(****************************************************************************)
(* The four pages that make a shipment (handlers/dc_wizard.go) and what is  *)
(* created from the last one (services/dc_creation.go).  The server keeps   *)
(* nothing between the pages: each carries the earlier answers in hidden    *)
(* fields.  The page before the last checks, the last one creates without   *)
(* looking again.  One user goes through the pages while others use serial  *)
(* numbers in the same project.  The steps of the creation, and what its    *)
(* failure leaves, are in ChallanStore: here it succeeds as a whole.        *)
(****************************************************************************)
EXTENDS Integers, Sequences, SequencesExt, FiniteSets, Functions

CONSTANTS
    Items,         \* the items of the challan template
    Required,      \* those whose serial_tracking is "required"
    BoqRow,        \* for each item, its row of sub_items or sub_sub_items
    BillFroms,     \* the addresses a shipment may be billed from
    ShipTos,       \* the addresses it may be shipped to
    State,         \* the state each of those addresses is in
    Serials,       \* serial numbers
    Forms,         \* the answers given on the second page
    Typings,       \* the quantities and serials typed on the third page
    None           \* no address, no override, no shipment yet

Kinds == {"direct", "transfer"}
TaxTypes == {"cgst_sgst", "igst"}

\* A typed quantity is what each of the two parsers of it reads.
Tokens == [atoi : Nat, scan : Nat]
Answers == [from : BillFroms \cup {None}, to : Seq(ShipTos \cup {None}),
            hub : BOOLEAN, override : TaxTypes \cup {None}]

ASSUME WizardAssumption ==
    /\ Required \subseteq Items
    /\ \A f \in Forms : f \in Answers /\ Len(f.to) >= 1
    /\ None \notin Typings
    /\ \A t \in Typings, i \in Items :
          /\ t[i].serials \in Seq(Serials)
          /\ \A d \in DOMAIN t[i].qty : t[i].qty[d] \in Tokens
          /\ \A f \in Forms : DOMAIN f.to \subseteq DOMAIN t[i].qty

VARIABLES
    tab,        \* the page the user is on and the fields it carries
    shipment,   \* the shipment these pages created last
    stored      \* the serial numbers of the project's challans

vars == <<tab, shipment, stored>>

\* byHand, back, news: ghosts.  The user chose the tax type; the third page was
\* left backwards; the serials stored since the review.
NewTab == [page |-> 1, kind |-> None, form |-> None, tax |-> None, typed |-> None,
           errors |-> {}, byHand |-> FALSE, back |-> FALSE, news |-> {}]

Init == tab = NewTab /\ shipment = None /\ stored \in SUBSET Serials

-----------------------------------------------------------------------------
\* GetFloat is 0 for a column the collection does not have.
GetFloat(row, column) == IF column \in DOMAIN row THEN row[column] ELSE 0

fetchTemplateItemsWithBOQ ==
    [i \in Items |-> [rate |-> GetFloat(BoqRow[i], "quoted_price"),
                      tax |-> GetFloat(BoqRow[i], "gst_percentage")]]

\* Mutant: only the first destination is compared.
determineTaxTypeFirst(from, to) ==
    IF from # None /\ Head(to) # None /\ State[Head(to)] # State[from]
    THEN "igst" ELSE "cgst_sgst"

determineTaxType(from, to) ==
    IF from # None /\ \E s \in ToSet(to) : s # None /\ State[s] # State[from]
    THEN "igst" ELSE "cgst_sgst"

Sum(f) == FoldFunction(+, 0, f)
Shown(typed, to) == [i \in Items |-> Sum([d \in DOMAIN to |-> typed[i].qty[d].atoi])]
Quantities(typed, to) == [i \in Items |-> [d \in DOMAIN to |-> typed[i].qty[d].scan]]

-----------------------------------------------------------------------------
HandleDCWizardStep1 == tab' = NewTab /\ UNCHANGED <<shipment, stored>>

\* The second page starts from the project's defaults, with nothing overridden.
HandleDCWizardStep2(kind) ==
    /\ tab.page = 1
    /\ tab' = [NewTab EXCEPT !.page = 2, !.kind = kind]
    /\ UNCHANGED <<shipment, stored>>

HandleDCWizardBackToStep1 ==
    /\ tab.page = 2
    /\ tab' = NewTab
    /\ UNCHANGED <<shipment, stored>>

Prefilled == IF tab.form = None THEN None ELSE tab.form.override
Answered(f) ==
    [tab EXCEPT !.form = f, !.byHand = f.override # None /\ (tab.byHand \/ f.override # Prefilled)]

HandleDCWizardStep3(f) ==
    /\ tab.page = 2
    /\ None \notin ToSet(f.to)
    /\ tab.kind = "transfer" => f.hub
    /\ tab' = [Answered(f) EXCEPT !.page = 3,
                  !.tax = IF f.override # None THEN f.override ELSE determineTaxType(f.from, f.to)]
    /\ UNCHANGED <<shipment, stored>>

\* The second page again, with what was answered and the errors.
Step2Refused(f) ==
    /\ tab.page = 2
    /\ None \in ToSet(f.to) \/ (tab.kind = "transfer" /\ ~f.hub)
    /\ tab' = Answered(f)
    /\ UNCHANGED <<shipment, stored>>

\* The way back carries the computed tax type in the field of the override.
HandleDCWizardBackToStep2 ==
    /\ tab.page = 3
    /\ tab' = [tab EXCEPT !.page = 2, !.form.override = tab.tax, !.tax = None, !.back = TRUE]
    /\ UNCHANGED <<shipment, stored>>

HasDuplicates(s) == Cardinality(ToSet(s)) # Len(s)

\* The serial errors: counts first and, only when those are right, what was
\* typed twice for an item or is in the database.
CountErrors(typed, to) ==
    {i \in Required : Shown(typed, to)[i] > 0 /\ Len(typed[i].serials) # Shown(typed, to)[i]}
\* Mutant: only the items that require serials are looked at.
ValidateSerialsRequired(typed) ==
    {i \in Required : \/ HasDuplicates(typed[i].serials)
                      \/ ToSet(typed[i].serials) \cap stored # {}}

ValidateSerials(typed) ==
    {i \in Items : \/ HasDuplicates(typed[i].serials)
                   \/ ToSet(typed[i].serials) \cap stored # {}}

HandleDCWizardStep4(typed) ==
    /\ tab.page = 3
    /\ tab' = [tab EXCEPT !.page = 4, !.typed = typed, !.news = {},
                  !.errors = IF CountErrors(typed, tab.form.to) # {}
                             THEN CountErrors(typed, tab.form.to) ELSE ValidateSerials(typed)]
    /\ UNCHANGED <<shipment, stored>>

\* The third page is rendered anew: what was typed on it is gone.
HandleDCWizardBackToStep3 ==
    /\ tab.page = 4
    /\ tab' = [tab EXCEPT !.page = 3, !.typed = None, !.errors = {}, !.news = {}]
    /\ UNCHANGED <<shipment, stored>>

-----------------------------------------------------------------------------
\* The lines of the transit or transfer challan, with prices and serials.
GoodsLines(qty, typed) ==
    [i \in {j \in Items : Sum(qty[j]) # 0} |->
        [qty |-> Sum(qty[i]), serials |-> typed[i].serials,
         rate |-> fetchTemplateItemsWithBOQ[i].rate, tax |-> fetchTemplateItemsWithBOQ[i].tax]]

\* Mutant: a single piece is not enough.
HasQtyMany(qty, to) == {d \in DOMAIN to : \E i \in Items : qty[i][d] > 1}

\* The destinations of a direct shipment that get an official challan.
HasQty(qty, to) == {d \in DOMAIN to : \E i \in Items : qty[i][d] > 0}

\* For each official challan, or row of the destination plan, its lines.
Parts(kind, qty, to) ==
    [d \in IF kind = "direct" THEN HasQty(qty, to) ELSE DOMAIN to |->
        [i \in {j \in Items : qty[j][d] # 0} |-> qty[i][d]]]

\* The page stays on the screen until the answer comes: it may be sent twice.
\* stale: ghost, the serials of the shipment that had been stored by its review.
HandleDCCreate ==
    /\ tab.page = 4
    /\ LET to == tab.form.to
           qty == Quantities(tab.typed, to)
           goods == GoodsLines(qty, tab.typed)
           serials == UNION {ToSet(goods[i].serials) : i \in DOMAIN goods}
       IN  /\ shipment' = [form |-> tab.form, tax |-> tab.tax, typed |-> tab.typed,
                            goods |-> goods, parts |-> Parts(tab.kind, qty, to),
                            clean |-> tab.errors = {}, stale |-> (serials \cap stored) \ tab.news,
                            byHand |-> tab.byHand, back |-> tab.back]
           /\ stored' = stored \cup serials
           /\ tab' = [tab EXCEPT !.news = @ \cup serials]

\* Another user's challan takes a serial, or is deleted and frees it.
SerialsElsewhere ==
    /\ \E x \in Serials : stored' \in {stored \cup {x}, stored \ {x}}
    /\ tab' = [tab EXCEPT !.news = IF tab.page = 4 THEN @ \cup (stored' \ stored) ELSE @]
    /\ UNCHANGED shipment

Next ==
    \/ HandleDCWizardStep1
    \/ \E kind \in Kinds : HandleDCWizardStep2(kind)
    \/ HandleDCWizardBackToStep1
    \/ \E f \in Forms : HandleDCWizardStep3(f)
    \/ \E f \in Forms : Step2Refused(f)
    \/ HandleDCWizardBackToStep2
    \/ \E typed \in Typings : HandleDCWizardStep4(typed)
    \/ HandleDCWizardBackToStep3
    \/ HandleDCCreate
    \/ SerialsElsewhere

Spec == Init /\ [][Next]_vars

-----------------------------------------------------------------------------
\* A page carries the fields of the pages before it: the kind from the second on,
\* complete destinations and a tax type from the third, what was typed on the last.
TypeOK ==
    /\ tab.page \in 1 .. 4
    /\ tab.page >= 2 => tab.kind \in Kinds /\ (tab.form # None => tab.form \in Answers)
    /\ tab.page >= 3 => /\ tab.tax \in TaxTypes /\ tab.form \in Answers
                        /\ None \notin ToSet(tab.form.to)
    /\ (tab.page = 4) <=> (tab.typed # None)
    /\ tab.errors \subseteq Items /\ tab.news \subseteq Serials /\ stored \subseteq Serials
    /\ shipment # None =>
          /\ shipment.tax \in TaxTypes /\ DOMAIN shipment.goods \subseteq Items
          /\ DOMAIN shipment.parts \subseteq DOMAIN shipment.form.to

\* Both parsers read every quantity of the shipment alike (not so "1e1").
ReadAlike ==
    \A i \in Items, d \in DOMAIN shipment.form.to :
        shipment.typed[i].qty[d].atoi = shipment.typed[i].qty[d].scan

Carried(i) == IF i \in DOMAIN shipment.goods THEN shipment.goods[i].qty ELSE 0
Received(i, d) == IF i \in DOMAIN shipment.parts[d] THEN shipment.parts[d][i] ELSE 0

\* What the goods challan carries of an item is what its destinations receive of
\* it between them, and what the review showed, if both parsers of a quantity
\* read the same (dc_wizard.go:769 and dc_creation.go:509).
QuantitiesAreConserved ==
    /\ TypeOK
    /\ shipment # None => \A i \in Items :
          /\ Carried(i) = Sum([d \in DOMAIN shipment.parts |-> Received(i, d)])
          /\ ReadAlike => Carried(i) = Shown(shipment.typed, shipment.form.to)[i]

\* A shipment is taxed across states exactly when one of its destinations is in
\* another state than the address it is billed from, unless the user chose the tax
\* type or went back from the third page, which fixes the one computed there
\* (determineTaxType, and dc_wizard_step3.templ:313).
TaxTypeFollowsStates ==
    shipment # None =>
        \/ shipment.byHand \/ shipment.back
        \/ (shipment.tax = "igst") <=>
               /\ shipment.form.from # None
               /\ \E s \in ToSet(shipment.form.to) : State[s] # State[shipment.form.from]

\* When the review showed no error, a required item comes with as many different
\* serials as pieces (if the parsers agree), and a serial that was stored already
\* was stored after the review (HandleDCCreate checks nothing).
CleanReviewMeansCleanSerials ==
    (shipment # None /\ shipment.clean) =>
        /\ shipment.stale = {}
        /\ ReadAlike => \A i \in DOMAIN shipment.goods :
              /\ ~HasDuplicates(shipment.goods[i].serials)
              /\ i \in Required => Len(shipment.goods[i].serials) = shipment.goods[i].qty

\* The goods challan of a shipment is priced as the bill of quantities says: "1
\* Transit DC (all items, serials, pricing, transport)", docs/plans/
\* 2026-03-10-dc-integration-design.md:166.
ShipmentsArePriced ==
    shipment # None => \A i \in DOMAIN shipment.goods :
        /\ shipment.goods[i].rate = BoqRow[i].unit_price
        /\ shipment.goods[i].tax = BoqRow[i].gst_percent
=============================================================================
