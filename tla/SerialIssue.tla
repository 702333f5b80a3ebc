----------------------------- MODULE SerialIssue -----------------------------
(****************************************************************************)
(* Serial numbers of delivery challans: what the wizards store              *)
(* (ParseShipmentItemsFromForm, CreateDirectShipment, CreateTransferDC,     *)
(* CreateSplit), and what validateDCSerials (services/dc_issue.go) and      *)
(* ValidateSerials (services/serial_validation.go) check when the challan   *)
(* is issued, while templates are edited in between.                        *)
(*                                                                          *)
(* The challans here are those that carry serials: the transit challan of a *)
(* shipment group and the transfer challan.  One project.                   *)
(****************************************************************************)
EXTENDS Integers, Sequences, FiniteSets

CONSTANTS
    DCs,        \* challan ids
    Templates,  \* dc_templates ids
    Items,      \* BOQ items a template or a challan line refers to
    Serials,    \* serial numbers, trimmed and not blank
    Qtys,       \* line quantities the wizard is given
    MaxSerials, \* bound: serial numbers typed into one line
    NoDC,       \* no parent challan
    NoTemplate  \* no template

ASSUME SerialAssumption == /\ Qtys \subseteq Nat /\ MaxSerials \in Nat
                           /\ NoDC \notin DCs /\ NoTemplate \notin Templates

Tracking == {"absent", "none", "optional", "required"}

\* parseSerials splits, trims and drops blanks; it keeps duplicates.
Lists == UNION {[1 .. n -> Serials] : n \in 0 .. MaxSerials}

\* A line with quantity 0 is not created, and its serials are dropped.
Line == [qty : Qtys \ {0}, serials : Lists]
NoLine == [qty |-> 0, serials |-> <<>>]

VARIABLES
    tracking,  \* dc_template_items.serial_tracking, "absent" without a row
    status,    \* delivery_challans.status
    template,  \* delivery_challans.template
    parent,    \* the transfer a challan was split from
    line       \* dc_line_items with their serial_numbers, by challan and item

SerialVars == <<tracking, status, template, parent, line>>

SerialInit ==
    /\ tracking = [t \in Templates |-> [i \in Items |-> "absent"]]
    /\ status = [d \in DCs |-> "none"]
    /\ template = [d \in DCs |-> NoTemplate]
    /\ parent = [d \in DCs |-> NoDC]
    /\ line = [d \in DCs |-> [i \in Items |-> NoLine]]

Elements(s) == {s[k] : k \in DOMAIN s}

\* The serials that ValidateSerials reports as duplicates in its input.
DuplicatesInInput(input) ==
    {s \in Elements(input) :
        \E j, k \in DOMAIN input : j # k /\ input[j] = s /\ input[k] = s}

\* ValidateSerials on trimmed input; existing are the serials of other challans.
ValidateSerials(input, expectedQty, existing) ==
    LET inInput  == DuplicatesInInput(input)
        inDB     == Elements(input) \cap existing
        mismatch == Cardinality(Elements(input)) # expectedQty
    IN  [valid |-> inInput = {} /\ inDB = {} /\ ~mismatch,
         duplicatesInInput |-> inInput, duplicatesInDB |-> inDB,
         countMismatch |-> mismatch]

SerialsOf(d) == UNION {Elements(line[d][i].serials) : i \in Items}

\* validateDCSerials: all serials of the project but those equal to one of d.
ExistingSerials(d) == UNION {SerialsOf(e) : e \in DCs} \ SerialsOf(d)

\* It looks serial_tracking up by item alone, in whichever template's row the
\* database returns first.
TrackingRows(i) == {t \in Templates : tracking[t][i] # "absent"}

TrackingFound(i) ==
    IF TrackingRows(i) = {} THEN {"none"} ELSE {tracking[t][i] : t \in TrackingRows(i)}

\* Mutant: a required line may have more serials than its quantity.
CountPassesLoosely(l, found) ==
    found = "required" /\ l.qty > 0 => Len(l.serials) >= l.qty

CountPasses(l, found) ==
    found = "required" /\ l.qty > 0 => Len(l.serials) = l.qty

\* Mutant: any invalid result but duplicates in the database passes.
UniquePassesLoosely(l, existing) ==
    Len(l.serials) > 0 =>
        ValidateSerials(l.serials, Len(l.serials), existing).duplicatesInDB = {}

\* A count mismatch alone does not fail: only the two kinds of duplicates do.
UniquePasses(l, existing) ==
    Len(l.serials) > 0 =>
        LET result == ValidateSerials(l.serials, Len(l.serials), existing)
        IN  result.valid \/ (result.duplicatesInInput = {} /\ result.duplicatesInDB = {})

LinePasses(d, i, found) ==
    line[d][i] = NoLine \/ ( /\ CountPasses(line[d][i], found)
                             /\ UniquePasses(line[d][i], ExistingSerials(d)) )

-----------------------------------------------------------------------------
\* HandleDCTemplateSave, Update, Duplicate and Delete leave a template with
\* some rows: updating deletes every row and saves the submitted ones.
SaveTemplate(t, rows) ==
    /\ tracking' = [tracking EXCEPT ![t] = rows]
    /\ UNCHANGED <<status, template, parent, line>>

\* HandleDCCreate does not validate: what the review step complained about is
\* only displayed.
CreateChallan(d, t, lines) ==
    /\ status[d] = "none"
    /\ status' = [status EXCEPT ![d] = "draft"]
    /\ template' = [template EXCEPT ![d] = t]
    /\ line' = [line EXCEPT ![d] = lines]
    /\ UNCHANGED <<tracking, parent>>

\* CreateSplit: the lines of the child's transit challan are parent lines with
\* the quantities of the chosen destinations, and the serials that were typed.
CreateSplit(d, p, lines) ==
    /\ status[d] = "none" /\ status[p] = "issued" /\ parent[p] = NoDC
    /\ \A i \in Items : lines[i].qty <= line[p][i].qty
    /\ status' = [status EXCEPT ![d] = "draft"]
    /\ parent' = [parent EXCEPT ![d] = p]
    /\ template' = [template EXCEPT ![d] = template[p]]
    /\ line' = [line EXCEPT ![d] = lines]
    /\ UNCHANGED tracking

\* IssueTransferDC, or IssueShipmentGroup for the group's transit challan.
IssueChallan(d) ==
    /\ status[d] = "draft"
    /\ \A i \in Items : \E found \in TrackingFound(i) : LinePasses(d, i, found)
    /\ status' = [status EXCEPT ![d] = "issued"]
    /\ UNCHANGED <<tracking, template, parent, line>>

\* Any deletion of a draft takes its lines and serials along.
DeleteChallan(d) ==
    /\ status[d] = "draft"
    /\ status' = [status EXCEPT ![d] = "deleted"]
    /\ line' = [line EXCEPT ![d] = [i \in Items |-> NoLine]]
    /\ template' = [template EXCEPT ![d] = NoTemplate]
    /\ parent' = [parent EXCEPT ![d] = NoDC]
    /\ UNCHANGED tracking

SerialNext ==
    \/ \E t \in Templates, rows \in [Items -> Tracking] : SaveTemplate(t, rows)
    \/ \E d \in DCs, lines \in [Items -> Line \cup {NoLine}] :
          \/ \E t \in Templates : CreateChallan(d, t, lines)
          \/ \E p \in DCs : CreateSplit(d, p, lines)
    \/ \E d \in DCs : IssueChallan(d) \/ DeleteChallan(d)

SerialSpec == SerialInit /\ [][SerialNext]_SerialVars

-----------------------------------------------------------------------------
Distinct(s) == \A j, k \in DOMAIN s : j # k => s[j] # s[k]

\* Type correctness; a challan that is not there has no lines and no parent.
SerialTypeOK ==
    /\ tracking \in [Templates -> [Items -> Tracking]]
    /\ status \in [DCs -> {"none", "draft", "issued", "deleted"}]
    /\ template \in [DCs -> Templates \cup {NoTemplate}]
    /\ parent \in [DCs -> DCs \cup {NoDC}]
    /\ line \in [DCs -> [Items -> Line \cup {NoLine}]]
    /\ \A d \in DCs : status[d] \in {"none", "deleted"} =>
            parent[d] = NoDC /\ template[d] = NoTemplate /\ \A i \in Items : line[d][i] = NoLine

\* No line of an issued challan lists a serial twice, although creation stores
\* duplicates and the issue passes a result whose only fault is its count:
\* the check of duplicates within a line covers for both.
IssuedLinesDistinct ==
    /\ SerialTypeOK
    /\ \A d \in DCs : status[d] = "issued" =>
          \A i \in Items : Distinct(line[d][i].serials)

\* A line is only issued with exactly as many different serials as pieces when
\* every template that lists its item requires them at that moment, whatever
\* the tracking was when the challan was created.
RequiredIsCounted ==
    [][\A d \in DCs, i \in Items :
          /\ status[d] = "draft" /\ status'[d] = "issued"
          /\ line[d][i] # NoLine
          /\ TrackingFound(i) = {"required"}
          => Cardinality(Elements(line[d][i].serials)) = line[d][i].qty]_SerialVars

-----------------------------------------------------------------------------
\* What the documents and comments of the repository say, and the code does not do.

\* docs/plans/2026-03-10-dc-integration-design.md:173 "no DB duplicates":
\* two issued challans, neither split from the other, share no serial.
SerialsUsedOnce ==
    \A d, e \in DCs :
        /\ d # e /\ parent[d] # e /\ parent[e] # d
        /\ status[d] = "issued" /\ status[e] = "issued"
        => SerialsOf(d) \cap SerialsOf(e) = {}

\* services/dc_issue.go:130 "all line items with required serial tracking have
\* correct serial counts": a line of an item that the challan's own template
\* requires serials for is issued with one serial per piece.
OwnTemplateCounts ==
    [][\A d \in DCs, i \in Items :
          /\ status[d] = "draft" /\ status'[d] = "issued"
          /\ template[d] # NoTemplate /\ tracking[template[d]][i] = "required"
          => Len(line[d][i].serials) = line[d][i].qty]_SerialVars
=============================================================================
