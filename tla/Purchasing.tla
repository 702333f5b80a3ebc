----------------------------- MODULE Purchasing -----------------------------
(****************************************************************************)
(* The vendors linked to one project and its purchase orders with their     *)
(* lines (handlers/vendor_*.go, po_create.go, po_edit.go, po_delete.go,     *)
(* po_line_items.go).  Nothing here runs in a transaction and no index is   *)
(* unique: a handler looks first and writes later, and another request may  *)
(* come in between.  What the schema refuses is refused at the write.       *)
(****************************************************************************)
EXTENDS Naturals, FiniteSets, FiniteSetsExt

CONSTANTS
    Vendors, Orders, Lines,  \* record ids
    Workers,    \* requests; that of a new order starts when its form is shown
    MaxOrder,   \* bound: no line is added behind this sort_order
    Gone,       \* no such record
    None        \* no id

Status == {"draft", "sent", "acknowledged", "completed", "cancelled"}

ASSUME PurchasingAssumption ==
    /\ MaxOrder \in Nat
    /\ Gone \notin [po : Orders, order : Nat] \cup [vendor : Vendors, status : Status]

VARIABLES
    vendors,  \* vendors
    links,    \* for each vendor, its rows of project_vendors
    po,       \* purchase_orders
    line,     \* po_line_items
    job,      \* what each request is in the middle of
    past,     \* ghost: the statuses each order has had
    raced     \* ghost: the conflicting kinds of requests that have overlapped

db == <<vendors, links, po, line>>
vars == <<db, job, past, raced>>

Conflicts == {{"link"}, {"order", "unlink"}, {"line"}, {"status"}}

Idle == [op |-> "idle", kind |-> None, id |-> None, new |-> None]
Exists(row) == row # Gone

\* A new record has an id that no request has read.
Mentioned == {job[w].id : w \in Workers}

LinesOf(o) == {l \in Lines : Exists(line[l]) /\ line[l].po = o}
OrdersOf(v) == {o \in Orders : Exists(po[o]) /\ po[o].vendor = v}

Init ==
    /\ vendors = {} /\ links = [v \in Vendors |-> 0]
    /\ po = [o \in Orders |-> Gone] /\ line = [l \in Lines |-> Gone]
    /\ job = [w \in Workers |-> Idle]
    /\ past = [o \in Orders |-> {}] /\ raced = {}

-----------------------------------------------------------------------------
At(w, op) == job[w].op = op

\* A request reads, and is left with what it has decided to write.
Begins(w, op, kind, id, new) ==
    /\ At(w, "idle")
    /\ job' = [job EXCEPT ![w] = [op |-> op, kind |-> kind, id |-> id, new |-> new]]
    /\ raced' = raced \cup (Conflicts \cap {{kind, job[x].kind} : x \in Workers \ {w}})
    /\ UNCHANGED <<db, past>>

Ends(w) == job' = [job EXCEPT ![w] = Idle] /\ UNCHANGED raced

-----------------------------------------------------------------------------
\* HandleVendorSave: the vendor, then its link to the project.
HandleVendorSave(w) ==
    /\ At(w, "idle")
    /\ \E v \in Vendors \ (vendors \cup Mentioned) :
        /\ vendors' = vendors \cup {v}
        /\ \/ job' = [job EXCEPT ![w] = [op |-> "link", kind |-> "link", id |-> v, new |-> None]]
           \/ UNCHANGED job
    /\ UNCHANGED <<links, po, line, past, raced>>

\* HandleVendorLink: look for a link, and save one.
FindLink(w) == \E v \in vendors : links[v] = 0 /\ Begins(w, "link", "link", v, None)

\* Both relations of project_vendors are required.
SaveLink(w) ==
    /\ At(w, "link") /\ Ends(w)
    /\ links' = IF job[w].id \in vendors THEN [links EXCEPT ![job[w].id] = @ + 1] ELSE links
    /\ UNCHANGED <<vendors, po, line, past>>

\* Mutant: the orders are not looked for.
FindOrdersNever(w) == \E v \in Vendors : Begins(w, "unlink", "unlink", v, None)

\* HandleVendorUnlink: look for orders, then for one link, and delete it.
FindOrders(w) == \E v \in Vendors : OrdersOf(v) = {} /\ Begins(w, "unlink", "unlink", v, None)

DeleteLink(w) ==
    /\ At(w, "unlink") /\ Ends(w)
    /\ links' = [links EXCEPT ![job[w].id] = IF @ = 0 THEN 0 ELSE @ - 1]
    /\ UNCHANGED <<vendors, po, line, past>>

\* HandleVendorDelete: look for orders, and delete; the links cascade, and a
\* vendor that an order has come to require meanwhile is refused to go.
FindVendor(w) == \E v \in vendors : OrdersOf(v) = {} /\ Begins(w, "delVendor", "delete", v, None)

\* Mutant: purchase_orders.vendor does not hold the vendor back.
RequiredLoosely(v) == FALSE

Required(v) == OrdersOf(v) # {}

DeleteVendor(w) ==
    /\ At(w, "delVendor") /\ Ends(w)
    /\ LET v == job[w].id IN
       IF Required(v) THEN UNCHANGED <<vendors, links>>
       ELSE vendors' = vendors \ {v} /\ links' = [links EXCEPT ![v] = 0]
    /\ UNCHANGED <<po, line, past>>

-----------------------------------------------------------------------------
\* HandlePOCreate lists the linked vendors; HandlePOSave asks only that one is
\* given, and the save that it exists.
HandlePOCreate(w) ==
    \E v \in vendors : links[v] > 0 /\ Begins(w, "order", "order", v, None)

HandlePOSave(w) ==
    /\ At(w, "order") /\ Ends(w)
    /\ \/ \E o \in Orders \ Mentioned :
            /\ ~Exists(po[o]) /\ job[w].id \in vendors
            /\ po' = [po EXCEPT ![o] = [vendor |-> job[w].id, status |-> "draft"]]
            /\ past' = [past EXCEPT ![o] = {"draft"}]
       \/ /\ job[w].id \notin vendors \/ \A o \in Orders \ Mentioned : Exists(po[o])
          /\ UNCHANGED <<po, past>>
    /\ UNCHANGED <<vendors, links, line>>

\* Mutant: an order may be completed before it is acknowledged.
isValidStatusTransitionLoosely(current, new) ==
    \/ new = "cancelled"
    \/ <<current, new>> \in {<<"draft", "sent">>, <<"sent", "acknowledged">>,
                             <<"sent", "completed">>, <<"acknowledged", "completed">>}

isValidStatusTransition(current, new) ==
    \/ new = "cancelled"
    \/ <<current, new>> \in {<<"draft", "sent">>, <<"sent", "acknowledged">>,
                             <<"acknowledged", "completed">>}

\* HandlePOUpdate: read the order and check the new status, if one is given;
\* save the columns that differ from what was read.
ReadOrder(w) ==
    \E o \in Orders : Exists(po[o]) /\ \E new \in Status \cup {None} :
        /\ \/ new = None
           \/ new = "draft" /\ po[o].status = "draft"
           \/ isValidStatusTransition(po[o].status, new)
        /\ Begins(w, "update", "status", o, IF new = po[o].status THEN None ELSE new)

SaveOrder(w) ==
    /\ At(w, "update") /\ Ends(w)
    /\ LET o == job[w].id IN
       IF job[w].new = None \/ ~Exists(po[o]) THEN UNCHANGED <<po, past>>
       ELSE /\ po' = [po EXCEPT ![o].status = job[w].new]
            /\ past' = [past EXCEPT ![o] = @ \cup {job[w].new}]
    /\ UNCHANGED <<vendors, links, line>>

\* HandlePODelete: read the status, and delete; the lines cascade.
FindDraft(w) ==
    \E o \in Orders : Exists(po[o]) /\ po[o].status \in {"draft", "cancelled"} /\
        Begins(w, "delOrder", "status", o, None)

WithoutLines(o) == [l \in Lines |-> IF l \in LinesOf(o) THEN Gone ELSE line[l]]

DeleteOrder(w) ==
    /\ At(w, "delOrder") /\ Ends(w)
    /\ LET o == job[w].id IN
       po' = [po EXCEPT ![o] = Gone] /\ line' = WithoutLines(o) /\ past' = [past EXCEPT ![o] = {}]
    /\ UNCHANGED <<vendors, links>>

-----------------------------------------------------------------------------
\* Mutant: one more than there are lines.
getNextSortOrderCount(o) == Cardinality(LinesOf(o)) + 1

getNextSortOrder(o) == Max({line[l].order : l \in LinesOf(o)} \cup {0}) + 1

\* HandlePOAddLineItem, HandlePOAddLineItemFromBOQ: the place is read, and the
\* line saved; neither looks at the order's status.
FindPlace(w) ==
    \E o \in Orders : Exists(po[o]) /\ getNextSortOrder(o) <= MaxOrder /\
        Begins(w, "line", "line", o, getNextSortOrder(o))

SaveLine(w) ==
    /\ At(w, "line") /\ Ends(w)
    /\ \/ \E l \in Lines :
            /\ ~Exists(line[l]) /\ Exists(po[job[w].id])
            /\ line' = [line EXCEPT ![l] = [po |-> job[w].id, order |-> job[w].new]]
       \/ /\ ~Exists(po[job[w].id]) \/ \A l \in Lines : Exists(line[l])
          /\ UNCHANGED line
    /\ UNCHANGED <<vendors, links, po, past>>

HandlePODeleteLineItem(w) ==
    /\ At(w, "idle")
    /\ \E l \in Lines : Exists(line[l]) /\ line' = [line EXCEPT ![l] = Gone]
    /\ UNCHANGED <<vendors, links, po, job, past, raced>>

\* The process dies, and starts again on the same rows.
Crash ==
    /\ \E w \in Workers : ~At(w, "idle")
    /\ job' = [w \in Workers |-> Idle] /\ UNCHANGED <<db, past, raced>>

Next ==
    \/ \E w \in Workers :
        \/ HandleVendorSave(w) \/ FindLink(w) \/ SaveLink(w)
        \/ FindOrders(w) \/ DeleteLink(w) \/ FindVendor(w) \/ DeleteVendor(w)
        \/ HandlePOCreate(w) \/ HandlePOSave(w)
        \/ ReadOrder(w) \/ SaveOrder(w) \/ FindDraft(w) \/ DeleteOrder(w)
        \/ FindPlace(w) \/ SaveLine(w) \/ HandlePODeleteLineItem(w)
    \/ Crash

Spec == Init /\ [][Next]_vars

-----------------------------------------------------------------------------
TypeOK ==
    /\ vendors \subseteq Vendors
    /\ links \in [Vendors -> Nat]
    /\ \A o \in Orders : Exists(po[o]) => po[o] \in [vendor : Vendors, status : Status]
    /\ \A l \in Lines : Exists(line[l]) => line[l] \in [po : Orders, order : 1..MaxOrder]
    /\ past \in [Orders -> SUBSET Status] /\ raced \subseteq Conflicts

\* Whatever overlaps, a link and an order have their vendor, a line its order.
NoDangling ==
    /\ TypeOK
    /\ \A v \in Vendors : links[v] > 0 => v \in vendors
    /\ \A o \in Orders : Exists(po[o]) => po[o].vendor \in vendors
    /\ \A l \in Lines : Exists(line[l]) => Exists(po[line[l].po])

\* What a request found when it looked still holds when it writes, unless another
\* of the same or of the opposite kind overlapped it. A vendor is linked twice (one
\* unlink then leaves it linked) only if two requests that link overlapped; an
\* order's vendor is one of the project's unless it was unlinked while the form of
\* the order was open; and lines are in one order, however many are deleted and
\* added, unless two additions read the same last place.
LooksHold ==
    /\ (\E v \in Vendors : links[v] > 1) => {"link"} \in raced
    /\ (\E o \in Orders : Exists(po[o]) /\ links[po[o].vendor] = 0) =>
          {"order", "unlink"} \in raced
    /\ (\E l, m \in Lines : l # m /\ Exists(line[l]) /\ Exists(line[m]) /\ line[l] = line[m])
          => {"line"} \in raced

\* Even if updates overlap, no stage of an order is skipped, and an order that
\* was sent or cancelled is never a draft again; and unless they overlapped, what
\* was cancelled stays so and what was completed is at most cancelled.
StagesInOrder ==
    \A o \in Orders :
        /\ "completed" \in past[o] => "acknowledged" \in past[o]
        /\ "acknowledged" \in past[o] => "sent" \in past[o]
        /\ Exists(po[o]) /\ po[o].status = "draft" => past[o] = {"draft"}
        /\ {"status"} \notin raced /\ Exists(po[o]) =>
              /\ "cancelled" \in past[o] => po[o].status = "cancelled"
              /\ "completed" \in past[o] => po[o].status \in {"completed", "cancelled"}
=============================================================================
