------------------------------ MODULE BOQRollup ------------------------------
(****************************************************************************)
(* One main item of a bill of quantities, its sub-items and their           *)
(* sub-sub-items (called leaves here), and the budgeted prices that are     *)
(* stored at all three levels (handlers/items.go, boq_edit.go,              *)
(* boq_delete.go).  A handler stores a row, then reads the rows below the   *)
(* parent and stores the parent's sum, in separate calls of the database:   *)
(* requests interleave between any two of them, a save may be refused, and  *)
(* the process may die.                                                     *)
(*                                                                          *)
(* A leaf keeps qty_per_unit and unit_price; of a sub-item only their       *)
(* product, cost, is kept.  Main items are independent of each other.       *)
(****************************************************************************)
EXTENDS Naturals, FiniteSets, FiniteSetsExt

CONSTANTS
    Subs, Leaves,  \* ids of sub_items and of sub_sub_items
    Workers,       \* request goroutines
    MaxValue,      \* bound: the quantities and prices that are typed
    MaxRequests,   \* bound: requests
    MaxCrashes,    \* bound: crashes
    Gone,          \* no such record
    NoId           \* no id

MainItem == [qty : Nat, budget : Nat]
SubItem == [cost : Nat, budget : Nat]
SubSubItem == [s : Subs, qty : Nat, price : Nat, budget : Nat]

ASSUME BOQAssumption ==
    /\ MaxValue \in Nat \ {0} /\ MaxRequests \in Nat /\ MaxCrashes \in Nat
    /\ IsFiniteSet(Subs) /\ IsFiniteSet(Leaves) /\ NoId \notin Subs
    /\ Gone \notin MainItem \cup SubItem \cup SubSubItem

VARIABLES
    main,     \* the main item
    sub,      \* the sub-items
    leaf,     \* the sub-sub-items, each with its sub_item
    job,      \* what each request is in the middle of
    clean,    \* ghost: the requests in progress did not overlap, none was refused
    causes,   \* ghost: why the stored budgets may disagree
    requests, crashes

rows == <<main, sub, leaf>>
BOQVars == <<rows, job, clean, causes, requests, crashes>>

Typed == 1..MaxValue
\* Bound: what the form of the whole bill is submitted with.
Form == {0, MaxValue}
Exists(row) == row # Gone

\* row: the record as it was read; new: as it will be saved; s: the sub-item
\* to recalculate.  The other fields are those of HandleBOQUpdate: the rows
\* left to save on both levels, the sums so far, whether there is a sub-item.
Idle == [op |-> "idle", s |-> NoId, row |-> Gone, new |-> Gone,
         rest |-> {}, kids |-> {}, sum |-> 0, kidSum |-> 0, any |-> FALSE]

SubsOf(subs) == {s \in Subs : Exists(subs[s])}
LeavesOf(leaves, s) == {l \in Leaves : Exists(leaves[l]) /\ leaves[l].s = s}

Total(ids, of) == MapThenSumSet(LAMBDA i : of[i].budget, ids)

\* recalcSubItemBudgeted and recalcMainItemBudgeted: the sum of the children;
\* without children the row's own cost, or what the main item has.
SubBudget(s) ==
    IF LeavesOf(leaf, s) = {} THEN sub[s].cost ELSE Total(LeavesOf(leaf, s), leaf)
MainBudget == IF SubsOf(sub) = {} THEN main.budget ELSE Total(SubsOf(sub), sub) * main.qty

\* The demo data: every level is the sum of the one below it.
BOQInit ==
    /\ \E subs \in SUBSET Subs, under \in [Leaves -> Subs \cup {NoId}], q \in Typed :
        /\ \A l \in Leaves : under[l] \in subs \cup {NoId}
        /\ leaf = [l \in Leaves |-> IF under[l] = NoId THEN Gone
                    ELSE [s |-> under[l], qty |-> 1, price |-> 1, budget |-> 1]]
        /\ sub = [s \in Subs |-> IF s \notin subs THEN Gone
                    ELSE [cost |-> 1,
                          budget |-> IF \A l \in Leaves : under[l] # s THEN 1
                                     ELSE Cardinality({l \in Leaves : under[l] = s})]]
        /\ main = [qty |-> q, budget |-> IF subs = {} THEN 1 ELSE q * Total(subs, sub)]
    /\ job = [w \in Workers |-> Idle]
    /\ clean = TRUE /\ causes = {}
    /\ requests = 0 /\ crashes = 0

-----------------------------------------------------------------------------
At(w, op) == job[w].op = op
Go(w, j) == job' = [job EXCEPT ![w] = j] /\ UNCHANGED crashes
Goes(w, op, s) == Go(w, [Idle EXCEPT !.op = op, !.s = s])
Alone(w) == \A v \in Workers \ {w} : At(v, "idle")

\* A request that begins beside another one disturbs it.
Begins(w, cause) ==
    /\ At(w, "idle") /\ Exists(main)
    /\ requests < MaxRequests /\ requests' = requests + 1
    /\ clean' = Alone(w)
    /\ causes' = causes \cup cause \cup (IF Alone(w) THEN {} ELSE {"overlap"})

GoesOn == UNCHANGED <<clean, causes, requests>>
Refuses == clean' = FALSE /\ causes' = causes \cup {"refused"} /\ UNCHANGED requests

\* Setup: the numbers of an item are required, which refuses zero.
Accepts(v) == v # 0

\* PocketBase updates the columns that differ from the record as it was read,
\* and does nothing to a row that is gone.
Update(current, read, new) ==
    IF current = Gone THEN Gone
    ELSE [f \in DOMAIN current |-> IF new[f] = read[f] THEN current[f] ELSE new[f]]

-----------------------------------------------------------------------------
\* HandlePatchSubSubItem: qty_per_unit or unit_price of one leaf.
PatchLeaf(w) ==
    /\ Begins(w, {})
    /\ \E l \in Leaves, v \in Typed :
        /\ Exists(leaf[l])
        /\ \E new \in {[leaf[l] EXCEPT !.qty = v, !.budget = v * leaf[l].price],
                       [leaf[l] EXCEPT !.price = v, !.budget = leaf[l].qty * v]} :
            Go(w, [Idle EXCEPT !.op = "leaf", !.s = l, !.row = leaf[l], !.new = new])
    /\ UNCHANGED rows

SaveLeaf(w) ==
    /\ At(w, "leaf")
    /\ LET l == job[w].s IN leaf' = [leaf EXCEPT ![l] = Update(leaf[l], job[w].row, job[w].new)]
    /\ UNCHANGED <<main, sub>> /\ GoesOn
    /\ Goes(w, "sub", job[w].row.s)

\* HandlePatchSubItem sets fields of a record that it never saves.
PatchSub(w) ==
    /\ Begins(w, {})
    /\ \E s \in SubsOf(sub) : Goes(w, "sub", s)
    /\ UNCHANGED rows

\* recalcSubItemBudgeted; a sub-item that is gone ends the request.
ReadSub(w) ==
    /\ At(w, "sub") /\ UNCHANGED rows /\ GoesOn
    /\ LET s == job[w].s IN
       IF Exists(sub[s])
       THEN Go(w, [job[w] EXCEPT !.op = "saveSub", !.row = sub[s],
                                 !.new = [sub[s] EXCEPT !.budget = SubBudget(s)]])
       ELSE Go(w, Idle)

SaveSub(w) ==
    /\ At(w, "saveSub")
    /\ LET s == job[w].s IN sub' = [sub EXCEPT ![s] = Update(sub[s], job[w].row, job[w].new)]
    /\ UNCHANGED <<main, leaf>> /\ GoesOn
    /\ Goes(w, "find", job[w].s)

FindSub(w) ==
    /\ At(w, "find") /\ UNCHANGED rows /\ GoesOn
    /\ IF Exists(sub[job[w].s]) THEN Goes(w, "main", NoId) ELSE Go(w, Idle)

\* recalcMainItemBudgeted.
ReadMain(w) ==
    /\ At(w, "main") /\ UNCHANGED rows /\ GoesOn
    /\ IF Exists(main)
       THEN Go(w, [job[w] EXCEPT !.op = "saveMain", !.row = main,
                                 !.new = [main EXCEPT !.budget = MainBudget]])
       ELSE Go(w, Idle)

SaveMain(w) ==
    /\ At(w, "saveMain")
    /\ main' = Update(main, job[w].row, job[w].new)
    /\ UNCHANGED <<sub, leaf>> /\ GoesOn /\ Go(w, Idle)

\* Mutant: the parents are left as they are.
HandleDeleteSubSubItemOnly(w) ==
    /\ Begins(w, {})
    /\ \E l \in Leaves :
        /\ Exists(leaf[l]) /\ leaf' = [leaf EXCEPT ![l] = Gone]
        /\ Go(w, Idle)
    /\ UNCHANGED <<main, sub>>

HandleDeleteSubSubItem(w) ==
    /\ Begins(w, {})
    /\ \E l \in Leaves :
        /\ Exists(leaf[l]) /\ leaf' = [leaf EXCEPT ![l] = Gone]
        /\ Goes(w, "sub", leaf[l].s)
    /\ UNCHANGED <<main, sub>>

\* Mutant: the leaves stay.
WithKids(s) == leaf

\* Setup: leaves cascade with their sub-item, sub-items with their main item.
WithoutKids(s) == [l \in Leaves |-> IF Exists(leaf[l]) /\ leaf[l].s = s THEN Gone ELSE leaf[l]]

HandleDeleteSubItem(w) ==
    /\ Begins(w, {})
    /\ \E s \in SubsOf(sub) : sub' = [sub EXCEPT ![s] = Gone] /\ leaf' = WithoutKids(s)
    /\ UNCHANGED main /\ Goes(w, "main", NoId)

HandleDeleteMainItem(w) ==
    /\ Begins(w, {})
    /\ main' = Gone
    /\ sub' = [s \in Subs |-> Gone] /\ leaf' = [l \in Leaves |-> Gone]
    /\ Go(w, Idle)

\* HandlePatchMainItem: qty, or a budget typed by hand; nothing is recalculated.
HandlePatchMainItem(w) ==
    /\ Begins(w, {"patched"})
    /\ \E v \in Typed : main' \in {[main EXCEPT !.qty = v], [main EXCEPT !.budget = v]}
    /\ UNCHANGED <<sub, leaf>> /\ Go(w, Idle)

\* HandleAddSubItem, HandleAddSubSubItem: quantity 1 at price 1, and nothing
\* is recalculated.
HandleAddSubItem(w) ==
    /\ Begins(w, {"added"})
    /\ \E s \in Subs : ~Exists(sub[s]) /\ sub' = [sub EXCEPT ![s] = [cost |-> 1, budget |-> 1]]
    /\ UNCHANGED <<main, leaf>> /\ Go(w, Idle)

HandleAddSubSubItem(w) ==
    /\ Begins(w, {"added"})
    /\ \E l \in Leaves, s \in SubsOf(sub) :
        /\ ~Exists(leaf[l])
        /\ leaf' = [leaf EXCEPT ![l] = [s |-> s, qty |-> 1, price |-> 1, budget |-> 1]]
    /\ UNCHANGED <<main, sub>> /\ Go(w, Idle)

-----------------------------------------------------------------------------
\* HandleBOQUpdate: the whole form, from the bottom up, each level read before
\* the one below it is saved.  A quantity typed as 0 is a save that is refused
\* and logged, and yet counts in the sums above it.
Read(ids, of) == {[id |-> i, row |-> of[i]] : i \in ids}

BeginUpdate(w) ==
    /\ Begins(w, {})
    /\ \E q \in Form :
        Go(w, [Idle EXCEPT !.op = "update", !.row = main, !.new = [main EXCEPT !.qty = q],
                           !.rest = Read(SubsOf(sub), sub)])
    /\ UNCHANGED rows

UpdateSub(w) ==
    /\ At(w, "update")
    /\ \E r \in job[w].rest :
        LET kids == Read(LeavesOf(leaf, r.id), leaf) IN
        Go(w, [job[w] EXCEPT !.op = IF kids = {} THEN "ownCost" ELSE "kids",
                             !.s = r, !.kids = kids, !.kidSum = 0])
    /\ UNCHANGED rows /\ GoesOn

UpdateLeaf(w) ==
    /\ At(w, "kids")
    /\ \E r \in job[w].kids, v \in Form :
        LET new == [r.row EXCEPT !.qty = v, !.budget = v * r.row.price] IN
        /\ Go(w, [job[w] EXCEPT !.kids = @ \ {r}, !.kidSum = @ + new.budget])
        /\ IF ~Accepts(v) THEN Refuses /\ UNCHANGED leaf
           ELSE leaf' = [leaf EXCEPT ![r.id] = Update(leaf[r.id], r.row, new)] /\ GoesOn
    /\ UNCHANGED <<main, sub>>

UpdateSubEnds(w) ==
    /\ At(w, "ownCost") \/ (At(w, "kids") /\ job[w].kids = {})
    /\ \E v \in Form :
        LET r == job[w].s
            new == [cost |-> v, budget |-> IF At(w, "kids") THEN job[w].kidSum ELSE v] IN
        /\ Go(w, [job[w] EXCEPT !.op = "update", !.s = NoId, !.kidSum = 0,
                                !.rest = @ \ {r}, !.sum = @ + new.budget, !.any = TRUE])
        /\ IF ~Accepts(v) THEN Refuses /\ UNCHANGED sub
           ELSE sub' = [sub EXCEPT ![r.id] = Update(sub[r.id], r.row, new)] /\ GoesOn
    /\ UNCHANGED <<main, leaf>>

\* An update that nothing disturbed leaves no cause of disagreement behind.
EndUpdate(w) ==
    /\ At(w, "update") /\ job[w].rest = {}
    /\ LET typed == job[w].new
           new == [typed EXCEPT !.budget = IF job[w].any THEN job[w].sum * typed.qty ELSE @] IN
       IF ~Accepts(typed.qty)
       THEN UNCHANGED main /\ Refuses
       ELSE /\ main' = Update(main, job[w].row, new)
            /\ causes' = (IF clean THEN {} ELSE causes) /\ UNCHANGED <<clean, requests>>
    /\ UNCHANGED <<sub, leaf>> /\ Go(w, Idle)

\* The process dies; the next one starts from the rows.
Crash ==
    /\ crashes < MaxCrashes /\ crashes' = crashes + 1
    /\ \E w \in Workers : ~At(w, "idle")
    /\ job' = [w \in Workers |-> Idle]
    /\ causes' = causes \cup {"crash"} /\ UNCHANGED <<rows, clean, requests>>

BOQNext ==
    \/ \E w \in Workers :
        \/ PatchLeaf(w) \/ SaveLeaf(w) \/ PatchSub(w)
        \/ ReadSub(w) \/ SaveSub(w) \/ FindSub(w) \/ ReadMain(w) \/ SaveMain(w)
        \/ HandleDeleteSubSubItem(w) \/ HandleDeleteSubItem(w) \/ HandleDeleteMainItem(w)
        \/ HandlePatchMainItem(w) \/ HandleAddSubItem(w) \/ HandleAddSubSubItem(w)
        \/ BeginUpdate(w) \/ UpdateSub(w) \/ UpdateLeaf(w) \/ UpdateSubEnds(w) \/ EndUpdate(w)
    \/ Crash

BOQSpec == BOQInit /\ [][BOQNext]_BOQVars

-----------------------------------------------------------------------------
Causes == {"added", "patched", "overlap", "refused", "crash"}

BOQTypeOK ==
    /\ Exists(main) => main.qty \in Typed /\ main.budget \in Nat
    /\ \A s \in SubsOf(sub) : sub[s].cost \in Typed /\ sub[s].budget \in Nat
    /\ \A l \in Leaves : Exists(leaf[l]) =>
          leaf[l].s \in Subs /\ leaf[l].qty \in Typed /\ leaf[l].price \in Typed
    /\ causes \subseteq Causes /\ clean \in BOOLEAN
    /\ requests \in 0..MaxRequests /\ crashes \in 0..MaxCrashes

\* Whatever requests overlap, no row is left without its parent.
NoOrphanRows ==
    /\ BOQTypeOK
    /\ \A s \in SubsOf(sub) : Exists(main)
    /\ \A l \in Leaves : Exists(leaf[l]) => Exists(sub[leaf[l].s])

AtRest == \A w \in Workers : At(w, "idle")

RolledUp ==
    /\ \A l \in Leaves : Exists(leaf[l]) => leaf[l].budget = leaf[l].qty * leaf[l].price
    /\ \A s \in SubsOf(sub) : sub[s].budget =
          IF LeavesOf(leaf, s) = {} THEN sub[s].cost ELSE Total(LeavesOf(leaf, s), leaf)
    /\ SubsOf(sub) # {} => main.budget = main.qty * Total(SubsOf(sub), sub)

\* Deletions and patches keep the three levels in agreement, and an update of
\* the whole bill that nothing disturbs brings them back to it from any state.
\* Only the causes named may break it: a row added, a patch of the main item,
\* overlapping requests, a refused save inside an update, a crash.
RolledUpUnlessCaused == AtRest /\ causes = {} => RolledUp
=============================================================================
