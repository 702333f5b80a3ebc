----------------------------- MODULE ChallanStore -----------------------------
(****************************************************************************)
(* The requests of DCLifecycle taken apart into their database calls.       *)
(*                                                                          *)
(* CreateSplit, UndoSplit, CreateDirectShipment, IssueShipmentGroup and     *)
(* HandleShipmentGroupDelete read rows, keep them in memory, and write them *)
(* back one call at a time with no transaction around the calls.  Requests  *)
(* run in goroutines of their own, so their calls interleave; a call may    *)
(* return an error, which some call sites return and others ignore; and the *)
(* process may die between two calls.  The rows are those of one transfer   *)
(* challan, issued with a destination row per place, and of the shipment    *)
(* groups created from it or directly.                                      *)
(*                                                                          *)
(* IssueSingleDC and HandleDCDelete on a challan of a group read that       *)
(* challan first and then make the calls modelled here: the extra read can  *)
(* only reject the request.                                                 *)
(****************************************************************************)
EXTENDS Integers, FiniteSets

CONSTANTS
    Requests,     \* HTTP requests, each used once
    Groups,       \* ids of shipment_groups rows
    Places,       \* the destinations of the transfer
    Transit,      \* names the transit challan of a group
    T,            \* the transfer challan
    NoGroup,      \* the empty split_group column
    NoTransfer,   \* the empty transfer_dc column
    MaxActive,    \* bound: requests in flight at a time
    MaxCrashes,   \* bound: times the process dies
    MaxErrors     \* bound: database calls that return an error

ASSUME StoreAssumption ==
    /\ Transit \notin Places /\ NoGroup \notin Groups /\ NoTransfer # T
    /\ IsFiniteSet(Places) /\ IsFiniteSet(Requests) /\ Places # {}
    /\ MaxActive \in Nat /\ MaxCrashes \in Nat /\ MaxErrors \in Nat

Challans == Groups \X (Places \cup {Transit})
NumDest == Cardinality(Places)

VARIABLES
    sgStatus,     \* shipment_groups.status
    sgTransfer,   \* shipment_groups.transfer_dc
    sgSplit,      \* whether shipment_groups.split names the group's split row
    dcStatus,     \* delivery_challans.status of the challans in groups
    splitNumber,  \* transfer_dc_splits.split_number by group, 0 without a row
    tStatus,      \* delivery_challans.status of the transfer
    isSplit,      \* transfer_dc_destinations.is_split
    splitGroup,   \* transfer_dc_destinations.split_group
    numSplit,     \* transfer_dcs.num_split
    req,          \* what each request holds in memory, and its next call
    crashes,      \* times the process died
    errors,       \* calls that returned an error
    settled,      \* history: the rows when no request was last in flight
    overlapped    \* ghost: whether two requests have been in flight at once

sgVars == <<sgStatus, sgTransfer, sgSplit>>
destVars == <<isSplit, splitGroup>>
db == <<sgVars, dcStatus, splitNumber, tStatus, destVars, numSplit>>
vars == <<db, req, crashes, errors, settled, overlapped>>

Rows == [sgStatus |-> sgStatus, sgTransfer |-> sgTransfer, dcStatus |-> dcStatus,
         splitNumber |-> splitNumber, tStatus |-> tStatus, isSplit |-> isSplit,
         splitGroup |-> splitGroup, numSplit |-> numSplit]

\* A request: its kind and next call, its group, the destinations it was asked
\* for, what is left of its loop, and the columns it loaded: num_split, the
\* transfer's status, the destinations with is_split set, a destination's
\* split_group, and whether the group row names a split.
NewRequest == [kind |-> "none", pc |-> "idle", group |-> NoGroup, asked |-> {},
               todo |-> {}, dest |-> Transit, num |-> 0, status |-> "issued",
               marked |-> {}, named |-> NoGroup, linked |-> FALSE]

Init ==
    /\ sgStatus = [g \in Groups |-> "none"]
    /\ sgTransfer = [g \in Groups |-> NoTransfer]
    /\ sgSplit = [g \in Groups |-> FALSE]
    /\ dcStatus = [c \in Challans |-> "none"]
    /\ splitNumber = [g \in Groups |-> 0]
    /\ tStatus = "issued"
    /\ isSplit = [p \in Places |-> FALSE]
    /\ splitGroup = [p \in Places |-> NoGroup]
    /\ numSplit = 0
    /\ req = [r \in Requests |-> NewRequest]
    /\ crashes = 0 /\ errors = 0
    /\ settled = Rows /\ overlapped = FALSE

InFlight(r) == req[r].pc \notin {"idle", "done", "failed"}
Idle == \A r \in Requests : ~InFlight(r)
GroupExists(g) == sgStatus[g] \in {"draft", "issued"}
Exists(c) == dcStatus[c] \in {"draft", "issued"}
ChallansOf(g) == {c \in Challans : c[1] = g /\ Exists(c)}

At(r, pc) == req[r].pc = pc

\* The request goes on to its next call; what it held is gone when it ends.
Moved(s, pc) ==
    IF pc \in {"done", "failed"}
    THEN [NewRequest EXCEPT !.kind = s.kind, !.group = s.group, !.pc = pc]
    ELSE [s EXCEPT !.pc = pc]

Goto(r, pc) == req' = [req EXCEPT ![r] = Moved(@, pc)]

\* One round of a loop over todo is done: go on, or to the call after the loop.
Round(r, x, after) ==
    LET left == req[r].todo \ {x}
    IN  req' = [req EXCEPT ![r] = Moved([@ EXCEPT !.todo = left],
                                        IF left = {} THEN after ELSE @.pc)]

\* Enter a loop over S, or pass it by when S is empty.
Loop(r, S, pc, after) ==
    req' = [req EXCEPT ![r] = Moved([@ EXCEPT !.todo = S],
                                    IF S = {} THEN after ELSE pc)]

\* app.Save writes only the columns that changed since the row was loaded.
Saved(current, loaded, new) == IF new = loaded THEN current ELSE new

\* Mutant: challans of a deleted group stay (no cascade in the schema).
DeleteGroupRowOnly(g) ==
    /\ sgStatus' = [sgStatus EXCEPT ![g] = "deleted"]
    /\ sgTransfer' = [sgTransfer EXCEPT ![g] = NoTransfer]
    /\ sgSplit' = [sgSplit EXCEPT ![g] = FALSE]
    /\ splitNumber' = [splitNumber EXCEPT ![g] = 0]
    /\ UNCHANGED dcStatus

\* Deleting a group row deletes its challans and its split row with it.
DeleteGroupRow(g) ==
    /\ sgStatus' = [sgStatus EXCEPT ![g] = "deleted"]
    /\ sgTransfer' = [sgTransfer EXCEPT ![g] = NoTransfer]
    /\ sgSplit' = [sgSplit EXCEPT ![g] = FALSE]
    /\ splitNumber' = [splitNumber EXCEPT ![g] = 0]
    /\ dcStatus' = [c \in Challans |->
            IF c \in ChallansOf(g) THEN "deleted" ELSE dcStatus[c]]

-----------------------------------------------------------------------------
\* Bound: a creation begins only while an unused group id is left for it.
IdLeft ==
    Cardinality({r \in Requests : InFlight(r) /\ req[r].group = NoGroup})
        < Cardinality({g \in Groups : sgStatus[g] = "none"})

\* CreateDirectShipment for the places S that get a quantity.
BeginDirect(r, S) ==
    /\ IdLeft
    /\ req' = [req EXCEPT ![r] = [NewRequest EXCEPT !.kind = "direct", !.pc = "group",
                                                 !.asked = S]]

\* CreateSplit of the destinations S: it reads the transfer's status first.
BeginSplit(r, S) ==
    /\ IdLeft
    /\ S # {} /\ tStatus \in {"issued", "splitting"}
    /\ req' = [req EXCEPT ![r] = [NewRequest EXCEPT !.kind = "split", !.pc = "meta",
                                          !.asked = S, !.status = tStatus]]

\* CreateSplit and UndoSplit load the transfer_dcs row.
ReadMeta(r) ==
    /\ At(r, "meta")
    /\ req' = [req EXCEPT ![r].num = numSplit, ![r].todo = req[r].asked,
            ![r].pc = IF req[r].kind = "split" THEN "check" ELSE "parent"]
    /\ UNCHANGED db

\* Mutant: the answer of the check is not used.
CheckDestLoosely(r, p) ==
    /\ At(r, "check") /\ p \in req[r].todo
    /\ Round(r, p, "group")
    /\ UNCHANGED db

\* One selected destination is read, and refused when it is split already.
CheckDest(r, p) ==
    /\ At(r, "check") /\ p \in req[r].todo
    /\ IF isSplit[p] THEN Goto(r, "failed") ELSE Round(r, p, "group")
    /\ UNCHANGED db

SaveGroup(r, g) ==
    /\ At(r, "group") /\ sgStatus[g] = "none"
    /\ sgStatus' = [sgStatus EXCEPT ![g] = "draft"]
    /\ sgTransfer' = [sgTransfer EXCEPT ![g] =
                          IF req[r].kind = "split" THEN T ELSE NoTransfer]
    /\ req' = [req EXCEPT ![r].pc = "transit", ![r].group = g]
    /\ UNCHANGED <<sgSplit, dcStatus, splitNumber, tStatus, destVars, numSplit>>

\* A new challan is refused when the group it names is gone.
SaveChallan(r, x) ==
    /\ IF GroupExists(req[r].group)
       THEN dcStatus' = [dcStatus EXCEPT ![<<req[r].group, x>>] = "draft"]
       ELSE UNCHANGED dcStatus
    /\ UNCHANGED <<sgVars, splitNumber, tStatus, destVars, numSplit>>

AfterOfficials(r) == IF req[r].kind = "split" THEN "row" ELSE "done"

SaveTransit(r) ==
    /\ At(r, "transit")
    /\ SaveChallan(r, Transit)
    /\ IF GroupExists(req[r].group)
       THEN Loop(r, req[r].asked, "official", AfterOfficials(r))
       ELSE Goto(r, "failed")

\* Mutant: the loop over the destinations stops after the first.
SaveOfficialOnce(r, p) ==
    /\ At(r, "official") /\ p \in req[r].todo
    /\ SaveChallan(r, p)
    /\ Goto(r, IF GroupExists(req[r].group) THEN AfterOfficials(r) ELSE "failed")

SaveOfficial(r, p) ==
    /\ At(r, "official") /\ p \in req[r].todo
    /\ SaveChallan(r, p)
    /\ IF GroupExists(req[r].group)
       THEN Round(r, p, AfterOfficials(r))
       ELSE Goto(r, "failed")

\* CreateSplit loads the destination row before it makes the challan, and goes
\* on to the next destination when that read fails.
SkipOfficial(r, p) ==
    /\ At(r, "official") /\ p \in req[r].todo /\ req[r].kind = "split"
    /\ Round(r, p, "row")
    /\ UNCHANGED db

SaveSplitRow(r) ==
    /\ At(r, "row")
    /\ IF GroupExists(req[r].group)
       THEN /\ splitNumber' = [splitNumber EXCEPT ![req[r].group] = req[r].num + 1]
            /\ Goto(r, "link")
       ELSE Goto(r, "failed") /\ UNCHANGED splitNumber
    /\ UNCHANGED <<sgVars, dcStatus, tStatus, destVars, numSplit>>

\* The calls from here to the end of CreateSplit ignore their errors: ok is
\* FALSE when the call fails.
LinkSplit(r, ok) ==
    /\ At(r, "link")
    /\ sgSplit' = [sgSplit EXCEPT ![req[r].group] =
                       @ \/ (ok /\ splitNumber[req[r].group] # 0)]
    /\ Loop(r, req[r].asked, "read", "count")
    /\ UNCHANGED <<sgStatus, sgTransfer, dcStatus, splitNumber, tStatus, destVars,
                   numSplit>>

\* A destination row is loaded once more before it is marked.
ReadDest(r, p, ok) ==
    /\ At(r, "read") /\ p \in req[r].todo
    /\ IF ok
       THEN req' = [req EXCEPT ![r].pc = "mark", ![r].dest = p,
                               ![r].named = splitGroup[p],
                               ![r].marked = {q \in {p} : isSplit[q]}]
       ELSE Round(r, p, "count")
    /\ UNCHANGED db

MarkDest(r, ok) ==
    /\ At(r, "mark")
    /\ LET p == req[r].dest
           s == req[r]
       IN  /\ isSplit' = [isSplit EXCEPT ![p] =
                            IF ok THEN Saved(@, p \in s.marked, TRUE) ELSE @]
           /\ splitGroup' = [splitGroup EXCEPT ![p] =
                            IF ok THEN Saved(@, s.named, s.group) ELSE @]
           /\ req' = [req EXCEPT ![r].todo = @ \ {p},
                         ![r].pc = IF s.todo = {p} THEN "count" ELSE "read"]
    /\ UNCHANGED <<sgVars, dcStatus, splitNumber, tStatus, numSplit>>

\* Mutants of NewCount: destinations counted; undo leaves the count.
NewCountPerDest(s) == CASE s.kind = "split"  -> s.num + Cardinality(s.asked)
                        [] s.kind = "undo" -> IF s.num > 0 THEN s.num - 1 ELSE 0
NewCountKept(s) == IF s.kind = "split" THEN s.num + 1 ELSE s.num

\* The num_split a request writes, from the one it loaded.
NewCount(s) == CASE s.kind = "split"  -> s.num + 1
                 [] s.kind = "undo" -> IF s.num > 0 THEN s.num - 1 ELSE 0

SaveCount(r, ok) ==
    /\ At(r, "count")
    /\ numSplit' = IF ok THEN Saved(numSplit, req[r].num, NewCount(req[r])) ELSE numSplit
    /\ Goto(r, "status")
    /\ UNCHANGED <<sgVars, dcStatus, splitNumber, tStatus, destVars>>

\* The transfer's status, from the count in memory.
NewStatus(s) ==
    IF s.kind = "undo" /\ NewCount(s) = 0 THEN "issued"
    ELSE IF NewCount(s) >= NumDest THEN "split"
    ELSE "splitting"

SaveStatus(r, ok) ==
    /\ At(r, "status")
    /\ tStatus' = IF ok THEN Saved(tStatus, req[r].status, NewStatus(req[r])) ELSE tStatus
    /\ Goto(r, "done")
    /\ UNCHANGED <<sgVars, dcStatus, splitNumber, destVars, numSplit>>

-----------------------------------------------------------------------------
\* UndoSplit reads the split row, transfer_dcs, the transfer, and the group.
BeginUndo(r, g) ==
    /\ splitNumber[g] # 0
    /\ req' = [req EXCEPT ![r] = [NewRequest EXCEPT !.kind = "undo", !.pc = "meta",
                                                    !.group = g]]

ReadParent(r) ==
    /\ At(r, "parent")
    /\ req' = [req EXCEPT ![r].status = tStatus, ![r].pc = "draft"]
    /\ UNCHANGED db

\* Mutant: the status of the group is not looked at.
ReadGroupAny(r) ==
    /\ At(r, "draft")
    /\ Goto(r, IF GroupExists(req[r].group) THEN "dests" ELSE "failed")
    /\ UNCHANGED db

ReadGroup(r) ==
    /\ At(r, "draft")
    /\ Goto(r, IF sgStatus[req[r].group] = "draft" THEN "dests" ELSE "failed")
    /\ UNCHANGED db

\* One query loads the destinations that name the group; a failed one loads none.
FindDests(r, ok) ==
    /\ At(r, "dests")
    /\ LET found == {p \in Places : ok /\ splitGroup[p] = req[r].group}
       IN  req' = [req EXCEPT ![r].todo = found,
                              ![r].marked = {p \in found : isSplit[p]},
                              ![r].pc = IF found = {} THEN "find" ELSE "reset"]
    /\ UNCHANGED db

ResetDest(r, p, ok) ==
    /\ At(r, "reset") /\ p \in req[r].todo
    /\ isSplit' = [isSplit EXCEPT ![p] =
                      IF ok THEN Saved(@, p \in req[r].marked, FALSE) ELSE @]
    /\ splitGroup' = [splitGroup EXCEPT ![p] =
                      IF ok THEN Saved(@, req[r].group, NoGroup) ELSE @]
    /\ Round(r, p, "find")
    /\ UNCHANGED <<sgVars, dcStatus, splitNumber, tStatus, numSplit>>

\* One query loads the challans of the group, to delete them one by one.
AfterChallans(r) == IF req[r].kind = "undo" THEN "unrow" ELSE "ungroup"

FindChallans(r, ok) ==
    /\ At(r, "find")
    /\ Loop(r, {c \in ChallansOf(req[r].group) : ok}, "remove", AfterChallans(r))
    /\ UNCHANGED db

\* HandleShipmentGroupDelete stops at an error; UndoSplit and the
\* deleteShipmentGroup of HandleDCDelete do not look at it.
Stops(r) == req[r].kind = "groupDelete"

RemoveChallan(r, c, ok) ==
    /\ At(r, "remove") /\ c \in req[r].todo
    /\ dcStatus' = IF ok THEN [dcStatus EXCEPT ![c] = "deleted"] ELSE dcStatus
    /\ IF ~ok /\ Stops(r) THEN Goto(r, "failed") ELSE Round(r, c, AfterChallans(r))
    /\ UNCHANGED <<sgVars, splitNumber, tStatus, destVars, numSplit>>

RemoveSplitRow(r, ok) ==
    /\ At(r, "unrow")
    /\ splitNumber' = [splitNumber EXCEPT ![req[r].group] = IF ok THEN 0 ELSE @]
    /\ sgSplit' = [sgSplit EXCEPT ![req[r].group] = @ /\ ~ok]
    /\ Goto(r, "ungroup")
    /\ UNCHANGED <<sgStatus, sgTransfer, dcStatus, tStatus, destVars, numSplit>>

RemoveGroup(r, ok) ==
    /\ At(r, "ungroup")
    /\ IF ok THEN DeleteGroupRow(req[r].group)
             ELSE UNCHANGED <<sgVars, dcStatus, splitNumber>>
    /\ Goto(r, CASE req[r].kind = "undo" -> "count"
                 [] ~ok /\ Stops(r)      -> "failed"
                 [] OTHER                -> "done")
    /\ UNCHANGED <<tStatus, destVars, numSplit>>

\* HandleShipmentGroupDelete, or HandleDCDelete on a challan of the group.
BeginDelete(r, g, kind) ==
    /\ sgStatus[g] = "draft"
    /\ req' = [req EXCEPT ![r] = [NewRequest EXCEPT !.kind = kind, !.pc = "find",
                                                    !.group = g]]

-----------------------------------------------------------------------------
\* IssueShipmentGroup loads the group row first.
BeginIssue(r, g) ==
    /\ sgStatus[g] = "draft"
    /\ req' = [req EXCEPT ![r] = [NewRequest EXCEPT !.kind = "issue", !.pc = "load",
                                          !.group = g, !.linked = sgSplit[g]]]

\* It loads the challans and refuses unless all are drafts, or when
\* validateDCSerials objects.
LoadChallans(r, valid) ==
    /\ At(r, "load")
    /\ LET found == ChallansOf(req[r].group)
       IN  IF valid /\ \A c \in found : dcStatus[c] = "draft"
           THEN Loop(r, found, "issue", "close")
           ELSE Goto(r, "failed")
    /\ UNCHANGED db

\* Mutant: the loop over the challans stops after the first.
IssueChallanOnce(r, c) ==
    /\ At(r, "issue") /\ c \in req[r].todo
    /\ dcStatus' = IF Exists(c) /\ GroupExists(req[r].group)
                   THEN [dcStatus EXCEPT ![c] = "issued"] ELSE dcStatus
    /\ Goto(r, IF GroupExists(req[r].group) THEN "close" ELSE "failed")
    /\ UNCHANGED <<sgVars, splitNumber, tStatus, destVars, numSplit>>

\* A challan whose row is gone is saved to no effect; one whose group row is
\* gone is refused.
IssueChallan(r, c) ==
    /\ At(r, "issue") /\ c \in req[r].todo
    /\ dcStatus' = IF Exists(c) /\ GroupExists(req[r].group)
                   THEN [dcStatus EXCEPT ![c] = "issued"] ELSE dcStatus
    /\ IF GroupExists(req[r].group) THEN Round(r, c, "close") ELSE Goto(r, "failed")
    /\ UNCHANGED <<sgVars, splitNumber, tStatus, destVars, numSplit>>

\* The group row is refused when the split row it was loaded with is gone.
CloseGroup(r) ==
    /\ At(r, "close")
    /\ LET g == req[r].group
           refused == req[r].linked /\ splitNumber[g] = 0
       IN  /\ sgStatus' = [sgStatus EXCEPT ![g] =
                   IF GroupExists(g) /\ ~refused THEN "issued" ELSE @]
           /\ Goto(r, IF refused THEN "failed" ELSE "done")
    /\ UNCHANGED <<sgTransfer, sgSplit, dcStatus, splitNumber, tStatus, destVars,
                   numSplit>>

-----------------------------------------------------------------------------
\* A request arrives and makes its first read; one that is refused there does
\* nothing.
Begin(r) ==
    /\ At(r, "idle")
    /\ Cardinality({s \in Requests : InFlight(s)}) < MaxActive
    /\ \/ \E S \in SUBSET Places : BeginDirect(r, S) \/ BeginSplit(r, S)
       \/ \E g \in Groups : BeginUndo(r, g) \/ BeginIssue(r, g)
       \/ \E g \in Groups, k \in {"groupDelete", "dcDelete"} : BeginDelete(r, g, k)
    /\ UNCHANGED db

\* Calls that succeed, or whose error the code returns (CallFails).
Call(r) ==
    \/ ReadMeta(r) \/ ReadParent(r) \/ ReadGroup(r)
    \/ \E p \in Places : CheckDest(r, p) \/ SaveOfficial(r, p)
    \/ \E g \in Groups : SaveGroup(r, g)
    \/ SaveTransit(r) \/ SaveSplitRow(r)
    \/ \E valid \in BOOLEAN : LoadChallans(r, valid)
    \/ \E c \in Challans : IssueChallan(r, c)
    \/ CloseGroup(r)

\* Calls whose error the code ignores, or handles by its kind.
LooseCall(r, ok) ==
    \/ LinkSplit(r, ok) \/ MarkDest(r, ok) \/ SaveCount(r, ok) \/ SaveStatus(r, ok)
    \/ FindDests(r, ok) \/ FindChallans(r, ok)
    \/ RemoveSplitRow(r, ok) \/ RemoveGroup(r, ok)
    \/ \E p \in Places : ReadDest(r, p, ok) \/ ResetDest(r, p, ok)
    \/ \E c \in Challans : RemoveChallan(r, c, ok)

CallFails(r) ==
    /\ req[r].pc \in {"meta", "check", "group", "transit", "official", "row",
                      "parent", "draft", "load", "issue", "close"}
    /\ Goto(r, "failed")
    /\ UNCHANGED db

\* The process dies and every request with it.
Crash ==
    /\ ~Idle /\ crashes < MaxCrashes
    /\ crashes' = crashes + 1
    /\ req' = [r \in Requests |->
                  IF InFlight(r) THEN Moved(req[r], "failed") ELSE req[r]]
    /\ UNCHANGED <<db, errors>>

Step(r) ==
    /\ Begin(r) \/ Call(r) \/ LooseCall(r, TRUE)
    /\ UNCHANGED <<crashes, errors>>

Fault(r) ==
    /\ errors < MaxErrors
    /\ CallFails(r) \/ LooseCall(r, FALSE) \/ \E p \in Places : SkipOfficial(r, p)
    /\ errors' = errors + 1
    /\ UNCHANGED crashes

Next ==
    /\ (\E r \in Requests : Step(r) \/ Fault(r)) \/ Crash
    /\ settled' = IF Idle' THEN Rows' ELSE settled
    /\ overlapped' = (overlapped \/ Cardinality({r \in Requests : InFlight(r)'}) > 1)

Spec == Init /\ [][Next]_vars

-----------------------------------------------------------------------------
RowStatus == {"none", "draft", "issued", "deleted"}
Kinds == {"none", "direct", "split", "undo", "issue", "groupDelete", "dcDelete"}
Calls == {"meta", "check", "group", "transit", "official", "row", "link", "read",
          "mark", "count", "status", "parent", "draft", "dests", "reset", "find",
          "remove", "unrow", "ungroup", "load", "issue", "close"}

TypeOK ==
    /\ sgStatus \in [Groups -> RowStatus]
    /\ sgTransfer \in [Groups -> {T, NoTransfer}]
    /\ sgSplit \in [Groups -> BOOLEAN]
    /\ dcStatus \in [Challans -> RowStatus]
    /\ splitNumber \in [Groups -> Nat]
    /\ tStatus \in {"issued", "splitting", "split"}
    /\ isSplit \in [Places -> BOOLEAN]
    /\ splitGroup \in [Places -> Groups \cup {NoGroup}]
    /\ numSplit \in Nat
    /\ crashes \in 0 .. MaxCrashes /\ errors \in 0 .. MaxErrors /\ overlapped \in BOOLEAN
    /\ \A r \in Requests :
        /\ req[r].kind \in Kinds /\ req[r].pc \in Calls \cup {"idle", "done", "failed"}
        /\ req[r].group \in Groups \cup {NoGroup} /\ req[r].num \in Nat
        /\ req[r].todo \subseteq Places \/ req[r].todo \subseteq Challans
        /\ req[r].pc \in {"check", "official", "read", "mark", "reset", "remove", "issue"}
              => req[r].todo # {}

\* No challan and no split row outlives its group, and none appears in a group
\* that is gone: a creation whose group another request deletes under it stops
\* at its next save instead of leaving challans that belong to nothing.
NoOrphans ==
    /\ TypeOK
    /\ \A g \in Groups : ~GroupExists(g) =>
          ChallansOf(g) = {} /\ splitNumber[g] = 0 /\ ~sgSplit[g]

\* The destinations that name a group which never had a challan for them.
Unshipped == {p \in Places : splitGroup[p] # NoGroup
                                /\ dcStatus[<<splitGroup[p], p>>] = "none"}

\* A destination names a group only after its official challan was created, at
\* every moment and after any crash, because CreateSplit marks destinations
\* when everything else of the split exists; a failed call can make it skip the
\* challan of one destination, not of more.
MarkedAfterShipped == Cardinality(Unshipped) <= errors

\* Lost updates can lose a split from num_split, never invent one: the counter
\* is at most the number of CreateSplit requests, however creations and undos
\* overwrite each other's value and wherever they are cut off.
CountNeverInvents ==
    numSplit <= Cardinality({r \in Requests : req[r].kind = "split"})

\* While requests do not overlap, an issued group has no draft challan left: the
\* group row is written last, so a group that says issued is issued as a whole
\* even if the process died or a call failed during some earlier request on it.
IssuedIsWhole ==
    ~overlapped => \A g \in Groups : sgStatus[g] = "issued" =>
        \A c \in ChallansOf(g) : dcStatus[c] = "issued"

\* What an issued group holds stays, while requests do not overlap: no undo or
\* deletion, retried after a fault or not, removes a challan of it.
IssuedGroupStays ==
    [][~overlapped' => \A g \in Groups : sgStatus[g] = "issued" =>
          /\ sgStatus'[g] = "issued"
          /\ \A c \in ChallansOf(g) : dcStatus'[c] = dcStatus[c]]_vars

\* The groups that the marked destinations name.
NamedGroups == {splitGroup[p] : p \in Places} \ {NoGroup}

\* While requests do not overlap, each crash or failed call sets num_split and
\* the destination flags apart by at most one split, in either direction, and
\* nothing else does.
DriftIsBounded ==
    Idle /\ ~overlapped => LET named == Cardinality(NamedGroups)
                faults == crashes + errors
            IN  numSplit <= named + faults /\ named <= numSplit + faults

\* The rows between requests, as DCLifecycle sees them.
Lifecycle == INSTANCE DCLifecycle WITH
    Transfers   <- {T},
    dcStatus    <- settled.dcStatus,
    sgStatus    <- settled.sgStatus,
    sgTransfer  <- settled.sgTransfer,
    splitNumber <- settled.splitNumber,
    tStatus     <- [t \in {T} |-> settled.tStatus],
    dests       <- [t \in {T} |-> Places],
    isSplit     <- [d \in {T} \X Places |-> settled.isSplit[d[2]]],
    splitGroup  <- [d \in {T} \X Places |-> settled.splitGroup[d[2]]],
    numDest     <- [t \in {T} |-> NumDest],
    numSplit    <- [t \in {T} |-> settled.numSplit]

\* As long as no fault has happened, every request that ends, when no other
\* overlaps it, changed the rows by one action of DCLifecycle (or not at all when
\* it was refused): its dozen calls amount to one step.
RunsAsLifecycle ==
    [][crashes' = 0 /\ errors' = 0 /\ ~overlapped' => Lifecycle!Next]_(Lifecycle!vars)

-----------------------------------------------------------------------------
\* What the comments and documents of the repository say, and the code does not do.

\* services/dc_issue.go:10 "issues all DCs in a shipment group atomically":
\* between requests no group has both draft and issued challans.
IssuedAtomically ==
    Idle => \A g \in Groups : \A c, d \in ChallansOf(g) : dcStatus[c] = dcStatus[d]

\* services/dc_split.go:62 "Validate selected destinations are not already
\* split": no destination of the transfer is shipped by two groups.
SplitOnce ==
    \A p \in Places : \A g, h \in Groups :
        /\ sgTransfer[g] = T /\ sgTransfer[h] = T
        /\ Exists(<<g, p>>) /\ Exists(<<h, p>>)
        => g = h

\* services/dc_split.go:397 "can't undo issued splits": an issued challan is
\* never deleted.
IssuedIsNotUndone ==
    [][\A c \in Challans : dcStatus[c] = "issued" => dcStatus'[c] # "deleted"]_vars
=============================================================================
