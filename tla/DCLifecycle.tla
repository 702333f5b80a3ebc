----------------------------- MODULE DCLifecycle -----------------------------
(****************************************************************************)
(* The life of delivery challans at the grain of whole requests: creation   *)
(* (services/dc_creation.go), issue (services/dc_issue.go), split and undo  *)
(* (services/dc_split.go) and deletion (handlers/dc_delete.go,              *)
(* handlers/shipment_group.go), over the rows of delivery_challans,         *)
(* shipment_groups, transfer_dcs, transfer_dc_destinations and              *)
(* transfer_dc_splits.  Here one request runs to its end before the next    *)
(* begins; ChallanStore takes the same requests apart into database calls.  *)
(****************************************************************************)
EXTENDS Integers, FiniteSets

CONSTANTS
    Groups,       \* ids of shipment_groups rows
    Transfers,    \* ids of transfer challans, with their transfer_dcs row
    Places,       \* ship-to rows of the wizard (two may hold one address)
    Transit,      \* names the transit challan of a group
    NoGroup,      \* the empty split_group column
    NoTransfer    \* the empty transfer_dc column

ASSUME NamesAssumption == Transit \notin Places /\ NoGroup \notin Groups
                            /\ NoTransfer \notin Transfers
ASSUME PlacesAssumption == IsFiniteSet(Places)

\* A challan of a group is its transit challan or the official one of a place.
Challans == Groups \X (Places \cup {Transit})
Destinations == Transfers \X Places

VARIABLES
    dcStatus,     \* delivery_challans.status of the challans in groups
    sgStatus,     \* shipment_groups.status
    sgTransfer,   \* shipment_groups.transfer_dc
    splitNumber,  \* transfer_dc_splits.split_number by group, 0 without a row
    tStatus,      \* delivery_challans.status of the transfer challans
    dests,        \* the places with a transfer_dc_destinations row
    isSplit,      \* transfer_dc_destinations.is_split
    splitGroup,   \* transfer_dc_destinations.split_group
    numDest,      \* transfer_dcs.num_destinations
    numSplit      \* transfer_dcs.num_split

groupVars == <<dcStatus, sgStatus, sgTransfer, splitNumber>>
transferVars == <<tStatus, dests, isSplit, splitGroup, numDest, numSplit>>
vars == <<groupVars, transferVars>>

RowStatus == {"none", "draft", "issued", "deleted"}
TransferStatus == {"none", "draft", "issued", "splitting", "split", "deleted"}

Init ==
    /\ dcStatus = [c \in Challans |-> "none"]
    /\ sgStatus = [g \in Groups |-> "none"]
    /\ sgTransfer = [g \in Groups |-> NoTransfer]
    /\ splitNumber = [g \in Groups |-> 0]
    /\ tStatus = [t \in Transfers |-> "none"]
    /\ dests = [t \in Transfers |-> {}]
    /\ isSplit = [d \in Destinations |-> FALSE]
    /\ splitGroup = [d \in Destinations |-> NoGroup]
    /\ numDest = [t \in Transfers |-> 0]
    /\ numSplit = [t \in Transfers |-> 0]

Exists(c) == dcStatus[c] \in {"draft", "issued"}
ChallansOf(g) == {c \in Challans : c[1] = g /\ Exists(c)}

\* Save the row of a new draft group and its challans for the places S.
SaveGroup(g, S, t) ==
    /\ sgStatus[g] = "none"
    /\ sgStatus' = [sgStatus EXCEPT ![g] = "draft"]
    /\ sgTransfer' = [sgTransfer EXCEPT ![g] = t]
    /\ dcStatus' = [c \in Challans |->
            IF c[1] = g /\ c[2] \in S \cup {Transit} THEN "draft" ELSE dcStatus[c]]

\* Mutant: the group's row goes, its challans stay.
DeleteGroupRowOnly(g) ==
    /\ sgStatus' = [sgStatus EXCEPT ![g] = "deleted"]
    /\ sgTransfer' = [sgTransfer EXCEPT ![g] = NoTransfer]
    /\ splitNumber' = [splitNumber EXCEPT ![g] = 0]
    /\ UNCHANGED dcStatus

\* Delete a group and its challans; the transfer_dc_splits row cascades.
DeleteGroup(g) ==
    /\ sgStatus' = [sgStatus EXCEPT ![g] = "deleted"]
    /\ sgTransfer' = [sgTransfer EXCEPT ![g] = NoTransfer]
    /\ splitNumber' = [splitNumber EXCEPT ![g] = 0]
    /\ dcStatus' = [c \in Challans |->
            IF c \in ChallansOf(g) THEN "deleted" ELSE dcStatus[c]]

-----------------------------------------------------------------------------
\* CreateDirectShipment: an official challan only for the places with a
\* quantity, possibly none.
CreateDirectShipment(g, S) ==
    /\ SaveGroup(g, S, NoTransfer)
    /\ UNCHANGED <<splitNumber, transferVars>>

\* CreateTransferDC: the challan, its metadata and its destination rows.
CreateTransferDC(t, S) ==
    /\ tStatus[t] = "none" /\ S # {}
    /\ tStatus' = [tStatus EXCEPT ![t] = "draft"]
    /\ dests' = [dests EXCEPT ![t] = S]
    /\ numDest' = [numDest EXCEPT ![t] = Cardinality(S)]
    /\ numSplit' = [numSplit EXCEPT ![t] = 0]
    /\ UNCHANGED <<groupVars, isSplit, splitGroup>>

\* IssueShipmentGroup, when validateDCSerials finds nothing to object to.
IssueShipmentGroup(g) ==
    /\ sgStatus[g] = "draft"
    /\ \A c \in ChallansOf(g) : dcStatus[c] = "draft"
    /\ dcStatus' = [c \in Challans |->
            IF c \in ChallansOf(g) THEN "issued" ELSE dcStatus[c]]
    /\ sgStatus' = [sgStatus EXCEPT ![g] = "issued"]
    /\ UNCHANGED <<sgTransfer, splitNumber, transferVars>>

\* IssueSingleDC on a challan of a group issues the whole group.
IssueSingleDC(c) == dcStatus[c] = "draft" /\ IssueShipmentGroup(c[1])

IssueTransferDC(t) ==
    /\ tStatus[t] = "draft"
    /\ tStatus' = [tStatus EXCEPT ![t] = "issued"]
    /\ UNCHANGED <<groupVars, dests, isSplit, splitGroup, numDest, numSplit>>

\* Mutant: the comparison is one destination too strict.
StatusAfterSplitStrict(t, n) == IF n > numDest[t] THEN "split" ELSE "splitting"

\* The parent status CreateSplit writes for a new value of num_split.
StatusAfterSplit(t, n) == IF n >= numDest[t] THEN "split" ELSE "splitting"

\* Mutant: is_split is not looked at.
SplittableUnmarked(t, S) == S # {} /\ S \subseteq dests[t]

\* The selection CreateSplit accepts; an empty one fails later because
\* num_locations is a required, non-zero column.
Splittable(t, S) ==
    /\ S # {} /\ S \subseteq dests[t]
    /\ \A p \in S : ~isSplit[<<t, p>>]

\* CreateSplit of the destinations S of transfer t into the new group g.
CreateSplit(t, S, g) ==
    /\ tStatus[t] \in {"issued", "splitting"}
    /\ Splittable(t, S)
    /\ SaveGroup(g, S, t)
    /\ splitNumber' = [splitNumber EXCEPT ![g] = numSplit[t] + 1]
    /\ isSplit' = [d \in Destinations |->
                     IF d[1] = t /\ d[2] \in S THEN TRUE ELSE isSplit[d]]
    /\ splitGroup' = [d \in Destinations |->
                     IF d[1] = t /\ d[2] \in S THEN g ELSE splitGroup[d]]
    /\ numSplit' = [numSplit EXCEPT ![t] = numSplit[t] + 1]
    /\ tStatus' = [tStatus EXCEPT ![t] = StatusAfterSplit(t, numSplit[t] + 1)]
    /\ UNCHANGED <<dests, numDest>>

\* Mutant: the last undo makes the parent a draft.
StatusAfterUndoDraft(t, n) == IF n = 0 THEN "draft" ELSE StatusAfterSplit(t, n)

\* The parent status UndoSplit recomputes.
StatusAfterUndo(t, n) == IF n = 0 THEN "issued" ELSE StatusAfterSplit(t, n)

\* The num_split that UndoSplit writes.
UndoneCount(t) == IF numSplit[t] > 0 THEN numSplit[t] - 1 ELSE 0

\* Mutant: every destination of the transfer, whatever its group.
UndoneDestsAll(t, g) == {d \in Destinations : d[1] = t}

\* The destinations that UndoSplit resets.
UndoneDests(t, g) == {d \in Destinations : d[1] = t /\ splitGroup[d] = g}

\* UndoSplit of the split that owns group g: only the group row's status is
\* checked, not its challans'.
UndoSplit(g) ==
    /\ splitNumber[g] # 0
    /\ sgStatus[g] = "draft"
    /\ LET t == sgTransfer[g]
           n == UndoneCount(t)
           reset == UndoneDests(t, g)
       IN  /\ isSplit' = [d \in Destinations |-> d \notin reset /\ isSplit[d]]
           /\ splitGroup' = [d \in Destinations |->
                               IF d \in reset THEN NoGroup ELSE splitGroup[d]]
           /\ numSplit' = [numSplit EXCEPT ![t] = n]
           /\ tStatus' = [tStatus EXCEPT ![t] = StatusAfterUndo(t, n)]
    /\ DeleteGroup(g)
    /\ UNCHANGED <<dests, numDest>>

\* HandleDCDelete on a draft challan of a group: deleteShipmentGroup.
HandleDCDelete(c) ==
    /\ dcStatus[c] = "draft"
    /\ sgStatus[c[1]] = "draft"
    /\ DeleteGroup(c[1])
    /\ UNCHANGED transferVars

\* Mutant: the draft check is lost.
HandleShipmentGroupDeleteAny(g) ==
    /\ sgStatus[g] \in {"draft", "issued"}
    /\ DeleteGroup(g)
    /\ UNCHANGED transferVars

HandleShipmentGroupDelete(g) ==
    /\ sgStatus[g] = "draft"
    /\ DeleteGroup(g)
    /\ UNCHANGED transferVars

\* HandleDCDelete on a draft transfer: deleteTransferDCMetadata, then the row.
DeleteTransferDC(t) ==
    /\ tStatus[t] = "draft"
    /\ tStatus' = [tStatus EXCEPT ![t] = "deleted"]
    /\ dests' = [dests EXCEPT ![t] = {}]
    /\ UNCHANGED <<groupVars, isSplit, splitGroup, numDest, numSplit>>

Next ==
    \/ \E g \in Groups, S \in SUBSET Places : CreateDirectShipment(g, S)
    \/ \E t \in Transfers, S \in SUBSET Places : CreateTransferDC(t, S)
    \/ \E g \in Groups : \/ IssueShipmentGroup(g)
                         \/ UndoSplit(g)
                         \/ HandleShipmentGroupDelete(g)
    \/ \E c \in Challans : IssueSingleDC(c) \/ HandleDCDelete(c)
    \/ \E t \in Transfers : IssueTransferDC(t) \/ DeleteTransferDC(t)
    \/ \E t \in Transfers, S \in SUBSET Places, g \in Groups : CreateSplit(t, S, g)

Spec == Init /\ [][Next]_vars

-----------------------------------------------------------------------------
\* The groups, live or deleted, that the destinations of t say they went to.
NamedGroups(t) == {splitGroup[<<t, p>>] : p \in {q \in Places : isSplit[<<t, q>>]}}

TypeOK ==
    /\ dcStatus \in [Challans -> RowStatus]
    /\ sgStatus \in [Groups -> RowStatus]
    /\ sgTransfer \in [Groups -> Transfers \cup {NoTransfer}]
    /\ splitNumber \in [Groups -> Nat]
    /\ tStatus \in [Transfers -> TransferStatus]
    /\ dests \in [Transfers -> SUBSET Places]
    /\ isSplit \in [Destinations -> BOOLEAN]
    /\ splitGroup \in [Destinations -> Groups \cup {NoGroup}]
    /\ numDest \in [Transfers -> Nat]
    /\ numSplit \in [Transfers -> Nat]

\* A group and its challans have one status: issued, deleted or drafted as a
\* whole, whichever route did it.
GroupIsUniform ==
    \A c \in Challans : dcStatus[c] \in {"none", sgStatus[c[1]]}

\* Every live group that ships a destination of a transfer is the group the
\* destination's row names, so no destination is shipped by two groups.
ShippedOnce ==
    \A g \in Groups, t \in Transfers, p \in Places :
        sgTransfer[g] = t /\ Exists(<<g, p>>)
            => isSplit[<<t, p>>] /\ splitGroup[<<t, p>>] = g

\* The parent's status is what its counter says (the status computation that
\* CreateSplit and UndoSplit each do on their own).
StatusMatchesCounter ==
    \A t \in Transfers :
        /\ tStatus[t] \in {"none", "draft", "issued", "deleted"} => numSplit[t] = 0
        /\ tStatus[t] = "splitting" => numSplit[t] \in 1 .. numDest[t] - 1
        /\ tStatus[t] = "split" => numSplit[t] > 0 /\ numSplit[t] >= numDest[t]

\* num_split is the number of groups its destinations name, also when some of
\* those groups were deleted by another route than UndoSplit: the counter and
\* the destination flags never drift apart.
CounterMatchesFlags ==
    \A t \in Transfers : numSplit[t] = Cardinality(NamedGroups(t))

DestRowAgrees(d) ==
    /\ isSplit[d] <=> splitGroup[d] # NoGroup
    /\ isSplit[d] => sgStatus[splitGroup[d]] # "none"

GroupRowAgrees(g) ==
    /\ sgStatus[g] \in {"none", "deleted"} => sgTransfer[g] = NoTransfer
    /\ splitNumber[g] # 0 <=> sgTransfer[g] # NoTransfer
    /\ sgTransfer[g] # NoTransfer => g \in NamedGroups(sgTransfer[g])

\* The rows that undo relies on: a destination is marked exactly when it names
\* a group, and that group was created; a group of a transfer has its
\* transfer_dc_splits row and at least one destination naming it; a group that
\* does not exist any more is linked to nothing.
RowsAgree ==
    /\ \A d \in Destinations : DestRowAgrees(d)
    /\ \A g \in Groups : GroupRowAgrees(g)

\* A transfer with a live split is splitting or split: neither an undo of
\* another split nor any deletion makes it look whole again.
LiveSplitHasParent ==
    \A g \in Groups, t \in Transfers :
        sgTransfer[g] = t => tStatus[t] \in {"splitting", "split"}

\* Issuing is final: no later request deletes, reverts or reassigns an issued
\* challan or its destination, and an issued transfer never goes back to
\* draft or away.
IssuedIsFinal ==
    [][/\ \A c \in Challans : dcStatus[c] = "issued" =>
             /\ dcStatus'[c] = "issued"
             /\ sgTransfer'[c[1]] = sgTransfer[c[1]]
       /\ \A t \in Transfers : tStatus[t] \in {"issued", "splitting", "split"} =>
             tStatus'[t] \in {"issued", "splitting", "split"}]_vars

\* The promise of ShipmentContract, read off the challan rows: a group is as
\* issued as its challans are, and covers the places they ship to.
GroupState(g) ==
    LET states == {dcStatus[c] : c \in ChallansOf(g)}
    IN  CASE states = {"draft"}  -> "draft"
          [] states = {"issued"} -> "issued"
          [] states = {}         -> IF sgStatus[g] = "none" THEN "none" ELSE "gone"
          [] OTHER               -> "mixed"

PlanState(t) ==
    CASE tStatus[t] \in {"issued", "splitting", "split"} -> "open"
      [] tStatus[t] = "deleted" -> "gone"
      [] OTHER -> tStatus[t]

Contract == INSTANCE ShipmentContract WITH
    group   <- [g \in Groups |-> GroupState(g)],
    source  <- sgTransfer,
    cover   <- [g \in Groups |-> {p \in Places : Exists(<<g, p>>)}],
    plan    <- [t \in Transfers |-> PlanState(t)],
    planned <- dests

\* The requests implement the contract.
ImplementsContract == Contract!Spec

-----------------------------------------------------------------------------
\* What the documents of the repository say, and the code does not do.

\* docs/plans/2026-03-10-dc-integration-design.md:205 "(All split) -> Split":
\* when every destination of a transfer has been split, its status is split.
AllSplitMeansSplit ==
    \A t \in Transfers :
        /\ tStatus[t] \in {"issued", "splitting", "split"}
        /\ \A p \in dests[t] : isSplit[<<t, p>>]
        => tStatus[t] = "split"

\* services/dc_split.go:62 refuses destinations that are "already split": a
\* destination so marked is shipped by a group that exists.
MarkedIsShipped ==
    \A t \in Transfers, p \in Places :
        isSplit[<<t, p>>] => \E g \in Groups : sgTransfer[g] = t /\ Exists(<<g, p>>)
=============================================================================
