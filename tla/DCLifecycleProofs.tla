-------------------------- MODULE DCLifecycleProofs --------------------------
(* Proofs about DCLifecycle: the invariants of the rows that creation,       *)
(* issue, split, undo and deletion keep, for any number of groups, transfers *)
(* and places, and that an issued challan is final.                          *)
EXTENDS DCLifecycle, FiniteSetTheorems, TLAPS

\* The requests that reach a group through one of its challans do what the
\* request on the group does, so a step is one of eight kinds.
LEMMA StepKinds ==
    ASSUME [Next]_vars
    PROVE  \/ \E g \in Groups, S \in SUBSET Places : CreateDirectShipment(g, S)
           \/ \E t \in Transfers, S \in SUBSET Places : CreateTransferDC(t, S)
           \/ \E g \in Groups : IssueShipmentGroup(g)
           \/ \E g \in Groups : UndoSplit(g)
           \/ \E g \in Groups : HandleShipmentGroupDelete(g)
           \/ \E t \in Transfers : IssueTransferDC(t)
           \/ \E t \in Transfers : DeleteTransferDC(t)
           \/ \E t \in Transfers, S \in SUBSET Places, g \in Groups : CreateSplit(t, S, g)
           \/ UNCHANGED vars
<1>1. \A c \in Challans : c[1] \in Groups
  BY DEF Challans
<1>2. \A c \in Challans : IssueSingleDC(c) => IssueShipmentGroup(c[1])
  BY DEF IssueSingleDC
<1>3. \A c \in Challans : HandleDCDelete(c) => HandleShipmentGroupDelete(c[1])
  BY DEF HandleDCDelete, HandleShipmentGroupDelete
<1>4. QED
  BY <1>1, <1>2, <1>3 DEF Next

-----------------------------------------------------------------------------
(* Type correctness, one step per kind of request. *)

LEMMA SaveGroupTypes ==
    ASSUME TypeOK, NEW g \in Groups, NEW S \in SUBSET Places,
           NEW t \in Transfers \cup {NoTransfer}, SaveGroup(g, S, t)
    PROVE  /\ dcStatus' \in [Challans -> RowStatus]
           /\ sgStatus' \in [Groups -> RowStatus]
           /\ sgTransfer' \in [Groups -> Transfers \cup {NoTransfer}]
BY DEF SaveGroup, TypeOK, RowStatus

LEMMA DeleteGroupTypes ==
    ASSUME TypeOK, NEW g \in Groups, DeleteGroup(g)
    PROVE  /\ dcStatus' \in [Challans -> RowStatus]
           /\ sgStatus' \in [Groups -> RowStatus]
           /\ sgTransfer' \in [Groups -> Transfers \cup {NoTransfer}]
           /\ splitNumber' \in [Groups -> Nat]
BY DEF DeleteGroup, TypeOK, RowStatus

\* The types of all rows and columns in every reachable state.
THEOREM TypeCorrect == Spec => []TypeOK
<1>1. Init => TypeOK
  BY DEF Init, TypeOK, RowStatus, TransferStatus
<1>2. TypeOK /\ [Next]_vars => TypeOK'
  <2> SUFFICES ASSUME TypeOK, [Next]_vars PROVE TypeOK'
    OBVIOUS
  <2>1. ASSUME NEW g \in Groups, NEW S \in SUBSET Places, CreateDirectShipment(g, S)
        PROVE  TypeOK'
    <3>1. /\ dcStatus' \in [Challans -> RowStatus]
          /\ sgStatus' \in [Groups -> RowStatus]
          /\ sgTransfer' \in [Groups -> Transfers \cup {NoTransfer}]
      BY <2>1, SaveGroupTypes DEF CreateDirectShipment
    <3>2. QED
      BY <2>1, <3>1 DEF CreateDirectShipment, TypeOK, transferVars
  <2>2. ASSUME NEW t \in Transfers, NEW S \in SUBSET Places, CreateTransferDC(t, S)
        PROVE  TypeOK'
    <3>1. Cardinality(S) \in Nat
      BY FS_Subset, FS_CardinalityType, PlacesAssumption
    <3>2. QED
      BY <2>2, <3>1 DEF CreateTransferDC, TypeOK, groupVars, TransferStatus
  <2>3. ASSUME NEW g \in Groups, IssueShipmentGroup(g)
        PROVE  TypeOK'
    BY <2>3 DEF IssueShipmentGroup, TypeOK, transferVars, RowStatus
  <2>4. ASSUME NEW g \in Groups, UndoSplit(g), sgTransfer[g] \in Transfers
        PROVE  TypeOK'
    <3> DEFINE t == sgTransfer[g]
               n == IF numSplit[t] > 0 THEN numSplit[t] - 1 ELSE 0
               reset == {d \in Destinations : d[1] = t /\ splitGroup[d] = g}
    <3>1. n \in Nat
      BY <2>4 DEF TypeOK
    <3>2. StatusAfterUndo(t, n) \in TransferStatus
      BY DEF StatusAfterUndo, StatusAfterSplit, TransferStatus
    <3>3. isSplit' \in [Destinations -> BOOLEAN]
      BY <2>4, Zenon DEF UndoSplit, UndoneCount, UndoneDests, TypeOK
    <3>4. splitGroup' \in [Destinations -> Groups \cup {NoGroup}]
      BY <2>4 DEF UndoSplit, UndoneCount, UndoneDests, TypeOK
    <3>5. /\ dcStatus' \in [Challans -> RowStatus]
          /\ sgStatus' \in [Groups -> RowStatus]
          /\ sgTransfer' \in [Groups -> Transfers \cup {NoTransfer}]
          /\ splitNumber' \in [Groups -> Nat]
      BY <2>4, DeleteGroupTypes DEF UndoSplit, UndoneCount, UndoneDests
    <3>6. /\ tStatus' = [tStatus EXCEPT ![t] = StatusAfterUndo(t, n)]
          /\ numSplit' = [numSplit EXCEPT ![t] = n]
          /\ dests' = dests /\ numDest' = numDest
      BY <2>4 DEF UndoSplit, UndoneCount, UndoneDests
    <3> HIDE DEF n, t
    <3>7. QED
      BY <3>1, <3>2, <3>3, <3>4, <3>5, <3>6 DEF TypeOK
  <2>5. ASSUME NEW g \in Groups, UndoSplit(g), sgTransfer[g] \notin Transfers
        PROVE  TypeOK'
    <3>1. tStatus' = tStatus /\ numSplit' = numSplit
      BY <2>5 DEF UndoSplit, UndoneCount, UndoneDests, TypeOK
    <3>2. isSplit' \in [Destinations -> BOOLEAN]
      BY <2>5, Zenon DEF UndoSplit, UndoneCount, UndoneDests, TypeOK
    <3>3. splitGroup' \in [Destinations -> Groups \cup {NoGroup}]
      BY <2>5 DEF UndoSplit, UndoneCount, UndoneDests, TypeOK
    <3>4. /\ dcStatus' \in [Challans -> RowStatus]
          /\ sgStatus' \in [Groups -> RowStatus]
          /\ sgTransfer' \in [Groups -> Transfers \cup {NoTransfer}]
          /\ splitNumber' \in [Groups -> Nat]
      BY <2>5, DeleteGroupTypes DEF UndoSplit, UndoneCount, UndoneDests
    <3>5. dests' = dests /\ numDest' = numDest
      BY <2>5 DEF UndoSplit, UndoneCount, UndoneDests
    <3>6. QED
      BY <3>1, <3>2, <3>3, <3>4, <3>5 DEF TypeOK
  <2>6. ASSUME NEW g \in Groups, HandleShipmentGroupDelete(g)
        PROVE  TypeOK'
    <3>1. /\ dcStatus' \in [Challans -> RowStatus]
          /\ sgStatus' \in [Groups -> RowStatus]
          /\ sgTransfer' \in [Groups -> Transfers \cup {NoTransfer}]
          /\ splitNumber' \in [Groups -> Nat]
      BY <2>6, DeleteGroupTypes DEF HandleShipmentGroupDelete
    <3>2. QED
      BY <2>6, <3>1 DEF HandleShipmentGroupDelete, TypeOK, transferVars
  <2>7. ASSUME NEW t \in Transfers, IssueTransferDC(t) \/ DeleteTransferDC(t)
        PROVE  TypeOK'
    BY <2>7 DEF IssueTransferDC, DeleteTransferDC, TypeOK, groupVars, TransferStatus
  <2>8. ASSUME NEW t \in Transfers, NEW S \in SUBSET Places, NEW g \in Groups,
               CreateSplit(t, S, g)
        PROVE  TypeOK'
    <3>1. /\ dcStatus' \in [Challans -> RowStatus]
          /\ sgStatus' \in [Groups -> RowStatus]
          /\ sgTransfer' \in [Groups -> Transfers \cup {NoTransfer}]
      BY <2>8, SaveGroupTypes DEF CreateSplit, Splittable
    <3>2. numSplit[t] + 1 \in Nat
      BY DEF TypeOK
    <3>3. StatusAfterSplit(t, numSplit[t] + 1) \in TransferStatus
      BY DEF StatusAfterSplit, TransferStatus
    <3>4. isSplit' \in [Destinations -> BOOLEAN]
      BY <2>8, Zenon DEF CreateSplit, Splittable, TypeOK
    <3>5. splitGroup' \in [Destinations -> Groups \cup {NoGroup}]
      BY <2>8 DEF CreateSplit, Splittable, TypeOK
    <3>6. /\ splitNumber' = [splitNumber EXCEPT ![g] = numSplit[t] + 1]
          /\ numSplit' = [numSplit EXCEPT ![t] = numSplit[t] + 1]
          /\ tStatus' = [tStatus EXCEPT ![t] = StatusAfterSplit(t, numSplit[t] + 1)]
          /\ dests' = dests /\ numDest' = numDest
      BY <2>8 DEF CreateSplit, Splittable
    <3>7. QED
      BY <3>1, <3>2, <3>3, <3>4, <3>5, <3>6 DEF TypeOK
  <2>9. CASE UNCHANGED vars
    BY <2>9 DEF vars, groupVars, transferVars, TypeOK
  <2>10. QED
    BY StepKinds, <2>1, <2>2, <2>3, <2>4, <2>5, <2>6, <2>7, <2>8, <2>9
<1>3. QED
  BY <1>1, <1>2, PTL DEF Spec

-----------------------------------------------------------------------------
(* The inductive invariant. GroupIsUniform is what makes checking only the   *)
(* group's status enough for undo and deletion; RowsAgree is what ties the   *)
(* destination flags to the groups, so that the counter can be a cardinality.*)

NamedFinite == \A t \in Transfers : IsFiniteSet(NamedGroups(t))

GroupInv == GroupIsUniform /\ RowsAgree /\ ShippedOnce
CounterInv == StatusMatchesCounter /\ CounterMatchesFlags /\ NamedFinite
Inv == TypeOK /\ GroupInv /\ CounterInv

\* What saving a new group changes, row by row.
LEMMA SaveGroupRows ==
    ASSUME Inv, NEW g \in Groups, NEW S \in SUBSET Places,
           NEW t \in Transfers \cup {NoTransfer}, SaveGroup(g, S, t)
    PROVE  /\ sgStatus[g] = "none" /\ sgStatus'[g] = "draft"
           /\ sgTransfer[g] = NoTransfer /\ sgTransfer'[g] = t
           /\ \A h \in Groups : h # g => /\ sgStatus'[h] = sgStatus[h]
                                         /\ sgTransfer'[h] = sgTransfer[h]
           /\ \A c \in Challans : c[1] # g => dcStatus'[c] = dcStatus[c]
           /\ \A c \in Challans : c[1] = g => dcStatus[c] = "none"
                                              /\ dcStatus'[c] \in {"none", "draft"}
           /\ \A p \in Places : Exists(<<g, p>>)' => p \in S
<1>1. sgStatus[g] = "none" /\ sgStatus'[g] = "draft" /\ sgTransfer'[g] = t
  BY DEF SaveGroup, Inv, TypeOK
<1>2. \A h \in Groups : h # g => /\ sgStatus'[h] = sgStatus[h]
                                 /\ sgTransfer'[h] = sgTransfer[h]
  BY DEF SaveGroup, Inv, TypeOK
<1>3. sgTransfer[g] = NoTransfer
  BY <1>1 DEF Inv, GroupInv, RowsAgree, GroupRowAgrees, DestRowAgrees
<1>4. \A c \in Challans : c[1] = g => dcStatus[c] = "none"
  BY <1>1 DEF Inv, GroupInv, GroupIsUniform
<1>5. \A c \in Challans : dcStatus'[c] =
        IF c[1] = g /\ c[2] \in S \cup {Transit} THEN "draft" ELSE dcStatus[c]
  BY DEF SaveGroup
<1>6. ASSUME NEW p \in Places, Exists(<<g, p>>)' PROVE p \in S
  <2>1. <<g, p>> \in Challans /\ p # Transit
    BY NamesAssumption DEF Challans
  <2>2. dcStatus[<<g, p>>] = "none"
    BY <1>4, <2>1
  <2>3. dcStatus'[<<g, p>>] # "none"
    BY <1>6 DEF Exists
  <2>4. dcStatus'[<<g, p>>] = IF p \in S \cup {Transit} THEN "draft" ELSE dcStatus[<<g, p>>]
    BY <1>5, <2>1
  <2>5. QED
    BY <2>1, <2>2, <2>3, <2>4
<1>7. QED
  BY <1>1, <1>2, <1>3, <1>4, <1>5, <1>6

\* What deleting a draft group changes, row by row.
LEMMA DeleteGroupRows ==
    ASSUME Inv, NEW g \in Groups, sgStatus[g] = "draft", DeleteGroup(g)
    PROVE  /\ sgStatus'[g] = "deleted" /\ sgTransfer'[g] = NoTransfer
           /\ splitNumber'[g] = 0
           /\ \A h \in Groups : h # g => /\ sgStatus'[h] = sgStatus[h]
                                         /\ sgTransfer'[h] = sgTransfer[h]
                                         /\ splitNumber'[h] = splitNumber[h]
           /\ \A c \in Challans : c[1] # g => dcStatus'[c] = dcStatus[c]
           /\ \A c \in Challans : c[1] = g => dcStatus'[c] \in {"none", "deleted"}
<1>1. \A c \in Challans : dcStatus[c] \in {"none", sgStatus[c[1]]}
  BY DEF Inv, GroupInv, GroupIsUniform
<1>2. \A c \in Challans : dcStatus'[c] =
        IF c[1] = g /\ Exists(c) THEN "deleted" ELSE dcStatus[c]
  BY DEF DeleteGroup, ChallansOf
<1>3. \A c \in Challans : c[1] = g => dcStatus'[c] \in {"none", "deleted"}
  BY <1>1, <1>2 DEF Exists
<1>4. QED
  BY <1>2, <1>3 DEF DeleteGroup, Inv, TypeOK

\* Requests that leave the transfers' rows alone keep the counters right.
LEMMA CounterKept ==
    ASSUME Inv, UNCHANGED transferVars
    PROVE  CounterInv'
BY DEF Inv, CounterInv, StatusMatchesCounter, CounterMatchesFlags, NamedFinite,
       NamedGroups, transferVars

LEMMA CreateDirectShipmentKeepsInv ==
    ASSUME Inv, NEW g \in Groups, NEW S \in SUBSET Places, CreateDirectShipment(g, S)
    PROVE  GroupInv' /\ CounterInv'
<1>1. SaveGroup(g, S, NoTransfer) /\ splitNumber' = splitNumber /\ UNCHANGED transferVars
  BY DEF CreateDirectShipment
<1>2. /\ sgStatus[g] = "none" /\ sgStatus'[g] = "draft"
      /\ sgTransfer[g] = NoTransfer /\ sgTransfer'[g] = NoTransfer
      /\ \A h \in Groups : h # g => /\ sgStatus'[h] = sgStatus[h]
                                    /\ sgTransfer'[h] = sgTransfer[h]
      /\ \A c \in Challans : c[1] # g => dcStatus'[c] = dcStatus[c]
      /\ \A c \in Challans : c[1] = g => dcStatus'[c] \in {"none", "draft"}
  BY <1>1, SaveGroupRows
<1>3. GroupIsUniform'
  BY <1>2 DEF Inv, GroupInv, GroupIsUniform, Challans
<1>4. RowsAgree'
  <2>1. \A t \in Transfers : NamedGroups(t)' = NamedGroups(t)
    BY <1>1 DEF NamedGroups, transferVars
  <2>2. ASSUME NEW d \in Destinations PROVE DestRowAgrees(d)'
    <3>1. /\ isSplit'[d] = isSplit[d] /\ splitGroup'[d] = splitGroup[d]
          /\ splitGroup[d] \in Groups \cup {NoGroup}
          /\ DestRowAgrees(d)
      BY <1>1 DEF transferVars, Inv, TypeOK, GroupInv, RowsAgree
    <3>2. QED
      BY <1>2, <3>1 DEF DestRowAgrees
  <2>3. ASSUME NEW h \in Groups PROVE GroupRowAgrees(h)'
    <3>1. GroupRowAgrees(h) /\ sgTransfer[h] \in Transfers \cup {NoTransfer}
      BY DEF Inv, TypeOK, GroupInv, RowsAgree
    <3>2. NamedGroups(sgTransfer[h])' = NamedGroups(sgTransfer'[h])
      BY <1>1 DEF NamedGroups, transferVars
    <3>3. QED
      BY <1>1, <1>2, <3>1, <3>2 DEF GroupRowAgrees
  <2>4. QED
    BY <2>2, <2>3 DEF RowsAgree
<1>5. ShippedOnce'
  <2> SUFFICES ASSUME NEW h \in Groups, NEW t \in Transfers, NEW p \in Places,
                      sgTransfer'[h] = t, Exists(<<h, p>>)'
               PROVE  isSplit'[<<t, p>>] /\ splitGroup'[<<t, p>>] = h
    BY DEF ShippedOnce
  <2>1. h # g
    BY <1>2, NamesAssumption
  <2>2. <<h, p>> \in Challans /\ <<h, p>>[1] = h
    BY DEF Challans
  <2>3. dcStatus'[<<h, p>>] = dcStatus[<<h, p>>]
    BY <1>2, <2>1, <2>2
  <2>4. Exists(<<h, p>>) /\ sgTransfer[h] = t
    BY <1>2, <2>1, <2>3 DEF Exists
  <2>5. isSplit[<<t, p>>] /\ splitGroup[<<t, p>>] = h
    BY <2>4 DEF Inv, GroupInv, ShippedOnce
  <2>6. QED
    BY <1>1, <2>5 DEF transferVars
<1>6. CounterInv'
  BY <1>1, CounterKept
<1>7. QED
  BY <1>3, <1>4, <1>5, <1>6 DEF GroupInv

\* Deleting a draft group, by either route.
LEMMA GroupDeleteKeepsInv ==
    ASSUME Inv, NEW g \in Groups, HandleShipmentGroupDelete(g)
    PROVE  GroupInv' /\ CounterInv'
<1>1. DeleteGroup(g) /\ sgStatus[g] = "draft" /\ UNCHANGED transferVars
  BY DEF HandleShipmentGroupDelete
<1>2. /\ sgStatus'[g] = "deleted" /\ sgTransfer'[g] = NoTransfer
      /\ splitNumber'[g] = 0
      /\ \A h \in Groups : h # g => /\ sgStatus'[h] = sgStatus[h]
                                    /\ sgTransfer'[h] = sgTransfer[h]
                                    /\ splitNumber'[h] = splitNumber[h]
      /\ \A c \in Challans : c[1] # g => dcStatus'[c] = dcStatus[c]
      /\ \A c \in Challans : c[1] = g => dcStatus'[c] \in {"none", "deleted"}
  BY <1>1, DeleteGroupRows
<1>3. GroupIsUniform'
  BY <1>2 DEF Inv, GroupInv, GroupIsUniform, Challans
<1>4. RowsAgree'
  <2>1. ASSUME NEW d \in Destinations PROVE DestRowAgrees(d)'
    <3>1. /\ isSplit'[d] = isSplit[d] /\ splitGroup'[d] = splitGroup[d]
          /\ splitGroup[d] \in Groups \cup {NoGroup}
          /\ DestRowAgrees(d)
      BY <1>1 DEF transferVars, Inv, TypeOK, GroupInv, RowsAgree
    <3>2. QED
      BY <1>2, <3>1 DEF DestRowAgrees
  <2>2. ASSUME NEW h \in Groups PROVE GroupRowAgrees(h)'
    <3>1. GroupRowAgrees(h) /\ sgTransfer[h] \in Transfers \cup {NoTransfer}
      BY DEF Inv, TypeOK, GroupInv, RowsAgree
    <3>2. NamedGroups(sgTransfer[h])' = NamedGroups(sgTransfer'[h])
      BY <1>1 DEF NamedGroups, transferVars
    <3>3. QED
      BY <1>2, <3>1, <3>2 DEF GroupRowAgrees
  <2>3. QED
    BY <2>1, <2>2 DEF RowsAgree
<1>5. ShippedOnce'
  <2> SUFFICES ASSUME NEW h \in Groups, NEW t \in Transfers, NEW p \in Places,
                      sgTransfer'[h] = t, Exists(<<h, p>>)'
               PROVE  isSplit'[<<t, p>>] /\ splitGroup'[<<t, p>>] = h
    BY DEF ShippedOnce
  <2>1. h # g
    BY <1>2, NamesAssumption
  <2>2. <<h, p>> \in Challans /\ <<h, p>>[1] = h
    BY DEF Challans
  <2>3. dcStatus'[<<h, p>>] = dcStatus[<<h, p>>]
    BY <1>2, <2>1, <2>2
  <2>4. Exists(<<h, p>>) /\ sgTransfer[h] = t
    BY <1>2, <2>1, <2>3 DEF Exists
  <2>5. isSplit[<<t, p>>] /\ splitGroup[<<t, p>>] = h
    BY <2>4 DEF Inv, GroupInv, ShippedOnce
  <2>6. QED
    BY <1>1, <2>5 DEF transferVars
<1>6. CounterInv'
  BY <1>1, CounterKept
<1>7. QED
  BY <1>3, <1>4, <1>5, <1>6 DEF GroupInv

LEMMA IssueKeepsInv ==
    ASSUME Inv, NEW g \in Groups, IssueShipmentGroup(g)
    PROVE  GroupInv' /\ CounterInv'
<1>1. /\ sgStatus[g] = "draft" /\ sgStatus'[g] = "issued"
      /\ \A h \in Groups : h # g => sgStatus'[h] = sgStatus[h]
      /\ sgTransfer' = sgTransfer /\ splitNumber' = splitNumber
      /\ UNCHANGED transferVars
  BY DEF IssueShipmentGroup, Inv, TypeOK
<1>2. \A c \in Challans : dcStatus'[c] =
        IF c[1] = g /\ Exists(c) THEN "issued" ELSE dcStatus[c]
  BY DEF IssueShipmentGroup, ChallansOf
<1>3. GroupIsUniform'
  <2> SUFFICES ASSUME NEW c \in Challans PROVE dcStatus'[c] \in {"none", sgStatus'[c[1]]}
    BY DEF GroupIsUniform
  <2>1. dcStatus[c] \in {"none", sgStatus[c[1]]} /\ c[1] \in Groups
    BY DEF Inv, GroupInv, GroupIsUniform, Challans
  <2>2. QED
    BY <1>1, <1>2, <2>1 DEF Exists
<1>4. RowsAgree'
  <2>1. ASSUME NEW d \in Destinations PROVE DestRowAgrees(d)'
    <3>1. /\ isSplit'[d] = isSplit[d] /\ splitGroup'[d] = splitGroup[d]
          /\ splitGroup[d] \in Groups \cup {NoGroup}
          /\ DestRowAgrees(d)
      BY <1>1 DEF transferVars, Inv, TypeOK, GroupInv, RowsAgree
    <3>2. QED
      BY <1>1, <3>1 DEF DestRowAgrees
  <2>2. ASSUME NEW h \in Groups PROVE GroupRowAgrees(h)'
    <3>1. GroupRowAgrees(h)
      BY DEF Inv, GroupInv, RowsAgree
    <3>2. NamedGroups(sgTransfer[h])' = NamedGroups(sgTransfer[h])
      BY <1>1 DEF NamedGroups, transferVars
    <3>3. QED
      BY <1>1, <3>1, <3>2 DEF GroupRowAgrees
  <2>3. QED
    BY <2>1, <2>2 DEF RowsAgree
<1>5. ShippedOnce'
  <2>1. \A h \in Groups, p \in Places : Exists(<<h, p>>)' => Exists(<<h, p>>)
    BY <1>2 DEF Exists, Challans
  <2>2. QED
    BY <1>1, <2>1 DEF Inv, GroupInv, ShippedOnce, transferVars
<1>6. CounterInv'
  BY <1>1, CounterKept
<1>7. QED
  BY <1>3, <1>4, <1>5, <1>6 DEF GroupInv

-----------------------------------------------------------------------------
\* Requests on a transfer that touch no group and no destination flag.
LEMMA GroupsKept ==
    ASSUME Inv, UNCHANGED <<groupVars, isSplit, splitGroup>>
    PROVE  GroupInv'
<1>1. \A t : NamedGroups(t)' = NamedGroups(t)
  BY DEF NamedGroups
<1>2. GroupIsUniform'
  BY DEF Inv, GroupInv, GroupIsUniform, groupVars
<1>3. RowsAgree'
  <2>1. \A d \in Destinations : DestRowAgrees(d)'
    BY DEF Inv, GroupInv, RowsAgree, DestRowAgrees, groupVars
  <2>2. ASSUME NEW h \in Groups PROVE GroupRowAgrees(h)'
    <3>1. GroupRowAgrees(h)
      BY DEF Inv, GroupInv, RowsAgree
    <3>2. NamedGroups(sgTransfer[h])' = NamedGroups(sgTransfer[h])
      BY DEF NamedGroups, groupVars
    <3>3. QED
      BY <3>1, <3>2 DEF GroupRowAgrees, groupVars
  <2>3. QED
    BY <2>1, <2>2 DEF RowsAgree
<1>4. ShippedOnce'
  BY DEF Inv, GroupInv, ShippedOnce, Exists, groupVars
<1>5. QED
  BY <1>2, <1>3, <1>4 DEF GroupInv

LEMMA TransferRequestsKeepInv ==
    ASSUME Inv, NEW t \in Transfers,
           \/ \E S \in SUBSET Places : CreateTransferDC(t, S)
           \/ IssueTransferDC(t)
           \/ DeleteTransferDC(t)
    PROVE  GroupInv' /\ CounterInv'
<1>1. UNCHANGED <<groupVars, isSplit, splitGroup>>
  BY DEF CreateTransferDC, IssueTransferDC, DeleteTransferDC
<1>2. GroupInv'
  BY <1>1, GroupsKept
<1>3. /\ tStatus[t] \in {"none", "draft"}
      /\ tStatus'[t] \in {"draft", "issued", "deleted"}
      /\ numSplit[t] = 0 /\ numSplit'[t] = 0
      /\ \A u \in Transfers : u # t => /\ tStatus'[u] = tStatus[u]
                                       /\ numSplit'[u] = numSplit[u]
                                       /\ numDest'[u] = numDest[u]
  BY DEF CreateTransferDC, IssueTransferDC, DeleteTransferDC, Inv, TypeOK,
         CounterInv, StatusMatchesCounter
<1>4. \A u : NamedGroups(u)' = NamedGroups(u)
  BY <1>1 DEF NamedGroups
<1>5. StatusMatchesCounter'
  BY <1>3 DEF Inv, CounterInv, StatusMatchesCounter
<1>6. CounterMatchesFlags' /\ NamedFinite'
  BY <1>3, <1>4 DEF Inv, CounterInv, CounterMatchesFlags, NamedFinite
<1>7. QED
  BY <1>2, <1>5, <1>6 DEF CounterInv

-----------------------------------------------------------------------------
\* A split adds its group to the groups that its transfer's destinations name,
\* and to no other transfer's.
LEMMA CreateSplitNames ==
    ASSUME Inv, NEW t \in Transfers, NEW S \in SUBSET Places, NEW g \in Groups,
           CreateSplit(t, S, g)
    PROVE  /\ g \notin NamedGroups(t)
           /\ NamedGroups(t)' = NamedGroups(t) \cup {g}
           /\ \A u \in Transfers : u # t => NamedGroups(u)' = NamedGroups(u)
<1>1. /\ \A d \in Destinations : isSplit'[d] <=> isSplit[d] \/ (d[1] = t /\ d[2] \in S)
      /\ \A d \in Destinations : splitGroup'[d] =
            IF d[1] = t /\ d[2] \in S THEN g ELSE splitGroup[d]
  BY DEF CreateSplit, Splittable, Inv, TypeOK
<1>2. \A u \in Transfers, p \in Places :
        /\ isSplit'[<<u, p>>] <=> isSplit[<<u, p>>] \/ (u = t /\ p \in S)
        /\ splitGroup'[<<u, p>>] = IF u = t /\ p \in S THEN g ELSE splitGroup[<<u, p>>]
  BY <1>1 DEF Destinations
<1>3. \A p \in S : ~isSplit[<<t, p>>]
  BY DEF CreateSplit, Splittable
<1>4. \E p \in Places : p \in S
  BY DEF CreateSplit, Splittable
<1>5. sgStatus[g] = "none"
  BY DEF CreateSplit, Splittable, SaveGroup
<1>6. g \notin NamedGroups(t)
  BY <1>5 DEF NamedGroups, Inv, GroupInv, RowsAgree, DestRowAgrees, Destinations
<1>7. NamedGroups(t)' = NamedGroups(t) \cup {g}
  <2>1. NamedGroups(t)' = {splitGroup'[<<t, p>>] : p \in {q \in Places : isSplit'[<<t, q>>]}}
    BY DEF NamedGroups
  <2>2. \A x \in NamedGroups(t)' : x \in NamedGroups(t) \cup {g}
    BY <1>2, <2>1 DEF NamedGroups
  <2>3. \A x \in NamedGroups(t) : x \in NamedGroups(t)'
    BY <1>2, <1>3, <2>1 DEF NamedGroups
  <2>4. g \in NamedGroups(t)'
    BY <1>2, <1>4, <2>1
  <2>5. QED
    BY <2>2, <2>3, <2>4
<1>8. ASSUME NEW u \in Transfers, u # t PROVE NamedGroups(u)' = NamedGroups(u)
  BY <1>2, <1>8 DEF NamedGroups
<1>9. QED
  BY <1>6, <1>7, <1>8

LEMMA CreateSplitKeepsInv ==
    ASSUME Inv, NEW t \in Transfers, NEW S \in SUBSET Places, NEW g \in Groups,
           CreateSplit(t, S, g)
    PROVE  GroupInv' /\ CounterInv'
<1>1. /\ sgStatus[g] = "none" /\ sgStatus'[g] = "draft"
      /\ sgTransfer[g] = NoTransfer /\ sgTransfer'[g] = t
      /\ \A h \in Groups : h # g => /\ sgStatus'[h] = sgStatus[h]
                                    /\ sgTransfer'[h] = sgTransfer[h]
      /\ \A c \in Challans : c[1] # g => dcStatus'[c] = dcStatus[c]
      /\ \A c \in Challans : c[1] = g => dcStatus'[c] \in {"none", "draft"}
      /\ \A p \in Places : Exists(<<g, p>>)' => p \in S
  BY SaveGroupRows DEF CreateSplit, Splittable
<1>2. /\ g \notin NamedGroups(t)
      /\ NamedGroups(t)' = NamedGroups(t) \cup {g}
      /\ \A u \in Transfers : u # t => NamedGroups(u)' = NamedGroups(u)
  BY CreateSplitNames
<1>3. /\ numSplit[t] \in Nat /\ numSplit'[t] = numSplit[t] + 1
      /\ tStatus'[t] = StatusAfterSplit(t, numSplit[t] + 1)
      /\ numDest' = numDest /\ numDest[t] \in Nat
      /\ \A u \in Transfers : u # t => /\ tStatus'[u] = tStatus[u]
                                       /\ numSplit'[u] = numSplit[u]
      /\ splitNumber'[g] # 0
      /\ \A h \in Groups : h # g => splitNumber'[h] = splitNumber[h]
  BY DEF CreateSplit, Splittable, Inv, TypeOK
<1>4. \A u \in Transfers, p \in Places :
        /\ isSplit'[<<u, p>>] <=> isSplit[<<u, p>>] \/ (u = t /\ p \in S)
        /\ splitGroup'[<<u, p>>] = IF u = t /\ p \in S THEN g ELSE splitGroup[<<u, p>>]
        /\ u = t /\ p \in S => ~isSplit[<<u, p>>]
  BY DEF CreateSplit, Splittable, Inv, TypeOK, Destinations
<1>5. GroupIsUniform'
  BY <1>1 DEF Inv, GroupInv, GroupIsUniform, Challans
<1>6. RowsAgree'
  <2>1. ASSUME NEW d \in Destinations PROVE DestRowAgrees(d)'
    <3>1. PICK u \in Transfers, p \in Places : d = <<u, p>>
      BY DEF Destinations
    <3>2. DestRowAgrees(d) /\ splitGroup[d] \in Groups \cup {NoGroup}
      BY DEF Inv, TypeOK, GroupInv, RowsAgree
    <3>3. QED
      BY <1>1, <1>4, <3>1, <3>2, NamesAssumption DEF DestRowAgrees
  <2>2. ASSUME NEW h \in Groups PROVE GroupRowAgrees(h)'
    <3>1. GroupRowAgrees(h) /\ sgTransfer[h] \in Transfers \cup {NoTransfer}
      BY DEF Inv, TypeOK, GroupInv, RowsAgree
    <3>2. CASE h = g
      <4>1. NamedGroups(sgTransfer[h])' = NamedGroups(t)'
        <5>1. sgTransfer'[h] = t
          BY <1>1, <3>2
        <5>2. QED
          BY <5>1 DEF NamedGroups
      <4>2. QED
        BY <1>1, <1>2, <1>3, <3>2, <4>1, NamesAssumption DEF GroupRowAgrees
    <3>3. CASE h # g /\ sgTransfer[h] = NoTransfer
      BY <1>1, <1>3, <3>1, <3>3 DEF GroupRowAgrees
    <3>4. CASE h # g /\ sgTransfer[h] \in Transfers
      <4>1. NamedGroups(sgTransfer[h]) \subseteq NamedGroups(sgTransfer[h])'
        <5>1. sgTransfer'[h] = sgTransfer[h]
          BY <1>1, <3>4
        <5> DEFINE u == sgTransfer[h]
        <5>2. \A x \in NamedGroups(u) : x \in {splitGroup'[<<u, p>>] : p \in {q \in Places : isSplit'[<<u, q>>]}}
          BY <1>4, <3>4 DEF NamedGroups
        <5>3. QED
          BY <5>1, <5>2 DEF NamedGroups
      <4>2. QED
        BY <1>1, <1>3, <3>1, <3>4, <4>1 DEF GroupRowAgrees
    <3>5. QED
      BY <3>1, <3>2, <3>3, <3>4
  <2>3. QED
    BY <2>1, <2>2 DEF RowsAgree
<1>7. ShippedOnce'
  <2> SUFFICES ASSUME NEW h \in Groups, NEW u \in Transfers, NEW p \in Places,
                      sgTransfer'[h] = u, Exists(<<h, p>>)'
               PROVE  isSplit'[<<u, p>>] /\ splitGroup'[<<u, p>>] = h
    BY DEF ShippedOnce
  <2>1. CASE h = g
    BY <1>1, <1>4, <2>1
  <2>2. CASE h # g
    <3>1. <<h, p>> \in Challans /\ <<h, p>>[1] = h
      BY DEF Challans
    <3>2. dcStatus'[<<h, p>>] = dcStatus[<<h, p>>]
      BY <1>1, <2>2, <3>1
    <3>3. Exists(<<h, p>>) /\ sgTransfer[h] = u
      BY <1>1, <2>2, <3>2 DEF Exists
    <3>4. isSplit[<<u, p>>] /\ splitGroup[<<u, p>>] = h
      BY <3>3 DEF Inv, GroupInv, ShippedOnce
    <3>5. QED
      BY <1>4, <3>4
  <2>3. QED
    BY <2>1, <2>2
<1>8. StatusMatchesCounter'
  BY <1>3 DEF StatusAfterSplit, Inv, CounterInv, StatusMatchesCounter
<1>9. NamedFinite' /\ CounterMatchesFlags'
  <2>1. IsFiniteSet(NamedGroups(t)) /\ numSplit[t] = Cardinality(NamedGroups(t))
    BY DEF Inv, CounterInv, NamedFinite, CounterMatchesFlags
  <2>2. /\ IsFiniteSet(NamedGroups(t)')
        /\ Cardinality(NamedGroups(t)') = Cardinality(NamedGroups(t)) + 1
    BY <1>2, <2>1, FS_AddElement
  <2>3. QED
    BY <1>2, <1>3, <2>1, <2>2 DEF Inv, CounterInv, NamedFinite, CounterMatchesFlags
<1>10. QED
  BY <1>5, <1>6, <1>7, <1>8, <1>9 DEF GroupInv, CounterInv

-----------------------------------------------------------------------------
\* Undo takes its group out of the groups its transfer's destinations name.
LEMMA UndoSplitNames ==
    ASSUME Inv, NEW g \in Groups, UndoSplit(g), NEW t \in Transfers, t = sgTransfer[g]
    PROVE  /\ g \in NamedGroups(t)
           /\ NamedGroups(t)' = NamedGroups(t) \ {g}
           /\ \A u \in Transfers : u # t => NamedGroups(u)' = NamedGroups(u)
           /\ \A u \in Transfers, p \in Places :
                /\ isSplit'[<<u, p>>] <=> isSplit[<<u, p>>] /\ ~(u = t /\ splitGroup[<<u, p>>] = g)
                /\ splitGroup'[<<u, p>>] = IF u = t /\ splitGroup[<<u, p>>] = g
                                           THEN NoGroup ELSE splitGroup[<<u, p>>]
<1>1. g \in NamedGroups(t)
  BY NamesAssumption DEF Inv, GroupInv, RowsAgree, GroupRowAgrees
<1>2. \A u \in Transfers, p \in Places :
        /\ isSplit'[<<u, p>>] <=> isSplit[<<u, p>>] /\ ~(u = t /\ splitGroup[<<u, p>>] = g)
        /\ splitGroup'[<<u, p>>] = IF u = t /\ splitGroup[<<u, p>>] = g
                                   THEN NoGroup ELSE splitGroup[<<u, p>>]
  BY DEF UndoSplit, UndoneCount, UndoneDests, Inv, TypeOK, Destinations
<1>3. \A u \in Transfers, p \in Places : isSplit[<<u, p>>] \in BOOLEAN
  BY DEF Inv, TypeOK, Destinations
<1>4. NamedGroups(t)' = NamedGroups(t) \ {g}
  <2>1. NamedGroups(t)' = {splitGroup'[<<t, p>>] : p \in {q \in Places : isSplit'[<<t, q>>]}}
    BY DEF NamedGroups
  <2>2. ASSUME NEW x \in NamedGroups(t)' PROVE x \in NamedGroups(t) /\ x # g
    <3>1. PICK p \in Places : isSplit'[<<t, p>>] /\ x = splitGroup'[<<t, p>>]
      BY <2>1, <2>2
    <3>2. isSplit[<<t, p>>] /\ splitGroup[<<t, p>>] # g /\ x = splitGroup[<<t, p>>]
      BY <1>2, <3>1
    <3>3. QED
      BY <3>2 DEF NamedGroups
  <2>3. ASSUME NEW x \in NamedGroups(t), x # g PROVE x \in NamedGroups(t)'
    <3>1. PICK p \in Places : isSplit[<<t, p>>] /\ x = splitGroup[<<t, p>>]
      BY DEF NamedGroups
    <3>2. isSplit'[<<t, p>>] /\ x = splitGroup'[<<t, p>>]
      BY <1>2, <2>3, <3>1
    <3>3. QED
      BY <2>1, <3>2
  <2>4. QED
    BY <2>2, <2>3
<1>5. ASSUME NEW u \in Transfers, u # t PROVE NamedGroups(u)' = NamedGroups(u)
  BY <1>2, <1>3, <1>5 DEF NamedGroups
<1>6. QED
  BY <1>1, <1>2, <1>4, <1>5

LEMMA UndoSplitKeepsInv ==
    ASSUME Inv, NEW g \in Groups, UndoSplit(g)
    PROVE  GroupInv' /\ CounterInv'
<1>1. /\ sgTransfer[g] \in Transfers /\ sgStatus[g] = "draft" /\ DeleteGroup(g)
  BY DEF UndoSplit, UndoneCount, UndoneDests, Inv, TypeOK, GroupInv, RowsAgree, GroupRowAgrees
<1>2. PICK t \in Transfers : t = sgTransfer[g]
  BY <1>1
<1>3. /\ g \in NamedGroups(t)
      /\ NamedGroups(t)' = NamedGroups(t) \ {g}
      /\ \A u \in Transfers : u # t => NamedGroups(u)' = NamedGroups(u)
      /\ \A u \in Transfers, p \in Places :
           /\ isSplit'[<<u, p>>] <=> isSplit[<<u, p>>] /\ ~(u = t /\ splitGroup[<<u, p>>] = g)
           /\ splitGroup'[<<u, p>>] = IF u = t /\ splitGroup[<<u, p>>] = g
                                      THEN NoGroup ELSE splitGroup[<<u, p>>]
  BY <1>2, UndoSplitNames
<1>4. /\ sgStatus'[g] = "deleted" /\ sgTransfer'[g] = NoTransfer
      /\ splitNumber'[g] = 0
      /\ \A h \in Groups : h # g => /\ sgStatus'[h] = sgStatus[h]
                                    /\ sgTransfer'[h] = sgTransfer[h]
                                    /\ splitNumber'[h] = splitNumber[h]
      /\ \A c \in Challans : c[1] # g => dcStatus'[c] = dcStatus[c]
      /\ \A c \in Challans : c[1] = g => dcStatus'[c] \in {"none", "deleted"}
  BY <1>1, DeleteGroupRows
<1>5. IsFiniteSet(NamedGroups(t)) /\ numSplit[t] = Cardinality(NamedGroups(t))
  BY DEF Inv, CounterInv, NamedFinite, CounterMatchesFlags
<1>6. numSplit[t] \in Nat /\ numSplit[t] > 0
  BY <1>3, <1>5, FS_EmptySet, FS_CardinalityType
<1>7. /\ numSplit'[t] = numSplit[t] - 1
      /\ tStatus'[t] = StatusAfterUndo(t, numSplit[t] - 1)
      /\ numDest' = numDest /\ numDest[t] \in Nat
      /\ \A u \in Transfers : u # t => /\ tStatus'[u] = tStatus[u]
                                       /\ numSplit'[u] = numSplit[u]
  BY <1>2, <1>6 DEF UndoSplit, UndoneCount, UndoneDests, Inv, TypeOK
<1>8. GroupIsUniform'
  BY <1>4 DEF Inv, GroupInv, GroupIsUniform, Challans
<1>9. RowsAgree'
  <2>1. ASSUME NEW d \in Destinations PROVE DestRowAgrees(d)'
    <3>1. PICK u \in Transfers, p \in Places : d = <<u, p>>
      BY DEF Destinations
    <3>2. DestRowAgrees(d) /\ splitGroup[d] \in Groups \cup {NoGroup}
      BY DEF Inv, TypeOK, GroupInv, RowsAgree
    <3>3. QED
      BY <1>3, <1>4, <3>1, <3>2, NamesAssumption DEF DestRowAgrees
  <2>2. ASSUME NEW h \in Groups PROVE GroupRowAgrees(h)'
    <3>1. GroupRowAgrees(h) /\ sgTransfer[h] \in Transfers \cup {NoTransfer}
      BY DEF Inv, TypeOK, GroupInv, RowsAgree
    <3>2. CASE h = g
      BY <1>4, <3>2 DEF GroupRowAgrees
    <3>3. CASE h # g /\ sgTransfer[h] = NoTransfer
      BY <1>4, <3>1, <3>3 DEF GroupRowAgrees
    <3>4. CASE h # g /\ sgTransfer[h] \in Transfers
      <4>1. sgTransfer'[h] = sgTransfer[h]
        BY <1>4, <3>4
      <4>2. NamedGroups(sgTransfer[h])' = {splitGroup'[<<sgTransfer[h], p>>] :
                p \in {q \in Places : isSplit'[<<sgTransfer[h], q>>]}}
        BY <4>1 DEF NamedGroups
      <4>3. ASSUME h \in NamedGroups(sgTransfer[h]) PROVE h \in NamedGroups(sgTransfer[h])'
        <5>1. PICK p \in Places : /\ isSplit[<<sgTransfer[h], p>>]
                                  /\ splitGroup[<<sgTransfer[h], p>>] = h
          BY <4>3 DEF NamedGroups
        <5>2. isSplit'[<<sgTransfer[h], p>>] /\ splitGroup'[<<sgTransfer[h], p>>] = h
          BY <1>3, <3>4, <5>1
        <5>3. QED
          BY <4>2, <5>2
      <4>4. QED
        BY <1>4, <3>1, <3>4, <4>1, <4>3 DEF GroupRowAgrees
    <3>5. QED
      BY <3>1, <3>2, <3>3, <3>4
  <2>3. QED
    BY <2>1, <2>2 DEF RowsAgree
<1>10. ShippedOnce'
  <2> SUFFICES ASSUME NEW h \in Groups, NEW u \in Transfers, NEW p \in Places,
                      sgTransfer'[h] = u, Exists(<<h, p>>)'
               PROVE  isSplit'[<<u, p>>] /\ splitGroup'[<<u, p>>] = h
    BY DEF ShippedOnce
  <2>1. h # g
    BY <1>4, NamesAssumption
  <2>2. <<h, p>> \in Challans /\ <<h, p>>[1] = h
    BY DEF Challans
  <2>3. dcStatus'[<<h, p>>] = dcStatus[<<h, p>>]
    BY <1>4, <2>1, <2>2
  <2>4. Exists(<<h, p>>) /\ sgTransfer[h] = u
    BY <1>4, <2>1, <2>3 DEF Exists
  <2>5. isSplit[<<u, p>>] /\ splitGroup[<<u, p>>] = h
    BY <2>4 DEF Inv, GroupInv, ShippedOnce
  <2>6. QED
    BY <1>3, <2>1, <2>5
<1>11. StatusMatchesCounter'
  BY <1>6, <1>7 DEF StatusAfterUndo, StatusAfterSplit, Inv, CounterInv, StatusMatchesCounter
<1>12. NamedFinite' /\ CounterMatchesFlags'
  <2>1. /\ IsFiniteSet(NamedGroups(t)')
        /\ Cardinality(NamedGroups(t)') = Cardinality(NamedGroups(t)) - 1
    BY <1>3, <1>5, FS_RemoveElement
  <2>2. QED
    BY <1>3, <1>5, <1>7, <2>1 DEF Inv, CounterInv, NamedFinite, CounterMatchesFlags
<1>13. QED
  BY <1>8, <1>9, <1>10, <1>11, <1>12 DEF GroupInv, CounterInv

-----------------------------------------------------------------------------
LEMMA InitInv == Init => Inv
<1> SUFFICES ASSUME Init PROVE Inv
  OBVIOUS
<1>1. TypeOK
  BY DEF Init, TypeOK, RowStatus, TransferStatus
<1>2. \A t \in Transfers : NamedGroups(t) = {}
  BY DEF Init, NamedGroups, Destinations
<1>3. GroupIsUniform /\ ShippedOnce
  BY NamesAssumption DEF Init, GroupIsUniform, ShippedOnce, Challans
<1>4. RowsAgree
  BY DEF Init, RowsAgree, DestRowAgrees, GroupRowAgrees
<1>5. StatusMatchesCounter
  BY DEF Init, StatusMatchesCounter
<1>6. NamedFinite /\ CounterMatchesFlags
  BY <1>2, FS_EmptySet DEF Init, NamedFinite, CounterMatchesFlags
<1>7. QED
  BY <1>1, <1>3, <1>4, <1>5, <1>6 DEF Inv, GroupInv, CounterInv

LEMMA StutterKeepsInv ==
    ASSUME Inv, UNCHANGED vars
    PROVE  GroupInv' /\ CounterInv'
<1>1. UNCHANGED <<groupVars, isSplit, splitGroup>> /\ UNCHANGED transferVars
  BY DEF vars, transferVars
<1>2. QED
  BY <1>1, GroupsKept, CounterKept

LEMMA Invariance == Spec => []Inv
<1>1. Inv /\ TypeOK' /\ [Next]_vars => Inv'
  <2> SUFFICES ASSUME Inv, TypeOK', [Next]_vars PROVE GroupInv' /\ CounterInv'
    BY DEF Inv
  <2>1. QED
    BY StepKinds, CreateDirectShipmentKeepsInv, TransferRequestsKeepInv, IssueKeepsInv,
       UndoSplitKeepsInv, GroupDeleteKeepsInv, CreateSplitKeepsInv, StutterKeepsInv
<1>2. QED
  BY <1>1, InitInv, TypeCorrect, PTL DEF Spec

\* A group and its challans always have one status.
THEOREM GroupsAreUniform == Spec => []GroupIsUniform
<1>1. Inv => GroupIsUniform
  BY DEF Inv, GroupInv
<1>2. QED
  BY <1>1, Invariance, PTL

\* No destination of a transfer is ever shipped by two groups.
THEOREM DestinationsShippedOnce == Spec => []ShippedOnce
<1>1. Inv => ShippedOnce
  BY DEF Inv, GroupInv
<1>2. QED
  BY <1>1, Invariance, PTL

\* Destination flags, groups and split rows always agree.
THEOREM RowsAlwaysAgree == Spec => []RowsAgree
<1>1. Inv => RowsAgree
  BY DEF Inv, GroupInv
<1>2. QED
  BY <1>1, Invariance, PTL

\* num_split never drifts from the destination flags, and the parent's status
\* never drifts from num_split.
THEOREM CountersAreRight == Spec => [](CounterMatchesFlags /\ StatusMatchesCounter)
<1>1. Inv => CounterMatchesFlags /\ StatusMatchesCounter
  BY DEF Inv, CounterInv
<1>2. QED
  BY <1>1, Invariance, PTL

\* A transfer with a live split never looks unsplit.
THEOREM LiveSplitsHaveParents == Spec => []LiveSplitHasParent
<1>1. Inv => LiveSplitHasParent
  <2> SUFFICES ASSUME Inv, NEW g \in Groups, NEW t \in Transfers, sgTransfer[g] = t
               PROVE  tStatus[t] \in {"splitting", "split"}
    BY DEF LiveSplitHasParent
  <2>1. g \in NamedGroups(t)
    BY NamesAssumption DEF Inv, GroupInv, RowsAgree, GroupRowAgrees
  <2>2. numSplit[t] # 0
    BY <2>1, FS_EmptySet DEF Inv, CounterInv, NamedFinite, CounterMatchesFlags
  <2>3. QED
    BY <2>2 DEF Inv, TypeOK, TransferStatus, CounterInv, StatusMatchesCounter
<1>2. QED
  BY <1>1, Invariance, PTL

\* Issuing is final in every step: the group of an issued challan is issued,
\* so no undo, deletion or new group can touch its rows.
THEOREM IssuedForever == Spec => IssuedIsFinal
<1> DEFINE Final ==
      /\ \A c \in Challans : dcStatus[c] = "issued" =>
            /\ dcStatus'[c] = "issued"
            /\ sgTransfer'[c[1]] = sgTransfer[c[1]]
      /\ \A t \in Transfers : tStatus[t] \in {"issued", "splitting", "split"} =>
            tStatus'[t] \in {"issued", "splitting", "split"}
<1>1. Inv /\ [Next]_vars => [Final]_vars
  <2> SUFFICES ASSUME Inv, [Next]_vars PROVE Final
    OBVIOUS
  <2>0. \A c \in Challans : dcStatus[c] = "issued" =>
            c[1] \in Groups /\ sgStatus[c[1]] = "issued"
    BY DEF Inv, GroupInv, GroupIsUniform, Challans
  <2>1. ASSUME NEW g \in Groups, NEW S \in SUBSET Places,
               NEW t \in Transfers \cup {NoTransfer}, SaveGroup(g, S, t)
        PROVE  \A c \in Challans : dcStatus[c] = "issued" =>
                  /\ dcStatus'[c] = "issued"
                  /\ sgTransfer'[c[1]] = sgTransfer[c[1]]
    BY <2>0, <2>1, SaveGroupRows
  <2>2. ASSUME NEW g \in Groups, sgStatus[g] = "draft", DeleteGroup(g)
        PROVE  \A c \in Challans : dcStatus[c] = "issued" =>
                  /\ dcStatus'[c] = "issued"
                  /\ sgTransfer'[c[1]] = sgTransfer[c[1]]
    BY <2>0, <2>2, DeleteGroupRows
  <2>3. ASSUME NEW g \in Groups, NEW S \in SUBSET Places, CreateDirectShipment(g, S)
        PROVE  Final
    BY <2>1, <2>3 DEF CreateDirectShipment, transferVars
  <2>4. ASSUME NEW t \in Transfers, NEW S \in SUBSET Places, CreateTransferDC(t, S)
        PROVE  Final
    BY <2>4 DEF CreateTransferDC, groupVars, Inv, TypeOK
  <2>5. ASSUME NEW g \in Groups, IssueShipmentGroup(g)
        PROVE  Final
    BY <2>5 DEF IssueShipmentGroup, transferVars
  <2>6. ASSUME NEW g \in Groups, UndoSplit(g)
        PROVE  Final
    <3>1. /\ sgStatus[g] = "draft" /\ DeleteGroup(g)
          /\ \E x \in {"issued", "split", "splitting"} :
                tStatus' = [tStatus EXCEPT ![sgTransfer[g]] = x]
      BY <2>6 DEF UndoSplit, UndoneCount, UndoneDests, StatusAfterUndo, StatusAfterSplit
    <3>2. QED
      BY <2>2, <3>1 DEF Inv, TypeOK
  <2>7. ASSUME NEW g \in Groups, HandleShipmentGroupDelete(g)
        PROVE  Final
    BY <2>2, <2>7 DEF HandleShipmentGroupDelete, transferVars
  <2>8. ASSUME NEW t \in Transfers, IssueTransferDC(t) \/ DeleteTransferDC(t)
        PROVE  Final
    BY <2>8 DEF IssueTransferDC, DeleteTransferDC, groupVars, Inv, TypeOK
  <2>9. ASSUME NEW t \in Transfers, NEW S \in SUBSET Places, NEW g \in Groups,
               CreateSplit(t, S, g)
        PROVE  Final
    <3>1. /\ SaveGroup(g, S, t)
          /\ \E x \in {"split", "splitting"} : tStatus' = [tStatus EXCEPT ![t] = x]
      BY <2>9 DEF CreateSplit, Splittable, StatusAfterSplit
    <3>2. QED
      BY <2>1, <3>1 DEF Inv, TypeOK
  <2>10. CASE UNCHANGED vars
    BY <2>10 DEF vars, groupVars, transferVars
  <2>11. QED
    BY StepKinds, <2>3, <2>4, <2>5, <2>6, <2>7, <2>8, <2>9, <2>10
<1>2. QED
  BY <1>1, Invariance, PTL DEF Spec, IssuedIsFinal

-----------------------------------------------------------------------------
(* The lifecycle implements ShipmentContract.                                *)

\* Every group that exists has its transit challan: without it GroupState
\* could not tell a draft group from a deleted one.
HasTransit ==
    \A g \in Groups : sgStatus[g] \in {"draft", "issued"} =>
        dcStatus[<<g, Transit>>] = sgStatus[g]

LEMMA TransitAlwaysThere == Spec => []HasTransit
<1>0. \A g \in Groups : <<g, Transit>> \in Challans /\ <<g, Transit>>[1] = g
                          /\ <<g, Transit>>[2] = Transit
  BY DEF Challans
<1>1. Init => HasTransit
  BY <1>0 DEF Init, HasTransit
<1>2. Inv /\ HasTransit /\ [Next]_vars => HasTransit'
  <2> SUFFICES ASSUME Inv, HasTransit, [Next]_vars PROVE HasTransit'
    OBVIOUS
  <2>1. ASSUME NEW g \in Groups, NEW S \in SUBSET Places,
               NEW t \in Transfers \cup {NoTransfer}, SaveGroup(g, S, t)
        PROVE  HasTransit'
    BY <1>0, <2>1 DEF SaveGroup, HasTransit, Inv, TypeOK
  <2>2. ASSUME NEW g \in Groups, sgStatus[g] = "draft", DeleteGroup(g)
        PROVE  HasTransit'
    BY <1>0, <2>2, DeleteGroupRows DEF HasTransit
  <2>3. ASSUME NEW g \in Groups, IssueShipmentGroup(g)
        PROVE  HasTransit'
    BY <1>0, <2>3 DEF IssueShipmentGroup, ChallansOf, Exists, HasTransit, Inv, TypeOK
  <2>4. CASE UNCHANGED groupVars
    BY <2>4 DEF groupVars, HasTransit
  <2>5. QED
    BY StepKinds, <2>1, <2>2, <2>3, <2>4
       DEF CreateDirectShipment, CreateTransferDC, UndoSplit, UndoneCount, UndoneDests, HandleShipmentGroupDelete,
           IssueTransferDC, DeleteTransferDC, CreateSplit, Splittable, vars
<1>3. QED
  BY <1>1, <1>2, Invariance, PTL DEF Spec

\* The contract's view of a group is the status of its shipment_groups row.
LEMMA GroupStateIsStatus ==
    ASSUME Inv, HasTransit, NEW g \in Groups
    PROVE  GroupState(g) = IF sgStatus[g] = "deleted" THEN "gone" ELSE sgStatus[g]
<1>1. \A c \in Challans : c[1] = g => dcStatus[c] \in {"none", sgStatus[g]}
  BY DEF Inv, GroupInv, GroupIsUniform
<1>2. sgStatus[g] \in {"none", "draft", "issued", "deleted"}
  BY DEF Inv, TypeOK, RowStatus
<1> DEFINE states == {dcStatus[c] : c \in ChallansOf(g)}
<1>3. CASE sgStatus[g] \in {"draft", "issued"}
  <2>1. <<g, Transit>> \in ChallansOf(g) /\ dcStatus[<<g, Transit>>] = sgStatus[g]
    BY <1>3 DEF HasTransit, ChallansOf, Challans, Exists
  <2>2. \A c \in ChallansOf(g) : dcStatus[c] = sgStatus[g]
    BY <1>1 DEF ChallansOf, Exists
  <2>3. states = {sgStatus[g]}
    BY <2>1, <2>2
  <2> HIDE DEF states
  <2>4. GroupState(g) = CASE states = {"draft"}  -> "draft"
                          [] states = {"issued"} -> "issued"
                          [] states = {} -> IF sgStatus[g] = "none" THEN "none" ELSE "gone"
                          [] OTHER -> "mixed"
    BY DEF GroupState, states
  <2>5. CASE sgStatus[g] = "draft"
    <3>1. states = {"draft"} /\ states # {"issued"} /\ states # {}
      BY <2>3, <2>5
    <3>2. QED
      BY <2>4, <2>5, <3>1
  <2>6. CASE sgStatus[g] = "issued"
    <3>1. states = {"issued"} /\ states # {"draft"} /\ states # {}
      BY <2>3, <2>6
    <3>2. QED
      BY <2>4, <2>6, <3>1
  <2>7. QED
    BY <1>3, <2>5, <2>6
<1>4. CASE sgStatus[g] \in {"none", "deleted"}
  <2>1. ChallansOf(g) = {}
    BY <1>1, <1>4 DEF ChallansOf, Exists
  <2>2. states = {} /\ states # {"draft"} /\ states # {"issued"}
    BY <2>1
  <2> HIDE DEF states
  <2>3. GroupState(g) = CASE states = {"draft"}  -> "draft"
                          [] states = {"issued"} -> "issued"
                          [] states = {} -> IF sgStatus[g] = "none" THEN "none" ELSE "gone"
                          [] OTHER -> "mixed"
    BY DEF GroupState, states
  <2>4. QED
    BY <1>4, <2>2, <2>3
<1>5. QED
  BY <1>2, <1>3, <1>4

\* The three functions the contract is told: groups, covers and plans.
GroupView == [g \in Groups |-> GroupState(g)]
CoverView == [g \in Groups |-> {p \in Places : Exists(<<g, p>>)}]
PlanView == [t \in Transfers |-> PlanState(t)]

StatusView(s) == IF s = "deleted" THEN "gone" ELSE s
StepInv == Inv /\ HasTransit
GroupViewIsStatus == GroupView = [g \in Groups |-> StatusView(sgStatus[g])]

LEMMA GroupViewRead == StepInv => GroupViewIsStatus
BY GroupStateIsStatus DEF StepInv, GroupViewIsStatus, GroupView, StatusView

\* A saved group appears as a draft that covers just its places.
LEMMA SaveGroupView ==
    ASSUME StepInv, StepInv', NEW g \in Groups, NEW S \in SUBSET Places,
           NEW t \in Transfers \cup {NoTransfer}, SaveGroup(g, S, t)
    PROVE  /\ GroupView[g] = "none"
           /\ GroupView' = [GroupView EXCEPT ![g] = "draft"]
           /\ CoverView' = [CoverView EXCEPT ![g] = S]
<1>1. GroupViewIsStatus /\ GroupViewIsStatus'
  BY GroupViewRead, PTL
<1>2. sgStatus[g] = "none" /\ sgStatus' = [sgStatus EXCEPT ![g] = "draft"]
  BY DEF SaveGroup
<1>3. GroupView[g] = "none" /\ GroupView' = [GroupView EXCEPT ![g] = "draft"]
  BY <1>1, <1>2 DEF GroupViewIsStatus, StatusView, StepInv, Inv, TypeOK
<1>4. ASSUME NEW h \in Groups, h # g
      PROVE  {p \in Places : Exists(<<h, p>>)'} = {p \in Places : Exists(<<h, p>>)}
  <2>1. \A p \in Places : dcStatus'[<<h, p>>] = dcStatus[<<h, p>>]
    BY <1>4 DEF SaveGroup, Challans
  <2>2. QED
    BY <2>1 DEF Exists
<1>5. {p \in Places : Exists(<<g, p>>)'} = S
  <2>1. \A p \in Places : Exists(<<g, p>>)' => p \in S
    BY SaveGroupRows DEF StepInv
  <2>2. \A p \in S : dcStatus'[<<g, p>>] = "draft"
    BY DEF SaveGroup, Challans
  <2>3. QED
    BY <2>1, <2>2 DEF Exists
<1>6. CoverView' = [CoverView EXCEPT ![g] = S]
  BY <1>4, <1>5 DEF CoverView
<1>7. QED
  BY <1>3, <1>6

\* A deleted draft group is gone and covers nothing.
LEMMA DeleteGroupView ==
    ASSUME StepInv, StepInv', NEW g \in Groups, sgStatus[g] = "draft", DeleteGroup(g)
    PROVE  /\ GroupView[g] = "draft"
           /\ GroupView' = [GroupView EXCEPT ![g] = "gone"]
           /\ CoverView' = [CoverView EXCEPT ![g] = {}]
<1>1. GroupViewIsStatus /\ GroupViewIsStatus'
  BY GroupViewRead, PTL
<1>2. GroupView[g] = "draft" /\ GroupView' = [GroupView EXCEPT ![g] = "gone"]
  BY <1>1 DEF DeleteGroup, GroupViewIsStatus, StatusView, StepInv, Inv, TypeOK
<1>3. \A c \in Challans : c[1] # g => dcStatus'[c] = dcStatus[c]
  BY DeleteGroupRows DEF StepInv
<1>4. \A c \in Challans : c[1] = g => dcStatus'[c] \in {"none", "deleted"}
  BY DeleteGroupRows DEF StepInv
<1>5. ASSUME NEW h \in Groups, h # g
      PROVE  {p \in Places : Exists(<<h, p>>)'} = {p \in Places : Exists(<<h, p>>)}
  BY <1>3, <1>5 DEF Exists, Challans
<1>6. {p \in Places : Exists(<<g, p>>)'} = {}
  BY <1>4 DEF Exists, Challans
<1>7. CoverView' = [CoverView EXCEPT ![g] = {}]
  BY <1>5, <1>6 DEF CoverView
<1>8. QED
  BY <1>2, <1>7

\* An issued group covers what it covered as a draft.
LEMMA IssueView ==
    ASSUME StepInv, StepInv', NEW g \in Groups, IssueShipmentGroup(g)
    PROVE  /\ GroupView[g] = "draft"
           /\ GroupView' = [GroupView EXCEPT ![g] = "issued"]
           /\ CoverView' = CoverView
<1>1. GroupViewIsStatus /\ GroupViewIsStatus'
  BY GroupViewRead, PTL
<1>2. GroupView[g] = "draft" /\ GroupView' = [GroupView EXCEPT ![g] = "issued"]
  BY <1>1 DEF IssueShipmentGroup, GroupViewIsStatus, StatusView, StepInv, Inv, TypeOK
<1>3. ASSUME NEW h \in Groups, NEW p \in Places
      PROVE  Exists(<<h, p>>)' <=> Exists(<<h, p>>)
  <2>1. <<h, p>> \in Challans
    BY DEF Challans
  <2>2. dcStatus'[<<h, p>>] = IF <<h, p>>[1] = g /\ Exists(<<h, p>>)
                              THEN "issued" ELSE dcStatus[<<h, p>>]
    BY <2>1 DEF IssueShipmentGroup, ChallansOf
  <2>3. QED
    BY <2>2 DEF Exists
<1>4. CoverView' = CoverView
  BY <1>3 DEF CoverView
<1>5. QED
  BY <1>2, <1>4

\* Requests that leave the groups' rows alone leave the contract's view of them.
LEMMA GroupViewKept ==
    ASSUME UNCHANGED groupVars
    PROVE  GroupView' = GroupView /\ CoverView' = CoverView /\ sgTransfer' = sgTransfer
BY DEF groupVars, GroupView, GroupState, ChallansOf, Exists, CoverView

\* A step that moves one transfer's status moves its plan and no other.
LEMMA PlanViewStep ==
    ASSUME StepInv, NEW t \in Transfers, NEW x, NEW y,
           tStatus' = [tStatus EXCEPT ![t] = x],
           y = IF x \in {"issued", "splitting", "split"} THEN "open"
               ELSE IF x = "deleted" THEN "gone" ELSE x
    PROVE  PlanView' = [PlanView EXCEPT ![t] = y]
<1>1. tStatus'[t] = x /\ \A u \in Transfers : u # t => tStatus'[u] = tStatus[u]
  BY DEF StepInv, Inv, TypeOK
<1>2. PlanState(t)' = y
  BY <1>1 DEF PlanState
<1>3. \A u \in Transfers : u # t => PlanState(u)' = PlanState(u)
  BY <1>1 DEF PlanState
<1>4. QED
  BY <1>2, <1>3 DEF PlanView

\* The places a split may take are covered by no live group of the transfer:
\* every covered place has a marked destination row.
LEMMA SplitTakesUncovered ==
    ASSUME StepInv, NEW t \in Transfers, NEW S \in SUBSET Places, Splittable(t, S),
           NEW p \in S, NEW g \in Groups, sgTransfer[g] = t
    PROVE  p \notin CoverView[g]
<1>1. p \in Places /\ ~isSplit[<<t, p>>]
  BY DEF Splittable
<1>2. Exists(<<g, p>>) => isSplit[<<t, p>>]
  BY <1>1 DEF StepInv, Inv, GroupInv, ShippedOnce
<1>3. QED
  BY <1>1, <1>2 DEF CoverView

LEMMA CreateSplitIsSplit ==
    ASSUME StepInv, StepInv', NEW t \in Transfers, NEW S \in SUBSET Places,
           NEW g \in Groups, CreateSplit(t, S, g)
    PROVE  Contract!Split(g, t, S)
<1>1. /\ tStatus[t] \in {"issued", "splitting"} /\ Splittable(t, S)
      /\ SaveGroup(g, S, t) /\ dests' = dests
      /\ tStatus' = [tStatus EXCEPT ![t] = StatusAfterSplit(t, numSplit[t] + 1)]
  BY DEF CreateSplit
<1>2. /\ GroupView[g] = "none"
      /\ GroupView' = [GroupView EXCEPT ![g] = "draft"]
      /\ CoverView' = [CoverView EXCEPT ![g] = S]
  BY <1>1, SaveGroupView
<1>3. PlanView[t] = "open"
  <2>1. PlanState(t) = "open"
    BY <1>1, Zenon DEF PlanState
  <2>2. QED
    BY <2>1 DEF PlanView
<1>4. PlanView' = PlanView
  <2>1. StatusAfterSplit(t, numSplit[t] + 1) \in {"split", "splitting"}
    BY DEF StatusAfterSplit
  <2>2. PlanView' = [PlanView EXCEPT ![t] = "open"]
    BY <1>1, <2>1, PlanViewStep
  <2>3. QED
    BY <1>3, <2>2 DEF PlanView
<1>5. S # {} /\ S \subseteq dests[t]
  BY <1>1 DEF Splittable
<1>6. S \cap UNION {CoverView[h] : h \in {k \in Groups :
            GroupView[k] \in {"draft", "issued"} /\ sgTransfer[k] = t}} = {}
  BY <1>1, SplitTakesUncovered
<1>7. sgTransfer' = [sgTransfer EXCEPT ![g] = t]
  BY <1>1 DEF SaveGroup
<1>8. Contract!NewGroup(g, t, S)
  BY <1>1, <1>2, <1>4, <1>7 DEF Contract!NewGroup, GroupView, CoverView, PlanView
<1>9. S \subseteq dests[t] \ Contract!Covered(t)
  BY <1>5, <1>6 DEF Contract!Covered, Contract!Live, GroupView, CoverView
<1>10. QED
  BY <1>3, <1>5, <1>8, <1>9 DEF Contract!Split, PlanView

LEMMA UndoSplitIsDrop ==
    ASSUME StepInv, StepInv', NEW g \in Groups, UndoSplit(g)
    PROVE  Contract!Drop(g)
<1>1. /\ sgStatus[g] = "draft" /\ splitNumber[g] # 0 /\ DeleteGroup(g) /\ dests' = dests
      /\ \E x \in {"issued", "split", "splitting"} :
            tStatus' = [tStatus EXCEPT ![sgTransfer[g]] = x]
  BY DEF UndoSplit, StatusAfterUndo, StatusAfterSplit
<1>2. /\ GroupView[g] = "draft"
      /\ GroupView' = [GroupView EXCEPT ![g] = "gone"]
      /\ CoverView' = [CoverView EXCEPT ![g] = {}]
  BY <1>1, DeleteGroupView
<1>3. PICK t \in Transfers : t = sgTransfer[g]
  BY <1>1 DEF StepInv, Inv, TypeOK, GroupInv, RowsAgree, GroupRowAgrees
<1>4. tStatus[t] \in {"splitting", "split"}
  <2>1. g \in NamedGroups(t)
    BY <1>3, NamesAssumption DEF StepInv, Inv, GroupInv, RowsAgree, GroupRowAgrees
  <2>2. numSplit[t] # 0
    BY <2>1, FS_EmptySet DEF StepInv, Inv, CounterInv, NamedFinite, CounterMatchesFlags
  <2>3. QED
    BY <2>2 DEF StepInv, Inv, TypeOK, TransferStatus, CounterInv, StatusMatchesCounter
<1>5. PlanView' = PlanView
  <2>1. PlanState(t) = "open"
    BY <1>4, Zenon DEF PlanState
  <2>2. PICK x \in {"issued", "split", "splitting"} : tStatus' = [tStatus EXCEPT ![t] = x]
    BY <1>1, <1>3
  <2>3. PlanView' = [PlanView EXCEPT ![t] = "open"]
    BY <2>2, PlanViewStep
  <2>4. QED
    BY <2>1, <2>3 DEF PlanView
<1>6. sgTransfer' = [sgTransfer EXCEPT ![g] = NoTransfer]
  BY <1>1 DEF DeleteGroup
<1>7. QED
  BY <1>1, <1>2, <1>5, <1>6 DEF Contract!Drop, GroupView, CoverView, PlanView

LEMMA DeleteIsDrop ==
    ASSUME StepInv, StepInv', NEW g \in Groups, HandleShipmentGroupDelete(g)
    PROVE  Contract!Drop(g)
<1>1. sgStatus[g] = "draft" /\ DeleteGroup(g) /\ dests' = dests /\ tStatus' = tStatus
  BY DEF HandleShipmentGroupDelete, transferVars
<1>2. /\ GroupView[g] = "draft"
      /\ GroupView' = [GroupView EXCEPT ![g] = "gone"]
      /\ CoverView' = [CoverView EXCEPT ![g] = {}]
  BY <1>1, DeleteGroupView
<1>3. sgTransfer' = [sgTransfer EXCEPT ![g] = NoTransfer]
  BY <1>1 DEF DeleteGroup
<1>4. PlanView' = PlanView
  BY <1>1, Zenon DEF PlanView, PlanState
<1>5. QED
  BY <1>1, <1>2, <1>3, <1>4 DEF Contract!Drop, GroupView, CoverView, PlanView

LEMMA CreateDirectIsShipDirect ==
    ASSUME StepInv, StepInv', NEW g \in Groups, NEW S \in SUBSET Places,
           CreateDirectShipment(g, S)
    PROVE  Contract!ShipDirect(g, S)
<1>1. SaveGroup(g, S, NoTransfer) /\ dests' = dests /\ tStatus' = tStatus
  BY DEF CreateDirectShipment, transferVars
<1>2. /\ GroupView[g] = "none"
      /\ GroupView' = [GroupView EXCEPT ![g] = "draft"]
      /\ CoverView' = [CoverView EXCEPT ![g] = S]
  BY <1>1, SaveGroupView
<1>3. sgTransfer' = [sgTransfer EXCEPT ![g] = NoTransfer]
  BY <1>1 DEF SaveGroup
<1>4. PlanView' = PlanView
  BY <1>1, Zenon DEF PlanView, PlanState
<1>5. QED
  BY <1>1, <1>2, <1>3, <1>4
     DEF Contract!ShipDirect, Contract!NewGroup, GroupView, CoverView, PlanView

LEMMA TransferStepsArePlans ==
    ASSUME StepInv, NEW t \in Transfers, NEW S \in SUBSET Places
    PROVE  /\ CreateTransferDC(t, S) => Contract!PlanTransfer(t, S)
           /\ IssueTransferDC(t) => Contract!OpenTransfer(t)
           /\ DeleteTransferDC(t) => Contract!DropTransfer(t)
<1>1. ASSUME CreateTransferDC(t, S) PROVE Contract!PlanTransfer(t, S)
  <2>1. GroupView' = GroupView /\ CoverView' = CoverView /\ sgTransfer' = sgTransfer
    BY <1>1, GroupViewKept DEF CreateTransferDC
  <2>2. PlanView[t] = "none"
    BY <1>1, Zenon DEF CreateTransferDC, PlanView, PlanState
  <2>3. PlanView' = [PlanView EXCEPT ![t] = "draft"]
    BY <1>1, PlanViewStep DEF CreateTransferDC
  <2>4. QED
    BY <1>1, <2>1, <2>2, <2>3
       DEF CreateTransferDC, Contract!PlanTransfer, GroupView, CoverView, PlanView
<1>2. ASSUME IssueTransferDC(t) PROVE Contract!OpenTransfer(t)
  <2>1. GroupView' = GroupView /\ CoverView' = CoverView /\ sgTransfer' = sgTransfer
    BY <1>2, GroupViewKept DEF IssueTransferDC
  <2>2. PlanView[t] = "draft"
    BY <1>2, Zenon DEF IssueTransferDC, PlanView, PlanState
  <2>3. PlanView' = [PlanView EXCEPT ![t] = "open"]
    BY <1>2, PlanViewStep DEF IssueTransferDC
  <2>4. QED
    BY <1>2, <2>1, <2>2, <2>3
       DEF IssueTransferDC, Contract!OpenTransfer, GroupView, CoverView, PlanView
<1>3. ASSUME DeleteTransferDC(t) PROVE Contract!DropTransfer(t)
  <2>1. GroupView' = GroupView /\ CoverView' = CoverView /\ sgTransfer' = sgTransfer
    BY <1>3, GroupViewKept DEF DeleteTransferDC
  <2>2. PlanView[t] = "draft"
    BY <1>3, Zenon DEF DeleteTransferDC, PlanView, PlanState
  <2>3. PlanView' = [PlanView EXCEPT ![t] = "gone"]
    BY <1>3, PlanViewStep DEF DeleteTransferDC
  <2>4. QED
    BY <1>3, <2>1, <2>2, <2>3
       DEF DeleteTransferDC, Contract!DropTransfer, GroupView, CoverView, PlanView
<1>4. QED
  BY <1>1, <1>2, <1>3

LEMMA IssueIsIssue ==
    ASSUME StepInv, StepInv', NEW g \in Groups, IssueShipmentGroup(g)
    PROVE  Contract!Issue(g)
<1>1. dests' = dests /\ tStatus' = tStatus /\ sgTransfer' = sgTransfer
  BY DEF IssueShipmentGroup, transferVars
<1>2. PlanView' = PlanView
  BY <1>1, Zenon DEF PlanView, PlanState
<1>3. QED
  BY <1>1, <1>2, IssueView DEF Contract!Issue, GroupView, CoverView, PlanView

\* Every request, taken whole, is one step of the contract: creating, issuing
\* and dropping act on a group as a whole, and a split takes destinations that
\* no live group covers.
THEOREM LifecycleKeepsContract == Spec => ImplementsContract
<1>1. Init => Contract!Init
  <2> SUFFICES ASSUME Init PROVE Contract!Init
    OBVIOUS
  <2>1. StepInv
    BY InitInv DEF StepInv, Init, HasTransit
  <2>2. GroupView = [g \in Groups |-> "none"]
    BY <2>1, GroupViewRead DEF GroupViewIsStatus, StatusView, Init
  <2>3. CoverView = [g \in Groups |-> {}]
    BY DEF CoverView, Exists, Init, Challans
  <2>4. PlanView = [t \in Transfers |-> "none"]
    <3>1. \A t \in Transfers : tStatus[t] = "none"
      BY DEF Init
    <3>2. \A t \in Transfers : PlanState(t) = "none"
      BY <3>1, Zenon DEF PlanState
    <3>3. QED
      BY <3>2 DEF PlanView
  <2>5. QED
    BY <2>2, <2>3, <2>4 DEF Contract!Init, Init, GroupView, CoverView, PlanView
<1>2. StepInv /\ StepInv' /\ [Next]_vars => [Contract!Next]_(Contract!vars)
  <2> SUFFICES ASSUME StepInv, StepInv', [Next]_vars
               PROVE  Contract!Next \/ UNCHANGED Contract!vars
    OBVIOUS
  <2>1. ASSUME NEW g \in Groups, NEW S \in SUBSET Places, CreateDirectShipment(g, S)
        PROVE  Contract!Next
    BY <2>1, CreateDirectIsShipDirect DEF Contract!Next
  <2>2. ASSUME NEW t \in Transfers, NEW S \in SUBSET Places, CreateTransferDC(t, S)
        PROVE  Contract!Next
    BY <2>2, TransferStepsArePlans DEF Contract!Next
  <2>3. ASSUME NEW g \in Groups, IssueShipmentGroup(g) PROVE Contract!Next
    BY <2>3, IssueIsIssue DEF Contract!Next
  <2>4. ASSUME NEW g \in Groups, UndoSplit(g) \/ HandleShipmentGroupDelete(g)
        PROVE  Contract!Next
    BY <2>4, UndoSplitIsDrop, DeleteIsDrop DEF Contract!Next
  <2>5. ASSUME NEW t \in Transfers, IssueTransferDC(t) \/ DeleteTransferDC(t)
        PROVE  Contract!Next
    BY <2>5, TransferStepsArePlans DEF Contract!Next
  <2>6. ASSUME NEW t \in Transfers, NEW S \in SUBSET Places, NEW g \in Groups,
               CreateSplit(t, S, g)
        PROVE  Contract!Next
    BY <2>6, CreateSplitIsSplit DEF Contract!Next
  <2>7. CASE UNCHANGED vars
    <3>1. UNCHANGED groupVars /\ dests' = dests /\ tStatus' = tStatus
      BY <2>7 DEF vars, transferVars
    <3>2. PlanView' = PlanView
      BY <3>1, Zenon DEF PlanView, PlanState
    <3>3. QED
      BY <3>1, <3>2, GroupViewKept DEF Contract!vars, GroupView, CoverView, PlanView
  <2>8. QED
    BY StepKinds, <2>1, <2>2, <2>3, <2>4, <2>5, <2>6, <2>7
<1>3. Spec => []StepInv
  BY Invariance, TransitAlwaysThere, PTL DEF StepInv
<1>4. QED
  BY <1>1, <1>2, <1>3, PTL DEF Spec, ImplementsContract, Contract!Spec
=============================================================================
