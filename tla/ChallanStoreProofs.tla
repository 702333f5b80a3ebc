-------------------------- MODULE ChallanStoreProofs --------------------------
(* Proofs about ChallanStore, for any number of requests, groups and places   *)
(* and whatever the bounds.                                                   *)
EXTENDS ChallanStore, FiniteSetTheorems, TLAPS

Pcs == Calls \cup {"idle", "done", "failed"}

\* What a loop may be over.
Todos == (SUBSET Places) \cup (SUBSET Challans)

\* What a request may hold.
Held ==
    [kind : Kinds, pc : Pcs, group : Groups \cup {NoGroup}, asked : SUBSET Places,
     todo : Todos, dest : Places \cup {Transit}, num : Nat,
     status : {"issued", "splitting", "split"}, marked : SUBSET Places,
     named : Groups \cup {NoGroup}, linked : BOOLEAN]

\* The calls each kind of request makes.
CallsOf(kind) ==
    {pc \in Calls :
        \/ kind = "direct" /\ pc \in {"group", "transit", "official"}
        \/ kind = "split" /\ pc \in {"meta", "check", "group", "transit", "official", "row",
                                     "link", "read", "mark", "count", "status"}
        \/ kind = "undo" /\ pc \in {"meta", "parent", "draft", "dests", "reset", "find",
                                    "remove", "unrow", "ungroup", "count", "status"}
        \/ kind = "issue" /\ pc \in {"load", "issue", "close"}
        \/ kind \in {"groupDelete", "dcDelete"} /\ pc \in {"find", "remove", "ungroup"}}

\* What a request that is in flight has in hand.
InHand(s) ==
    /\ s.pc \in CallsOf(s.kind)
    /\ s.kind = "undo" \/ s.pc \notin {"meta", "check", "group"} => s.group \in Groups
    /\ s.pc \in {"check", "official", "read", "mark"} =>
          s.todo # {} /\ s.todo \subseteq s.asked
    /\ s.pc = "mark" => s.dest \in s.todo
    /\ s.pc = "reset" => s.todo # {} /\ s.todo \subseteq Places
    /\ s.pc \in {"remove", "issue"} =>
          s.todo # {} /\ \A c \in s.todo : c \in Challans /\ c[1] = s.group
    /\ s.kind = "split" => s.asked # {}

Types ==
    /\ sgStatus \in [Groups -> RowStatus]
    /\ sgTransfer \in [Groups -> {T, NoTransfer}]
    /\ sgSplit \in [Groups -> BOOLEAN]
    /\ dcStatus \in [Challans -> RowStatus]
    /\ splitNumber \in [Groups -> Nat]
    /\ tStatus \in {"issued", "splitting", "split"}
    /\ isSplit \in [Places -> BOOLEAN]
    /\ splitGroup \in [Places -> Groups \cup {NoGroup}]
    /\ numSplit \in Nat
    /\ crashes \in 0 .. MaxCrashes /\ errors \in 0 .. MaxErrors /\ overlapped \in BOOLEAN
    /\ req \in [Requests -> Held]
    /\ \A r \in Requests : InFlight(r) => InHand(req[r])

\* The requests that have had their turn at num_split.
Counted ==
    {r \in Requests : req[r].kind = "split" /\ req[r].pc \in {"status", "done", "failed"}}

\* No request holds a count that the turns before it do not account for.
CountsAccounted ==
    /\ numSplit <= Cardinality(Counted)
    /\ \A r \in Requests : InFlight(r) => req[r].num <= Cardinality(Counted)

\* The destinations for which a creation is past its official challan.
Passed(r) ==
    IF req[r].kind # "split" THEN {}
    ELSE IF At(r, "official") THEN req[r].asked \ req[r].todo
    ELSE IF req[r].pc \in {"row", "link", "read", "mark"} THEN req[r].asked
    ELSE {}

\* The official challans that were never created, of the destinations that name a
\* group or are about to.
Missing ==
    {c \in Groups \X Places :
        /\ dcStatus[c] = "none"
        /\ \/ splitGroup[c[2]] = c[1]
           \/ \E r \in Requests : req[r].group = c[1] /\ c[2] \in Passed(r)}

MissingAreErrors == IsFiniteSet(Missing) /\ Cardinality(Missing) <= errors

\* Requests that do not overlap are one at a time.
OneAtATime ==
    ~overlapped => \A r, s \in Requests : InFlight(r) /\ InFlight(s) => r = s

\* While they do not, a request that changes a group's challans has found it a draft.
DraftInHand ==
    ~overlapped => \A r \in Requests :
        /\ req[r].pc \in {"transit", "official", "dests", "reset", "find", "remove",
                          "unrow", "ungroup", "load", "issue", "close"}
              => sgStatus[req[r].group] # "issued"
        /\ req[r].pc \in {"issue", "close"} => \A c \in ChallansOf(req[r].group) :
              dcStatus[c] = "issued" \/ (At(r, "issue") /\ c \in req[r].todo)

\* Groups that a destination names, or that have a split row to undo.
Tracked == NamedGroups \cup {g \in Groups : splitNumber[g] # 0}

\* A group that a destination or a request names was once created.
NamedExisted ==
    /\ \A p \in Places : splitGroup[p] \in Groups => sgStatus[splitGroup[p]] # "none"
    /\ \A r \in Requests : req[r].group \in Groups => sgStatus[req[r].group] # "none"

\* Both columns of a destination say the same.
Flags == \A p \in Places : isSplit[p] <=> splitGroup[p] # NoGroup

\* What a request that is alone has read of the counter and the destinations.
CountIsCurrent(r) ==
    req[r].kind \in {"split", "undo"} /\ InFlight(r) /\ ~At(r, "meta") /\ ~At(r, "status")
       => req[r].num = numSplit

SplitIsCurrent(r) == req[r].kind = "split" =>
    /\ At(r, "check") => \A p \in req[r].asked \ req[r].todo : ~isSplit[p]
    /\ req[r].pc \in {"group", "transit", "official", "row", "link"} =>
          \A p \in req[r].asked : ~isSplit[p]
    /\ req[r].pc \in {"read", "mark"} => \A p \in req[r].todo : ~isSplit[p]
    /\ \/ req[r].pc \in {"transit", "official", "row", "link"}
       \/ req[r].pc \in {"read", "mark"} /\ req[r].todo = req[r].asked
       => req[r].group \notin NamedGroups
    /\ req[r].pc \in {"link", "read", "mark"} => splitNumber[req[r].group] # 0
    /\ At(r, "mark") => req[r].marked = {} /\ req[r].named = NoGroup

UndoIsCurrent(r) == req[r].kind = "undo" =>
    /\ req[r].pc \in {"meta", "parent", "draft", "dests", "reset", "find", "remove", "unrow"}
          => splitNumber[req[r].group] # 0
    /\ At(r, "reset") => /\ req[r].todo \subseteq req[r].marked
                         /\ \A p \in req[r].todo : splitGroup[p] = req[r].group

ReadsAreCurrent ==
    ~overlapped => Flags /\ \A r \in Requests :
        CountIsCurrent(r) /\ SplitIsCurrent(r) /\ UndoIsCurrent(r)

\* By how much a request that is alone has num_split ahead of the named groups, at
\* most, and behind the tracked ones, beyond what the faults account for.
Ahead(r) ==
    IF req[r].kind = "split" /\ (At(r, "count")
           \/ (req[r].pc \in {"read", "mark"} /\ req[r].todo # req[r].asked)) THEN -1
    ELSE IF req[r].kind = "undo" /\ req[r].group \notin NamedGroups
            /\ req[r].pc \in {"reset", "find", "remove", "unrow", "ungroup", "count"} THEN 1
    ELSE 0

\* An undo that left a destination naming its group: the group stays tracked.
LeavesOne(r) ==
    \/ At(r, "reset") /\ \E p \in Places \ req[r].todo : splitGroup[p] = req[r].group
    \/ req[r].pc \in {"find", "remove", "unrow"} /\ req[r].group \in NamedGroups

Behind(r) ==
    IF req[r].kind = "split" /\ req[r].pc \in {"link", "read", "mark", "count"} THEN 1
    ELSE IF req[r].kind = "undo" /\ (req[r].pc \in {"ungroup", "count"} \/ LeavesOne(r)) THEN -1
    ELSE 0

Level(ahead, behind) ==
    /\ IsFiniteSet(Tracked)
    /\ numSplit <= Cardinality(NamedGroups) + crashes + errors + ahead
    /\ Cardinality(Tracked) <= numSplit + crashes + errors + behind

Drift ==
    ~overlapped => /\ Idle => Level(0, 0)
                   /\ \A r \in Requests : InFlight(r) => Level(Ahead(r), Behind(r))

-----------------------------------------------------------------------------
LEMMA TodosHold ==
    /\ {} \in Todos
    /\ \A S \in SUBSET Places : S \in Todos
    /\ \A S \in SUBSET Challans : S \in Todos
    /\ \A S \in Todos : \A x : S \ {x} \in Todos
BY DEF Todos

\* What becomes of a request's memory.
LEMMA MovedShape ==
    ASSUME NEW s \in Held, NEW pc \in Pcs
    PROVE  /\ Moved(s, pc) \in Held
           /\ Moved(s, pc).pc = pc /\ Moved(s, pc).kind = s.kind
           /\ Moved(s, pc).group = s.group
           /\ pc \notin {"done", "failed"} =>
                 /\ Moved(s, pc).asked = s.asked /\ Moved(s, pc).todo = s.todo
                 /\ Moved(s, pc).dest = s.dest /\ Moved(s, pc).num = s.num
                 /\ Moved(s, pc).status = s.status /\ Moved(s, pc).marked = s.marked
                 /\ Moved(s, pc).named = s.named /\ Moved(s, pc).linked = s.linked
<1>1. NewRequest \in Held
  BY TodosHold DEF NewRequest, Held, Pcs, Kinds
<1>2. CASE pc \in {"done", "failed"}
  BY <1>1, <1>2 DEF Moved, Held
<1>3. CASE pc \notin {"done", "failed"}
  BY <1>3 DEF Moved, Held
<1>4. QED
  BY <1>2, <1>3

\* The same of every call: the request's own memory changes and no other's.
Goes(r) == /\ req' \in [Requests -> Held]
           /\ \A x \in Requests : x # r => req'[x] = req[x]
           /\ req'[r].kind = req[r].kind

\* Its memory is as it was, but for the next call and the loop.
Keeps(r) == /\ req'[r].group = req[r].group /\ req'[r].asked = req[r].asked
            /\ req'[r].dest = req[r].dest /\ req'[r].num = req[r].num
            /\ req'[r].status = req[r].status /\ req'[r].marked = req[r].marked
            /\ req'[r].named = req[r].named /\ req'[r].linked = req[r].linked

GoesTo(r, pc) ==
    /\ Goes(r) /\ req'[r].pc = pc /\ req'[r].group = req[r].group
    /\ pc \notin {"done", "failed"} => Keeps(r) /\ req'[r].todo = req[r].todo

LoopsTo(r, left, pc) ==
    /\ Goes(r) /\ req'[r].pc = pc /\ req'[r].group = req[r].group
    /\ pc \notin {"done", "failed"} => Keeps(r) /\ req'[r].todo = left

LEMMA GotoGoes ==
    ASSUME Types, NEW r \in Requests, NEW pc \in Pcs, Goto(r, pc)
    PROVE  GoesTo(r, pc)
<1>1. req[r] \in Held
  BY DEF Types
<1>2. req' = [req EXCEPT ![r] = Moved(req[r], pc)]
  BY DEF Goto
<1>3. req'[r] = Moved(req[r], pc) /\ \A x \in Requests : x # r => req'[x] = req[x]
  BY <1>2 DEF Types
<1>4. Moved(req[r], pc) \in Held
  BY <1>1, MovedShape
<1>5. req' \in [Requests -> Held]
  BY <1>2, <1>4 DEF Types
<1>6. QED
  BY <1>1, <1>3, <1>5, MovedShape DEF GoesTo, Goes, Keeps

\* A loop over what is left, if anything is.
LEMMA TodoGoes ==
    ASSUME Types, NEW r \in Requests, NEW left \in Todos,
           NEW pc \in Pcs,
           req' = [req EXCEPT ![r] = Moved([req[r] EXCEPT !.todo = left], pc)]
    PROVE  LoopsTo(r, left, pc)
<1> DEFINE s == [req[r] EXCEPT !.todo = left]
<1>1. req[r] \in Held
  BY DEF Types
<1>2. /\ s \in Held /\ s.todo = left /\ s.kind = req[r].kind /\ s.group = req[r].group
      /\ s.asked = req[r].asked /\ s.dest = req[r].dest /\ s.num = req[r].num
      /\ s.status = req[r].status /\ s.marked = req[r].marked /\ s.named = req[r].named
      /\ s.linked = req[r].linked
  BY <1>1 DEF Held
<1>3. req'[r] = Moved(s, pc) /\ \A x \in Requests : x # r => req'[x] = req[x]
  BY DEF Types
<1>4. Moved(s, pc) \in Held
  BY <1>2, MovedShape
<1>5. req' \in [Requests -> Held]
  BY <1>4 DEF Types
<1> HIDE DEF s
<1>6. QED
  BY <1>2, <1>3, <1>5, MovedShape DEF LoopsTo, Goes, Keeps

LEMMA BeginShape ==
    ASSUME Types, NEW r \in Requests, Begin(r)
    PROVE  /\ req' \in [Requests -> Held]
           /\ \A x \in Requests : x # r => req'[x] = req[x]
           /\ req[r].pc = "idle" /\ req'[r].num = 0 /\ UNCHANGED db
           /\ \/ req'[r].kind = "direct" /\ req'[r].pc = "group"
              \/ /\ req'[r].kind = "split" /\ req'[r].pc = "meta" /\ req'[r].asked # {}
                 /\ req'[r].status = tStatus /\ tStatus \in {"issued", "splitting"}
              \/ /\ req'[r].kind = "undo" /\ req'[r].pc = "meta" /\ req'[r].group \in Groups
                 /\ splitNumber[req'[r].group] # 0
              \/ /\ req'[r].kind = "issue" /\ req'[r].pc = "load" /\ req'[r].group \in Groups
                 /\ sgStatus[req'[r].group] = "draft"
                 /\ req'[r].linked = sgSplit[req'[r].group]
              \/ /\ req'[r].kind \in {"groupDelete", "dcDelete"} /\ req'[r].pc = "find"
                 /\ req'[r].group \in Groups /\ sgStatus[req'[r].group] = "draft"
<1>1. At(r, "idle") /\ UNCHANGED db
  BY DEF Begin
<1>2. NewRequest \in Held /\ NewRequest.num = 0
  BY TodosHold DEF NewRequest, Held, Pcs, Kinds
<1>3. ASSUME NEW s \in Held, req' = [req EXCEPT ![r] = s]
      PROVE  /\ req' \in [Requests -> Held] /\ req'[r] = s
             /\ \A x \in Requests : x # r => req'[x] = req[x]
  BY <1>3 DEF Types
<1>4. ASSUME NEW S \in SUBSET Places, BeginDirect(r, S)
      PROVE  /\ req' \in [Requests -> Held] /\ \A x \in Requests : x # r => req'[x] = req[x]
             /\ req'[r].num = 0 /\ req'[r].kind = "direct" /\ req'[r].pc = "group"
  <2> DEFINE s == [NewRequest EXCEPT !.kind = "direct", !.pc = "group", !.asked = S]
  <2>1. s \in Held /\ s.num = 0 /\ s.kind = "direct" /\ s.pc = "group"
    <3>1. "direct" \in Kinds /\ "group" \in Pcs
      BY DEF Kinds, Pcs, Calls
    <3>2. QED
      BY <1>2, <3>1 DEF Held
  <2>2. req' = [req EXCEPT ![r] = s]
    BY <1>4 DEF BeginDirect
  <2> HIDE DEF s
  <2>3. QED
    BY <1>3, <2>1, <2>2
<1>5. ASSUME NEW S \in SUBSET Places, BeginSplit(r, S)
      PROVE  /\ req' \in [Requests -> Held] /\ \A x \in Requests : x # r => req'[x] = req[x]
             /\ req'[r].num = 0 /\ req'[r].kind = "split" /\ req'[r].pc = "meta"
             /\ req'[r].asked # {} /\ req'[r].status = tStatus
             /\ tStatus \in {"issued", "splitting"}
  <2> DEFINE s == [NewRequest EXCEPT !.kind = "split", !.pc = "meta", !.asked = S,
                                     !.status = tStatus]
  <2>1. S # {} /\ req' = [req EXCEPT ![r] = s] /\ tStatus \in {"issued", "splitting"}
    BY <1>5 DEF BeginSplit
  <2>2. /\ s \in Held /\ s.num = 0 /\ s.kind = "split" /\ s.pc = "meta" /\ s.asked = S
        /\ s.status = tStatus
    <3>1. "split" \in Kinds /\ "meta" \in Pcs /\ tStatus \in {"issued", "splitting", "split"}
      BY DEF Kinds, Pcs, Calls, Types
    <3>2. QED
      BY <1>2, <3>1 DEF Held
  <2> HIDE DEF s
  <2>3. QED
    BY <1>3, <2>1, <2>2
<1>6. ASSUME NEW g \in Groups, BeginUndo(r, g)
      PROVE  /\ req' \in [Requests -> Held] /\ \A x \in Requests : x # r => req'[x] = req[x]
             /\ req'[r].num = 0 /\ req'[r].kind = "undo" /\ req'[r].pc = "meta"
             /\ req'[r].group = g
  <2> DEFINE s == [NewRequest EXCEPT !.kind = "undo", !.pc = "meta", !.group = g]
  <2>1. s \in Held /\ s.num = 0 /\ s.kind = "undo" /\ s.pc = "meta" /\ s.group = g
    <3>1. "undo" \in Kinds /\ "meta" \in Pcs
      BY DEF Kinds, Pcs, Calls
    <3>2. QED
      BY <1>2, <3>1 DEF Held
  <2>2. req' = [req EXCEPT ![r] = s]
    BY <1>6 DEF BeginUndo
  <2> HIDE DEF s
  <2>3. QED
    BY <1>3, <2>1, <2>2
<1>7. ASSUME NEW g \in Groups, BeginIssue(r, g)
      PROVE  /\ req' \in [Requests -> Held] /\ \A x \in Requests : x # r => req'[x] = req[x]
             /\ req'[r].num = 0 /\ req'[r].kind = "issue" /\ req'[r].pc = "load"
             /\ req'[r].group = g /\ req'[r].linked = sgSplit[g]
  <2> DEFINE s == [NewRequest EXCEPT !.kind = "issue", !.pc = "load", !.group = g,
                                     !.linked = sgSplit[g]]
  <2>1. /\ s \in Held /\ s.num = 0 /\ s.kind = "issue" /\ s.pc = "load" /\ s.group = g
        /\ s.linked = sgSplit[g]
    <3>1. "issue" \in Kinds /\ "load" \in Pcs /\ sgSplit[g] \in BOOLEAN
      BY DEF Kinds, Pcs, Calls, Types
    <3>2. QED
      BY <1>2, <3>1 DEF Held
  <2>2. req' = [req EXCEPT ![r] = s]
    BY <1>7 DEF BeginIssue
  <2> HIDE DEF s
  <2>3. QED
    BY <1>3, <2>1, <2>2
<1>8. ASSUME NEW g \in Groups, NEW k \in {"groupDelete", "dcDelete"}, BeginDelete(r, g, k)
      PROVE  /\ req' \in [Requests -> Held] /\ \A x \in Requests : x # r => req'[x] = req[x]
             /\ req'[r].num = 0 /\ req'[r].kind = k /\ req'[r].pc = "find"
             /\ req'[r].group = g
  <2> DEFINE s == [NewRequest EXCEPT !.kind = k, !.pc = "find", !.group = g]
  <2>1. s \in Held /\ s.num = 0 /\ s.kind = k /\ s.pc = "find" /\ s.group = g
    <3>1. k \in Kinds /\ "find" \in Pcs
      BY DEF Kinds, Pcs, Calls
    <3>2. QED
      BY <1>2, <3>1 DEF Held
  <2>2. req' = [req EXCEPT ![r] = s]
    BY <1>8 DEF BeginDelete
  <2> HIDE DEF s
  <2>3. QED
    BY <1>3, <2>1, <2>2
<1>9. \/ \E S \in SUBSET Places : BeginDirect(r, S) \/ BeginSplit(r, S)
      \/ \E g \in Groups : BeginUndo(r, g) \/ BeginIssue(r, g)
      \/ \E g \in Groups, k \in {"groupDelete", "dcDelete"} : BeginDelete(r, g, k)
  BY DEF Begin
<1>10. \A g \in Groups : /\ BeginUndo(r, g) => splitNumber[g] # 0
                         /\ BeginIssue(r, g) => sgStatus[g] = "draft"
                         /\ \A k : BeginDelete(r, g, k) => sgStatus[g] = "draft"
  BY DEF BeginUndo, BeginIssue, BeginDelete
<1>11. QED
  BY <1>1, <1>4, <1>5, <1>6, <1>7, <1>8, <1>9, <1>10 DEF At

LEMMA RoundGoes ==
    ASSUME Types, NEW r \in Requests, NEW x, NEW after \in Pcs, Round(r, x, after)
    PROVE  LoopsTo(r, req[r].todo \ {x},
                   IF req[r].todo \ {x} = {} THEN after ELSE req[r].pc)
<1> DEFINE left == req[r].todo \ {x}
           pc == IF left = {} THEN after ELSE req[r].pc
<1>1. req[r] \in Held
  BY DEF Types
<1>2. left \in Todos /\ pc \in Pcs
  BY <1>1, TodosHold DEF Held
<1>3. req' = [req EXCEPT ![r] = Moved([req[r] EXCEPT !.todo = left], pc)]
  BY DEF Round
<1>4. LoopsTo(r, left, pc)
  <2> HIDE DEF left, pc
  <2>1. QED
    BY <1>2, <1>3, TodoGoes
<1>5. QED
  BY <1>4

LEMMA LoopGoes ==
    ASSUME Types, NEW r \in Requests, NEW S \in Todos,
           NEW pc \in Pcs, NEW after \in Pcs, Loop(r, S, pc, after)
    PROVE  LoopsTo(r, S, IF S = {} THEN after ELSE pc)
BY TodoGoes DEF Loop

\* The calls that write more of the memory than the next call and the loop.
LEMMA Becomes ==
    ASSUME Types, NEW r \in Requests, NEW s \in Held, s.kind = req[r].kind,
           req' = [req EXCEPT ![r] = s]
    PROVE  Goes(r) /\ req'[r] = s
BY DEF Types, Goes

LEMMA ReadMetaGoes ==
    ASSUME Types, NEW r \in Requests, ReadMeta(r)
    PROVE  /\ Goes(r)
           /\ req'[r].pc = (IF req[r].kind = "split" THEN "check" ELSE "parent")
           /\ req'[r].group = req[r].group /\ req'[r].asked = req[r].asked
           /\ req'[r].todo = req[r].asked /\ req'[r].num = numSplit
           /\ req'[r].status = req[r].status
<1> DEFINE s == [req[r] EXCEPT !.num = numSplit, !.todo = req[r].asked,
               !.pc = IF req[r].kind = "split" THEN "check" ELSE "parent"]
<1>1. req[r] \in Held /\ numSplit \in Nat /\ "check" \in Pcs /\ "parent" \in Pcs
  BY DEF Types, Pcs, Calls
<1>2. s \in Held /\ s.kind = req[r].kind
  <2>1. req[r].asked \in Todos
    BY <1>1, TodosHold DEF Held
  <2>2. QED
    BY <1>1, <2>1 DEF Held
<1>3. /\ s.pc = (IF req[r].kind = "split" THEN "check" ELSE "parent")
      /\ s.group = req[r].group /\ s.asked = req[r].asked /\ s.todo = req[r].asked
      /\ s.num = numSplit /\ s.status = req[r].status
  BY <1>1 DEF Held
<1>4. req' = [req EXCEPT ![r] = s]
  BY <1>1 DEF ReadMeta, Types, Held
<1> HIDE DEF s
<1>5. QED
  BY <1>2, <1>3, <1>4, Becomes

LEMMA SaveGroupGoes ==
    ASSUME Types, NEW r \in Requests, NEW g \in Groups, SaveGroup(r, g)
    PROVE  /\ Goes(r) /\ req'[r].pc = "transit" /\ req'[r].group = g
           /\ req'[r].asked = req[r].asked /\ req'[r].todo = req[r].todo
           /\ req'[r].num = req[r].num /\ req'[r].status = req[r].status
<1> DEFINE s == [req[r] EXCEPT !.pc = "transit", !.group = g]
<1>1. req[r] \in Held
  BY DEF Types
<1>2. s \in Held /\ s.kind = req[r].kind
  BY <1>1 DEF Held, Types, Pcs, Calls
<1>3. /\ s.pc = "transit" /\ s.group = g /\ s.asked = req[r].asked
      /\ s.todo = req[r].todo /\ s.num = req[r].num /\ s.status = req[r].status
  BY <1>1 DEF Held
<1>4. req' = [req EXCEPT ![r] = s]
  BY <1>1 DEF SaveGroup, Types, Held
<1> HIDE DEF s
<1>5. QED
  BY <1>2, <1>3, <1>4, Becomes

LEMMA ReadParentGoes ==
    ASSUME Types, NEW r \in Requests, ReadParent(r)
    PROVE  /\ Goes(r) /\ req'[r].pc = "draft" /\ req'[r].group = req[r].group
           /\ req'[r].asked = req[r].asked /\ req'[r].num = req[r].num
           /\ req'[r].status = tStatus
<1> DEFINE s == [req[r] EXCEPT !.status = tStatus, !.pc = "draft"]
<1>1. req[r] \in Held
  BY DEF Types
<1>2. s \in Held /\ s.kind = req[r].kind
  BY <1>1 DEF Held, Types, Pcs, Calls
<1>3. /\ s.pc = "draft" /\ s.group = req[r].group /\ s.asked = req[r].asked
      /\ s.num = req[r].num /\ s.status = tStatus
  BY <1>1 DEF Held
<1>4. req' = [req EXCEPT ![r] = s]
  BY <1>1 DEF ReadParent, Types, Held
<1> HIDE DEF s
<1>5. QED
  BY <1>2, <1>3, <1>4, Becomes

LEMMA ReadDestGoes ==
    ASSUME Types, NEW r \in Requests, NEW p \in Places, ReadDest(r, p, TRUE)
    PROVE  /\ Goes(r) /\ req'[r].pc = "mark" /\ req'[r].group = req[r].group
           /\ req'[r].asked = req[r].asked /\ req'[r].todo = req[r].todo
           /\ req'[r].num = req[r].num /\ req'[r].dest = p
           /\ req'[r].named = splitGroup[p] /\ req'[r].marked = {q \in {p} : isSplit[q]}
           /\ req'[r].status = req[r].status
<1> DEFINE s == [req[r] EXCEPT !.pc = "mark", !.dest = p,
               !.named = splitGroup[p], !.marked = {q \in {p} : isSplit[q]}]
<1>1. req[r] \in Held
  BY DEF Types
<1>2. s \in Held /\ s.kind = req[r].kind
  <2> DEFINE marked == {q \in {p} : isSplit[q]}
  <2>1. "mark" \in Pcs /\ splitGroup[p] \in Groups \cup {NoGroup} /\ marked \in SUBSET Places
    BY DEF Types, Pcs, Calls
  <2> HIDE DEF marked
  <2>2. LET t == [req[r] EXCEPT !.pc = "mark", !.dest = p,
                                !.named = splitGroup[p], !.marked = marked]
        IN  t \in Held /\ t.kind = req[r].kind
    BY <1>1, <2>1 DEF Held
  <2>3. QED
    BY <2>2 DEF marked
<1>3. /\ s.pc = "mark" /\ s.group = req[r].group /\ s.asked = req[r].asked
      /\ s.todo = req[r].todo /\ s.num = req[r].num /\ s.dest = p
      /\ s.named = splitGroup[p] /\ s.marked = {q \in {p} : isSplit[q]}
      /\ s.status = req[r].status
  BY <1>1 DEF Held
<1>4. req' = [req EXCEPT ![r] = s]
  BY <1>1 DEF ReadDest, Types, Held
<1> HIDE DEF s
<1>5. QED
  BY <1>2, <1>3, <1>4, Becomes

LEMMA MarkDestGoes ==
    ASSUME Types, NEW r \in Requests, NEW ok \in BOOLEAN, MarkDest(r, ok)
    PROVE  /\ Goes(r)
           /\ req'[r].pc = (IF req[r].todo = {req[r].dest} THEN "count" ELSE "read")
           /\ req'[r].group = req[r].group /\ req'[r].asked = req[r].asked
           /\ req'[r].todo = req[r].todo \ {req[r].dest} /\ req'[r].num = req[r].num
           /\ req'[r].status = req[r].status
<1> DEFINE s == [req[r] EXCEPT !.todo = @ \ {req[r].dest},
               !.pc = IF req[r].todo = {req[r].dest} THEN "count" ELSE "read"]
<1>1. req[r] \in Held
  BY DEF Types
<1>2. s \in Held /\ s.kind = req[r].kind
  <2>1. /\ "count" \in Pcs /\ "read" \in Pcs
        /\ req[r].todo \ {req[r].dest} \in Todos
    BY <1>1, TodosHold DEF Held, Pcs, Calls
  <2>2. QED
    BY <1>1, <2>1 DEF Held
<1>3. /\ s.pc = (IF req[r].todo = {req[r].dest} THEN "count" ELSE "read")
      /\ s.group = req[r].group /\ s.asked = req[r].asked
      /\ s.todo = req[r].todo \ {req[r].dest} /\ s.num = req[r].num
      /\ s.status = req[r].status
  BY <1>1 DEF Held
<1>4. req' = [req EXCEPT ![r] = s]
  BY <1>1 DEF MarkDest, Types, Held
<1> HIDE DEF s
<1>5. QED
  BY <1>2, <1>3, <1>4, Becomes

\* The destinations that name the group of an undo, if the query does not fail.
Found(r, ok) == {p \in Places : ok /\ splitGroup[p] = req[r].group}

LEMMA FindDestsGoes ==
    ASSUME Types, NEW r \in Requests, NEW ok \in BOOLEAN, FindDests(r, ok)
    PROVE  /\ Goes(r) /\ req'[r].pc = (IF Found(r, ok) = {} THEN "find" ELSE "reset")
           /\ req'[r].group = req[r].group /\ req'[r].asked = req[r].asked
           /\ req'[r].num = req[r].num /\ req'[r].todo = Found(r, ok)
           /\ req'[r].marked = {p \in Found(r, ok) : isSplit[p]}
           /\ req'[r].status = req[r].status
<1> DEFINE s == [req[r] EXCEPT !.todo = Found(r, ok),
               !.marked = {p \in Found(r, ok) : isSplit[p]},
               !.pc = IF Found(r, ok) = {} THEN "find" ELSE "reset"]
<1>1. req[r] \in Held
  BY DEF Types
<1>2. s \in Held /\ s.kind = req[r].kind
  <2> DEFINE marked == {p \in Found(r, ok) : isSplit[p]}
  <2>1. /\ "find" \in Pcs /\ "reset" \in Pcs
        /\ Found(r, ok) \in Todos /\ marked \in SUBSET Places
    BY TodosHold DEF Found, Pcs, Calls
  <2> HIDE DEF marked
  <2>2. [req[r] EXCEPT !.todo = Found(r, ok), !.marked = marked,
                       !.pc = IF Found(r, ok) = {} THEN "find" ELSE "reset"] \in Held
    BY <1>1, <2>1 DEF Held
  <2>3. s \in Held
    BY <2>2 DEF marked
  <2>4. QED
    BY <1>1, <2>3 DEF Held
<1>3. /\ s.pc = (IF Found(r, ok) = {} THEN "find" ELSE "reset")
      /\ s.group = req[r].group /\ s.asked = req[r].asked /\ s.num = req[r].num
      /\ s.todo = Found(r, ok) /\ s.marked = {p \in Found(r, ok) : isSplit[p]}
      /\ s.status = req[r].status
  BY <1>1 DEF Held
<1>4. req' = [req EXCEPT ![r] = s]
  BY <1>1 DEF FindDests, Found, Types, Held
<1> HIDE DEF s
<1>5. QED
  BY <1>2, <1>3, <1>4, Becomes

-----------------------------------------------------------------------------
(* What a request has in hand fits its next call. *)

LEMMA CallsAreHeld ==
    ASSUME Types, NEW r \in Requests, req[r].pc \in Calls
    PROVE  InHand(req[r]) /\ req[r] \in Held
BY DEF Types, InFlight, Calls

LEMMA CallHolds ==
    ASSUME Types, NEW r \in Requests, NEW ok \in BOOLEAN,
           Call(r) \/ LooseCall(r, ok) \/ CallFails(r) \/ \E p \in Places : SkipOfficial(r, p)
    PROVE  /\ Goes(r) /\ req[r].pc \in Calls
           /\ req'[r].pc # "idle" /\ (req'[r].pc \in Calls => InHand(req'[r]))
<1> DEFINE Holds == /\ Goes(r) /\ req[r].pc \in Calls
                    /\ req'[r].pc # "idle" /\ (req'[r].pc \in Calls => InHand(req'[r]))
<1>1. /\ req[r].pc \in Calls => InHand(req[r])
      /\ req[r] \in Held
  BY CallsAreHeld DEF Types
<1>2. ASSUME ReadMeta(r) PROVE Holds
  <2>1. req[r].pc = "meta" /\ req[r].kind \in {"split", "undo"}
    BY <1>1, <1>2 DEF ReadMeta, At, InHand, CallsOf, Calls
  <2>2. CASE req[r].kind = "split"
    BY <1>1, <1>2, <2>1, <2>2, ReadMetaGoes DEF InHand, CallsOf, Calls, Goes, Held
  <2>3. CASE req[r].kind = "undo"
    BY <1>1, <1>2, <2>1, <2>3, ReadMetaGoes DEF InHand, CallsOf, Calls, Goes, Held
  <2>4. QED
    BY <2>1, <2>2, <2>3
<1>3. ASSUME ReadParent(r) PROVE Holds
  BY <1>1, <1>3, ReadParentGoes
  DEF ReadParent, InHand, CallsOf, Calls, GoesTo, LoopsTo, Keeps, Goes, At, Pcs, Held
<1>4. ASSUME ReadGroup(r) PROVE Holds
  <2>1. req[r].pc = "draft" /\ req[r].kind = "undo" /\ req[r].group \in Groups \cup {NoGroup}
    BY <1>1, <1>4 DEF ReadGroup, At, InHand, CallsOf, Calls, Held
  <2>2. GoesTo(r, "dests") \/ GoesTo(r, "failed")
    BY <1>4, GotoGoes DEF ReadGroup, Pcs, Calls
  <2>3. QED
    BY <1>1, <2>1, <2>2 DEF GoesTo, Keeps, Goes, InHand, CallsOf, Calls, Held
<1>5. ASSUME NEW p \in Places, CheckDest(r, p) PROVE Holds
  <2>1. /\ req[r].pc = "check" /\ req[r].kind = "split" /\ req[r].asked # {}
        /\ req[r].todo \subseteq req[r].asked
    BY <1>1, <1>5 DEF CheckDest, At, InHand, CallsOf, Calls
  <2>2. CASE Goto(r, "failed")
    BY <2>1, <2>2, GotoGoes DEF GoesTo, Calls, Pcs
  <2>3. CASE Round(r, p, "group")
    <3>1. LoopsTo(r, req[r].todo \ {p}, IF req[r].todo \ {p} = {} THEN "group" ELSE "check")
      BY <2>1, <2>3, RoundGoes DEF Pcs, Calls
    <3>2. QED
      BY <1>1, <2>1, <3>1 DEF LoopsTo, Keeps, Goes, InHand, CallsOf, Calls, Held
  <2>4. QED
    BY <1>5, <2>2, <2>3 DEF CheckDest
<1>6. ASSUME NEW p \in Places, SaveOfficial(r, p) PROVE Holds
  <2>1. /\ req[r].pc = "official" /\ req[r].kind \in {"split", "direct"} /\ req[r].group \in Groups
        /\ req[r].todo \subseteq req[r].asked /\ (req[r].kind = "split" => req[r].asked # {})
    BY <1>1, <1>6 DEF SaveOfficial, At, InHand, CallsOf, Calls
  <2>2. CASE Goto(r, "failed")
    BY <2>1, <2>2, GotoGoes DEF GoesTo, Calls, Pcs
  <2>3. CASE Round(r, p, AfterOfficials(r))
    <3>1. LoopsTo(r, req[r].todo \ {p},
                  IF req[r].todo \ {p} = {} THEN AfterOfficials(r) ELSE "official")
      BY <2>1, <2>3, RoundGoes DEF AfterOfficials, Pcs, Calls
    <3>2. QED
      BY <1>1, <2>1, <3>1
      DEF AfterOfficials, LoopsTo, Keeps, Goes, InHand, CallsOf, Calls, Held
  <2>4. QED
    BY <1>6, <2>2, <2>3 DEF SaveOfficial
<1>7. ASSUME NEW p \in Places, SkipOfficial(r, p) PROVE Holds
  <2>1. /\ req[r].pc = "official" /\ req[r].kind = "split" /\ req[r].group \in Groups
        /\ req[r].todo \subseteq req[r].asked /\ req[r].asked # {}
    BY <1>1, <1>7 DEF SkipOfficial, At, InHand, CallsOf, Calls
  <2>2. LoopsTo(r, req[r].todo \ {p}, IF req[r].todo \ {p} = {} THEN "row" ELSE "official")
    BY <1>7, <2>1, RoundGoes DEF SkipOfficial, Pcs, Calls
  <2>3. QED
    BY <1>1, <2>1, <2>2 DEF LoopsTo, Keeps, Goes, InHand, CallsOf, Calls, Held
<1>8. ASSUME NEW g \in Groups, SaveGroup(r, g) PROVE Holds
  <2>1. req[r].pc = "group" /\ req[r].kind \in {"split", "direct"}
    BY <1>1, <1>8 DEF SaveGroup, At, InHand, CallsOf, Calls
  <2>2. QED
    BY <1>1, <1>8, <2>1, SaveGroupGoes DEF InHand, CallsOf, Calls, Goes, Held
<1>9. ASSUME SaveTransit(r) PROVE Holds
  <2>1. req[r].pc = "transit" /\ req[r].kind \in {"split", "direct"} /\ req[r].asked \in SUBSET Places
    BY <1>1, <1>9 DEF SaveTransit, At, InHand, CallsOf, Calls, Held
  <2>2. CASE Goto(r, "failed")
    BY <1>1, <2>1, <2>2, GotoGoes DEF GoesTo, Calls, Pcs
  <2>3. CASE Loop(r, req[r].asked, "official", AfterOfficials(r))
    <3>1. LoopsTo(r, req[r].asked,
                  IF req[r].asked = {} THEN AfterOfficials(r) ELSE "official")
      BY <2>1, <2>3, LoopGoes, TodosHold DEF AfterOfficials, Pcs, Calls
    <3>2. QED
      BY <1>1, <2>1, <3>1
      DEF AfterOfficials, LoopsTo, Keeps, Goes, InHand, CallsOf, Calls, Held
  <2>4. QED
    BY <1>9, <2>2, <2>3 DEF SaveTransit
<1>10. ASSUME SaveSplitRow(r) PROVE Holds
  <2>1. req[r].pc = "row" /\ InHand(req[r]) /\ req[r] \in Held
    BY <1>1, <1>10 DEF SaveSplitRow, At, Calls
  <2>2. GoesTo(r, "link") \/ GoesTo(r, "failed")
    BY <1>10, GotoGoes DEF SaveSplitRow, Pcs, Calls
  <2>3. QED
    BY <2>1, <2>2 DEF GoesTo, Keeps, Goes, InHand, CallsOf, Calls, Held
<1>11. ASSUME NEW valid \in BOOLEAN, LoadChallans(r, valid) PROVE Holds
  <2> DEFINE found == ChallansOf(req[r].group)
  <2>1. req[r].pc = "load" /\ req[r].kind = "issue" /\ req[r].group \in Groups
    BY <1>1, <1>11 DEF LoadChallans, At, InHand, CallsOf, Calls
  <2>2. found \in SUBSET Challans /\ \A c \in found : c[1] = req[r].group
    BY DEF ChallansOf
  <2>3. CASE Goto(r, "failed")
    BY <1>1, <2>1, <2>3, GotoGoes DEF GoesTo, Calls, Pcs
  <2>4. CASE Loop(r, found, "issue", "close")
    <3> HIDE DEF found
    <3>1. LoopsTo(r, found, IF found = {} THEN "close" ELSE "issue")
      <4>1. found \in Todos /\ "issue" \in Pcs /\ "close" \in Pcs
        BY <2>2, TodosHold DEF Pcs, Calls
      <4>2. QED
        BY <2>4, <4>1, LoopGoes
    <3>2. QED
      BY <1>1, <2>1, <2>2, <3>1 DEF LoopsTo, Keeps, Goes, InHand, CallsOf, Calls, Held
  <2>5. QED
    BY <1>11, <2>3, <2>4 DEF LoadChallans
<1>12. ASSUME NEW c \in Challans, IssueChallan(r, c) PROVE Holds
  <2>1. /\ req[r].pc = "issue" /\ req[r].kind = "issue" /\ req[r].group \in Groups
        /\ \A x \in req[r].todo : x \in Challans /\ x[1] = req[r].group
    BY <1>1, <1>12 DEF IssueChallan, At, InHand, CallsOf, Calls
  <2>2. CASE Goto(r, "failed")
    BY <2>1, <2>2, GotoGoes DEF GoesTo, Calls, Pcs
  <2>3. CASE Round(r, c, "close")
    <3>1. LoopsTo(r, req[r].todo \ {c}, IF req[r].todo \ {c} = {} THEN "close" ELSE "issue")
      BY <2>1, <2>3, RoundGoes DEF Pcs, Calls
    <3>2. QED
      BY <1>1, <2>1, <3>1 DEF LoopsTo, Keeps, Goes, InHand, CallsOf, Calls, Held
  <2>4. QED
    BY <1>12, <2>2, <2>3 DEF IssueChallan
<1>13. ASSUME CloseGroup(r) PROVE Holds
  <2>1. req[r].pc \in Calls
    BY <1>13 DEF CloseGroup, At, Calls
  <2>2. GoesTo(r, "done") \/ GoesTo(r, "failed")
    BY <1>13, GotoGoes DEF CloseGroup, Pcs
  <2>3. QED
    BY <2>1, <2>2 DEF GoesTo, Calls
<1>14. ASSUME CallFails(r) PROVE Holds
  <2>1. req[r].pc \in Calls
    BY <1>14 DEF CallFails, Calls
  <2>2. GoesTo(r, "failed")
    BY <1>14, GotoGoes DEF CallFails, Pcs
  <2>3. QED
    BY <2>1, <2>2 DEF GoesTo, Calls
<1>15. ASSUME LinkSplit(r, ok) PROVE Holds
  <2>1. /\ req[r].pc = "link" /\ req[r].kind = "split" /\ req[r].group \in Groups
        /\ req[r].asked \in SUBSET Places
    BY <1>1, <1>15 DEF LinkSplit, At, InHand, CallsOf, Calls, Held
  <2>2. LoopsTo(r, req[r].asked, IF req[r].asked = {} THEN "count" ELSE "read")
    BY <1>15, <2>1, LoopGoes, TodosHold DEF LinkSplit, Pcs, Calls
  <2>3. QED
    BY <1>1, <2>1, <2>2 DEF LoopsTo, Keeps, Goes, InHand, CallsOf, Calls, Held
<1>16. ASSUME NEW p \in Places, ReadDest(r, p, ok) PROVE Holds
  <2>1. /\ req[r].pc = "read" /\ req[r].kind = "split" /\ req[r].group \in Groups
        /\ p \in req[r].todo /\ req[r].todo \subseteq req[r].asked /\ req[r].asked # {}
    BY <1>1, <1>16 DEF ReadDest, At, InHand, CallsOf, Calls
  <2>2. CASE ok
    <3>1. ReadDest(r, p, TRUE)
      BY <1>16, <2>2
    <3>2. /\ Goes(r) /\ req'[r].pc = "mark" /\ req'[r].group = req[r].group
          /\ req'[r].asked = req[r].asked /\ req'[r].todo = req[r].todo /\ req'[r].dest = p
      BY <3>1, ReadDestGoes
    <3>3. QED
      BY <1>1, <2>1, <3>2 DEF Goes, InHand, CallsOf, Calls, Held
  <2>3. CASE ~ok
    <3>1. LoopsTo(r, req[r].todo \ {p}, IF req[r].todo \ {p} = {} THEN "count" ELSE "read")
      BY <1>16, <2>1, <2>3, RoundGoes DEF ReadDest, Pcs, Calls
    <3>2. QED
      BY <1>1, <2>1, <3>1 DEF LoopsTo, Keeps, Goes, InHand, CallsOf, Calls, Held
  <2>4. QED
    BY <2>2, <2>3
<1>17. ASSUME MarkDest(r, ok) PROVE Holds
  <2>1. /\ req[r].pc = "mark" /\ req[r].kind = "split" /\ req[r].group \in Groups
        /\ req[r].dest \in req[r].todo /\ req[r].todo \subseteq req[r].asked
        /\ req[r].asked # {}
    BY <1>1, <1>17 DEF MarkDest, At, InHand, CallsOf, Calls
  <2>2. CASE req[r].todo = {req[r].dest}
    BY <1>1, <1>17, <2>1, <2>2, MarkDestGoes DEF Goes, InHand, CallsOf, Calls, Held
  <2>3. CASE req[r].todo # {req[r].dest}
    BY <1>1, <1>17, <2>1, <2>3, MarkDestGoes DEF Goes, InHand, CallsOf, Calls, Held
  <2>4. QED
    BY <2>2, <2>3
<1>18. ASSUME SaveCount(r, ok) PROVE Holds
  <2>1. req[r].pc = "count" /\ InHand(req[r]) /\ req[r] \in Held
    BY <1>1, <1>18 DEF SaveCount, At, Calls
  <2>2. GoesTo(r, "status")
    BY <1>18, GotoGoes DEF SaveCount, Pcs, Calls
  <2>3. QED
    BY <2>1, <2>2 DEF GoesTo, Keeps, Goes, InHand, CallsOf, Calls, Held
<1>19. ASSUME SaveStatus(r, ok) PROVE Holds
  <2>1. req[r].pc = "status" /\ InHand(req[r]) /\ req[r] \in Held
    BY <1>1, <1>19 DEF SaveStatus, At, Calls
  <2>2. GoesTo(r, "done")
    BY <1>19, GotoGoes DEF SaveStatus, Pcs, Calls
  <2>3. QED
    BY <2>1, <2>2 DEF GoesTo, Keeps, Goes, InHand, CallsOf, Calls, Held
<1>20. ASSUME FindDests(r, ok) PROVE Holds
  <2>1. req[r].pc = "dests" /\ req[r].kind = "undo" /\ req[r].group \in Groups
    BY <1>1, <1>20 DEF FindDests, At, InHand, CallsOf, Calls
  <2>2. Found(r, ok) \subseteq Places
    BY DEF Found
  <2>3. QED
    BY <1>1, <1>20, <2>1, <2>2, FindDestsGoes DEF Goes, InHand, CallsOf, Calls, Held
<1>21. ASSUME NEW p \in Places, ResetDest(r, p, ok) PROVE Holds
  <2>1. req[r].pc = "reset" /\ req[r].kind = "undo" /\ req[r].todo \subseteq Places
    BY <1>1, <1>21 DEF ResetDest, At, InHand, CallsOf, Calls
  <2>2. LoopsTo(r, req[r].todo \ {p}, IF req[r].todo \ {p} = {} THEN "find" ELSE "reset")
    BY <1>21, <2>1, RoundGoes DEF ResetDest, Pcs, Calls
  <2>3. QED
    BY <1>1, <2>1, <2>2 DEF LoopsTo, Keeps, Goes, InHand, CallsOf, Calls, Held
<1>22. ASSUME FindChallans(r, ok) PROVE Holds
  <2> DEFINE found == {c \in ChallansOf(req[r].group) : ok}
  <2>1. /\ req[r].pc = "find" /\ req[r].kind \in {"undo", "groupDelete", "dcDelete"}
        /\ req[r].group \in Groups
    BY <1>1, <1>22 DEF FindChallans, At, InHand, CallsOf, Calls
  <2>2. found \in SUBSET Challans /\ \A c \in found : c[1] = req[r].group
    BY DEF ChallansOf
  <2>3. Loop(r, found, "remove", AfterChallans(r)) /\ AfterChallans(r) \in {"unrow", "ungroup"}
    BY <1>22 DEF FindChallans, AfterChallans
  <2> HIDE DEF found
  <2>4. LoopsTo(r, found, IF found = {} THEN AfterChallans(r) ELSE "remove")
    <3>1. /\ found \in Todos
          /\ "remove" \in Pcs /\ AfterChallans(r) \in Pcs
      BY <2>2, <2>3, TodosHold DEF Pcs, Calls
    <3>2. QED
      BY <2>3, <3>1, LoopGoes
  <2>5. QED
    BY <1>1, <2>1, <2>2, <2>4
    DEF AfterChallans, LoopsTo, Keeps, Goes, InHand, CallsOf, Calls, Held
<1>23. ASSUME NEW c \in Challans, RemoveChallan(r, c, ok) PROVE Holds
  <2>1. /\ req[r].pc = "remove" /\ req[r].kind \in {"undo", "groupDelete", "dcDelete"}
        /\ \A x \in req[r].todo : x \in Challans /\ x[1] = req[r].group
        /\ req[r].kind = "undo" \/ req[r].group \in Groups
    BY <1>1, <1>23 DEF RemoveChallan, At, InHand, CallsOf, Calls
  <2>2. CASE Goto(r, "failed")
    BY <2>1, <2>2, GotoGoes DEF GoesTo, Calls, Pcs
  <2>3. CASE Round(r, c, AfterChallans(r))
    <3>1. LoopsTo(r, req[r].todo \ {c},
                  IF req[r].todo \ {c} = {} THEN AfterChallans(r) ELSE "remove")
      BY <2>1, <2>3, RoundGoes DEF AfterChallans, Pcs, Calls
    <3>2. QED
      BY <1>1, <2>1, <3>1
      DEF AfterChallans, LoopsTo, Keeps, Goes, InHand, CallsOf, Calls, Held
  <2>4. QED
    BY <1>23, <2>2, <2>3 DEF RemoveChallan
<1>24. ASSUME RemoveSplitRow(r, ok) PROVE Holds
  <2>1. req[r].pc = "unrow" /\ InHand(req[r]) /\ req[r] \in Held
    BY <1>1, <1>24 DEF RemoveSplitRow, At, Calls
  <2>2. GoesTo(r, "ungroup")
    BY <1>24, GotoGoes DEF RemoveSplitRow, Pcs, Calls
  <2>3. QED
    BY <2>1, <2>2 DEF GoesTo, Keeps, Goes, InHand, CallsOf, Calls, Held
<1>25. ASSUME RemoveGroup(r, ok) PROVE Holds
  <2>1. req[r].pc = "ungroup" /\ InHand(req[r]) /\ req[r] \in Held
    BY <1>1, <1>25 DEF RemoveGroup, At, Calls
  <2> DEFINE pc == CASE req[r].kind = "undo" -> "count"
                     [] ~ok /\ Stops(r)      -> "failed"
                     [] OTHER                -> "done"
  <2>2. Goto(r, pc)
    BY <1>25 DEF RemoveGroup
  <2>3. pc \in {"done", "failed"} \/ (req[r].kind = "undo" /\ pc = "count")
    BY DEF Stops
  <2> HIDE DEF pc
  <2>4. GoesTo(r, pc)
    BY <2>2, <2>3, GotoGoes DEF Pcs, Calls
  <2>5. QED
    BY <2>1, <2>3, <2>4 DEF GoesTo, Keeps, Goes, InHand, CallsOf, Calls, Held
<1>26. QED
  BY <1>2, <1>3, <1>4, <1>5, <1>6, <1>7, <1>8, <1>9, <1>10, <1>11, <1>12, <1>13, <1>14, <1>15, <1>16, <1>17, <1>18, <1>19, <1>20, <1>21, <1>22, <1>23, <1>24, <1>25 DEF Call, LooseCall

-----------------------------------------------------------------------------
(* The rows keep their types. *)

RowTypes ==
    /\ sgStatus \in [Groups -> RowStatus]
    /\ sgTransfer \in [Groups -> {T, NoTransfer}]
    /\ sgSplit \in [Groups -> BOOLEAN]
    /\ dcStatus \in [Challans -> RowStatus]
    /\ splitNumber \in [Groups -> Nat]
    /\ tStatus \in {"issued", "splitting", "split"}
    /\ isSplit \in [Places -> BOOLEAN]
    /\ splitGroup \in [Places -> Groups \cup {NoGroup}]
    /\ numSplit \in Nat

LEMMA SaveChallanTypes ==
    ASSUME Types, NEW r \in Requests, NEW x \in Places \cup {Transit}, SaveChallan(r, x)
    PROVE  RowTypes'
BY DEF SaveChallan, sgVars, destVars, Types, RowTypes, RowStatus

LEMMA DeleteGroupRowTypes ==
    ASSUME Types, NEW g \in Groups, DeleteGroupRow(g)
    PROVE  /\ sgStatus' \in [Groups -> RowStatus]
           /\ sgTransfer' \in [Groups -> {T, NoTransfer}]
           /\ sgSplit' \in [Groups -> BOOLEAN]
           /\ dcStatus' \in [Challans -> RowStatus]
           /\ splitNumber' \in [Groups -> Nat]
BY DEF DeleteGroupRow, Types, RowStatus

LEMMA NewCountIsNat ==
    ASSUME Types, NEW r \in Requests, req[r].pc \in {"count", "status"}
    PROVE  /\ req[r].kind \in {"split", "undo"} /\ req[r].num \in Nat
           /\ NewCount(req[r]) \in Nat
           /\ req[r].kind = "split" => NewCount(req[r]) = req[r].num + 1
           /\ req[r].kind = "undo" =>
                 NewCount(req[r]) = (IF req[r].num > 0 THEN req[r].num - 1 ELSE 0)
<1>1. InHand(req[r]) /\ req[r] \in Held
  BY CallsAreHeld DEF Calls
<1>2. req[r].kind \in {"split", "undo"} /\ req[r].num \in Nat
  BY <1>1 DEF InHand, CallsOf, Held
<1>3. QED
  BY <1>2 DEF NewCount

LEMMA RowsStep ==
    ASSUME Types, NEW r \in Requests, NEW ok \in BOOLEAN,
           Begin(r) \/ Call(r) \/ LooseCall(r, ok) \/ CallFails(r)
              \/ \E p \in Places : SkipOfficial(r, p)
    PROVE  RowTypes'
<1>1. RowTypes
  BY DEF Types, RowTypes
<1>2. ASSUME UNCHANGED db PROVE RowTypes'
  BY <1>1, <1>2 DEF db, sgVars, destVars, RowTypes
<1>3. ASSUME \/ Begin(r) \/ ReadMeta(r) \/ ReadParent(r) \/ ReadGroup(r) \/ CallFails(r)
             \/ FindDests(r, ok) \/ FindChallans(r, ok)
             \/ \E p \in Places : CheckDest(r, p) \/ ReadDest(r, p, ok) \/ SkipOfficial(r, p)
             \/ \E valid \in BOOLEAN : LoadChallans(r, valid)
      PROVE  RowTypes'
  BY <1>2, <1>3 DEF Begin, ReadMeta, ReadParent, ReadGroup, CallFails, FindDests,
     FindChallans, CheckDest, ReadDest, SkipOfficial, LoadChallans
<1>4. ASSUME req[r].pc \in Calls PROVE InHand(req[r]) /\ req[r] \in Held
  BY <1>4, CallsAreHeld
<1>5. ASSUME NEW p \in Places, SaveOfficial(r, p) PROVE RowTypes'
  BY <1>5, SaveChallanTypes DEF SaveOfficial
<1>6. ASSUME NEW g \in Groups, SaveGroup(r, g) PROVE RowTypes'
  BY <1>6 DEF SaveGroup, destVars, Types, RowTypes, RowStatus
<1>7. ASSUME SaveTransit(r) PROVE RowTypes'
  BY <1>7, SaveChallanTypes DEF SaveTransit
<1>8. ASSUME SaveSplitRow(r) PROVE RowTypes'
  BY <1>4, <1>8 DEF SaveSplitRow, sgVars, destVars, Types, RowTypes, At, Calls, Held
<1>9. ASSUME NEW c \in Challans, IssueChallan(r, c) PROVE RowTypes'
  BY <1>1, <1>9 DEF IssueChallan, sgVars, destVars, RowTypes, RowStatus
<1>10. ASSUME CloseGroup(r) PROVE RowTypes'
  BY <1>1, <1>10 DEF CloseGroup, destVars, RowTypes, RowStatus
<1>11. ASSUME LinkSplit(r, ok) PROVE RowTypes'
  BY <1>1, <1>11 DEF LinkSplit, destVars, RowTypes
<1>12. ASSUME MarkDest(r, ok) PROVE RowTypes'
  BY <1>1, <1>4, <1>12 DEF MarkDest, Saved, sgVars, RowTypes, At, Calls, Held
<1>13. ASSUME SaveCount(r, ok) PROVE RowTypes'
  BY <1>1, <1>13, NewCountIsNat DEF SaveCount, Saved, sgVars, destVars, RowTypes, At
<1>14. ASSUME SaveStatus(r, ok) PROVE RowTypes'
  BY <1>1, <1>14 DEF SaveStatus, Saved, NewStatus, sgVars, destVars, RowTypes
<1>15. ASSUME NEW p \in Places, ResetDest(r, p, ok) PROVE RowTypes'
  BY <1>1, <1>15 DEF ResetDest, Saved, sgVars, RowTypes
<1>16. ASSUME NEW c \in Challans, RemoveChallan(r, c, ok) PROVE RowTypes'
  BY <1>1, <1>16 DEF RemoveChallan, sgVars, destVars, RowTypes, RowStatus
<1>17. ASSUME RemoveSplitRow(r, ok) PROVE RowTypes'
  BY <1>1, <1>17 DEF RemoveSplitRow, destVars, RowTypes
<1>18. ASSUME RemoveGroup(r, ok) PROVE RowTypes'
  <2>1. req[r].group \in Groups
    BY <1>4, <1>18 DEF RemoveGroup, At, InHand, Calls
  <2>2. CASE ok
    BY <1>1, <1>18, <2>1, <2>2, DeleteGroupRowTypes DEF RemoveGroup, destVars, RowTypes
  <2>3. CASE ~ok
    BY <1>1, <1>18, <2>3 DEF RemoveGroup, sgVars, destVars, RowTypes
  <2>4. QED
    BY <2>2, <2>3
<1>19. QED
  BY <1>3, <1>5, <1>6, <1>7, <1>8, <1>9, <1>10, <1>11, <1>12, <1>13, <1>14, <1>15, <1>16,
     <1>17, <1>18 DEF Call, LooseCall

\* A step is one call of one request, which a fault may make fail, or a crash.
Calling(r, ok) == Call(r) \/ LooseCall(r, ok) \/ CallFails(r) \/ \E p \in Places : SkipOfficial(r, p)

LEMMA StepKinds ==
    ASSUME Types, [Next]_vars
    PROVE  \/ \E r \in Requests :
                /\ Begin(r) \/ Call(r) \/ LooseCall(r, TRUE)
                /\ crashes' = crashes /\ errors' = errors
           \/ \E r \in Requests :
                /\ CallFails(r) \/ LooseCall(r, FALSE) \/ \E p \in Places : SkipOfficial(r, p)
                /\ crashes' = crashes /\ errors < MaxErrors /\ errors' = errors + 1
           \/ Crash
           \/ UNCHANGED vars
BY DEF Next, Step, Fault

LEMMA CrashShape ==
    ASSUME Types, Crash
    PROVE  /\ req' \in [Requests -> Held] /\ UNCHANGED db /\ errors' = errors
           /\ crashes < MaxCrashes /\ crashes' = crashes + 1
           /\ \A r \in Requests : /\ req'[r].pc \notin Calls
                                  /\ req'[r].kind = req[r].kind
                                  /\ req[r].pc \in Calls => req'[r].pc = "failed"
                                  /\ req[r].pc \notin Calls => req'[r] = req[r]
<1>1. req' = [r \in Requests |-> IF InFlight(r) THEN Moved(req[r], "failed") ELSE req[r]]
  BY DEF Crash
<1>2. \A r \in Requests : /\ req[r] \in Held
                          /\ Moved(req[r], "failed") \in Held
                          /\ Moved(req[r], "failed").pc = "failed"
                          /\ Moved(req[r], "failed").kind = req[r].kind
  BY MovedShape DEF Types, Pcs
<1>3. \A r \in Requests : InFlight(r) <=> req[r].pc \in Calls
  BY <1>2 DEF InFlight, Held, Pcs, Calls
<1>4. req' \in [Requests -> Held]
  BY <1>1, <1>2
<1>5. \A r \in Requests : /\ req'[r].pc \notin Calls /\ req'[r].kind = req[r].kind
                          /\ req[r].pc \in Calls => req'[r].pc = "failed"
                          /\ req[r].pc \notin Calls => req'[r] = req[r]
  BY <1>1, <1>2, <1>3 DEF Calls
<1>6. QED
  BY <1>4, <1>5 DEF Crash

\* Between any two steps a request is at a call or it is not.
LEMMA InFlightIsAtCall ==
    ASSUME req \in [Requests -> Held], NEW r \in Requests
    PROVE  InFlight(r) <=> req[r].pc \in Calls
BY DEF InFlight, Held, Pcs, Calls

LEMMA TypesStep == Types /\ [Next]_vars => Types'
<1> SUFFICES ASSUME Types, [Next]_vars PROVE Types'
  OBVIOUS
<1>1. SUFFICES /\ RowTypes'
               /\ crashes' \in 0..MaxCrashes /\ errors' \in 0..MaxErrors /\ overlapped' \in BOOLEAN
               /\ req' \in [Requests -> Held]
               /\ \A r \in Requests : InFlight(r)' => InHand(req'[r])
  BY DEF Types, RowTypes
<1>2. overlapped' \in BOOLEAN
  BY DEF Next, Types, vars
<1>3. ASSUME NEW r \in Requests, NEW ok \in BOOLEAN, Begin(r) \/ Calling(r, ok)
      PROVE  /\ RowTypes' /\ req' \in [Requests -> Held]
             /\ \A x \in Requests : InFlight(x)' => InHand(req'[x])
  <2>1. RowTypes'
    BY <1>3, RowsStep DEF Calling
  <2>2. /\ req' \in [Requests -> Held]
        /\ \A x \in Requests : x # r => req'[x] = req[x]
        /\ req'[r].pc \in Calls => InHand(req'[r])
    <3>1. CASE Begin(r)
      BY <3>1, BeginShape DEF InHand, CallsOf, Calls
    <3>2. CASE Calling(r, ok)
      BY <3>2, CallHolds DEF Calling, Goes
    <3>3. QED
      BY <1>3, <3>1, <3>2
  <2>3. \A x \in Requests : InFlight(x)' => req'[x].pc \in Calls
    BY <2>2 DEF InFlight, Held, Pcs, Calls
  <2>4. \A x \in Requests : x # r /\ InFlight(x)' => InHand(req'[x])
    BY <2>2 DEF InFlight, Types
  <2>5. QED
    BY <2>1, <2>2, <2>3, <2>4
<1>4. CASE \E r \in Requests : /\ Begin(r) \/ Call(r) \/ LooseCall(r, TRUE)
                               /\ crashes' = crashes /\ errors' = errors
  BY <1>2, <1>3, <1>4 DEF Calling, Types
<1>5. CASE \E r \in Requests :
             /\ CallFails(r) \/ LooseCall(r, FALSE) \/ \E p \in Places : SkipOfficial(r, p)
             /\ crashes' = crashes /\ errors < MaxErrors /\ errors' = errors + 1
  <2>1. errors' \in 0..MaxErrors
    BY <1>5, StoreAssumption DEF Types
  <2>2. QED
    BY <1>2, <1>3, <1>5, <2>1 DEF Calling, Types
<1>6. CASE Crash
  <2>1. crashes' \in 0..MaxCrashes
    BY <1>6, CrashShape, StoreAssumption DEF Types
  <2>2. RowTypes'
    BY <1>6, CrashShape DEF db, sgVars, destVars, Types, RowTypes
  <2>3. \A r \in Requests : InFlight(r)' => req'[r].pc \in Calls
    BY <1>6, CrashShape DEF InFlight, Held, Pcs, Calls
  <2>4. QED
    BY <1>2, <1>6, <2>1, <2>2, <2>3, CrashShape DEF Types
<1>7. CASE UNCHANGED vars
  BY <1>7 DEF vars, db, sgVars, destVars, Types, RowTypes, InFlight
<1>8. QED
  BY <1>4, <1>5, <1>6, <1>7, StepKinds

LEMMA TypesAreTypeOK == Types => TypeOK
<1> SUFFICES ASSUME Types PROVE TypeOK
  OBVIOUS
<1>1. \A r \in Requests :
        /\ req[r].kind \in Kinds /\ req[r].pc \in Calls \cup {"idle", "done", "failed"}
        /\ req[r].group \in Groups \cup {NoGroup} /\ req[r].num \in Nat
        /\ req[r].todo \subseteq Places \/ req[r].todo \subseteq Challans
  BY DEF Types, Held, Pcs, Todos
<1>2. \A r \in Requests :
        req[r].pc \in {"check", "official", "read", "mark", "reset", "remove", "issue"}
           => req[r].todo # {}
  BY CallsAreHeld DEF Calls, InHand
<1>3. QED
  BY <1>1, <1>2 DEF Types, TypeOK

-----------------------------------------------------------------------------
(* Rows whose group is gone. *)

\* A challan and a split row have a group.
Owned ==
    /\ \A c \in Challans : Exists(c) => GroupExists(c[1])
    /\ \A g \in Groups : splitNumber[g] # 0 \/ sgSplit[g] => GroupExists(g)

LEMMA OwnedIsNoOrphans == Types => (NoOrphans <=> Owned)
<1> SUFFICES ASSUME Types PROVE NoOrphans <=> Owned
  OBVIOUS
<1>1. TypeOK
  BY TypesAreTypeOK
<1>2. \A c \in Challans : c[1] \in Groups
  BY DEF Challans
<1>3. ASSUME NoOrphans PROVE Owned
  BY <1>2, <1>3 DEF NoOrphans, Owned, ChallansOf
<1>4. ASSUME Owned PROVE NoOrphans
  BY <1>1, <1>4 DEF NoOrphans, Owned, ChallansOf
<1>5. QED
  BY <1>3, <1>4

\* Most calls create nothing and leave the groups where they are.
LEMMA OwnedKept ==
    ASSUME Owned,
           \A c \in Challans : Exists(c)' => Exists(c),
           \A g \in Groups : GroupExists(g) => GroupExists(g)',
           \A g \in Groups : (splitNumber'[g] # 0 \/ sgSplit'[g]) => (splitNumber[g] # 0 \/ sgSplit[g])
    PROVE  Owned'
<1>1. \A c \in Challans : c[1] \in Groups
  BY DEF Challans
<1>2. QED
  BY <1>1 DEF Owned

LEMMA SaveChallanOwned ==
    ASSUME Types, Owned, NEW r \in Requests, NEW x \in Places \cup {Transit}, SaveChallan(r, x),
           req[r].group \in Groups
    PROVE  Owned'
<1>1. <<req[r].group, x>> \in Challans /\ <<req[r].group, x>>[1] = req[r].group
  BY DEF Challans
<1>2. \A c \in Challans : Exists(c)' => Exists(c) \/ (c = <<req[r].group, x>> /\ GroupExists(req[r].group))
  BY <1>1 DEF SaveChallan, Types, Exists
<1>3. UNCHANGED <<sgStatus, sgSplit, splitNumber>>
  BY DEF SaveChallan, sgVars
<1>4. QED
  BY <1>1, <1>2, <1>3 DEF Owned, GroupExists

LEMMA DeleteGroupRowOwned ==
    ASSUME Types, Owned, NEW g \in Groups, DeleteGroupRow(g)
    PROVE  Owned'
<1>1. \A c \in Challans : Exists(c)' => Exists(c) /\ c[1] # g
  BY DEF DeleteGroupRow, ChallansOf, Exists
<1>2. \A h \in Groups : h # g => /\ GroupExists(h)' = GroupExists(h)
                                 /\ splitNumber'[h] = splitNumber[h] /\ sgSplit'[h] = sgSplit[h]
  BY DEF DeleteGroupRow, Types, GroupExists
<1>3. splitNumber'[g] = 0 /\ ~sgSplit'[g]
  BY DEF DeleteGroupRow, Types
<1>4. \A c \in Challans : c[1] \in Groups
  BY DEF Challans
<1>5. QED
  BY <1>1, <1>2, <1>3, <1>4 DEF Owned

LEMMA OwnedStep ==
    ASSUME Types, Types', Owned, [Next]_vars
    PROVE  Owned'
<1>1. ASSUME UNCHANGED db PROVE Owned'
  BY <1>1 DEF db, sgVars, Owned, Exists, GroupExists
<1>2. ASSUME NEW r \in Requests, req[r].pc \in Calls
      PROVE  InHand(req[r]) /\ req[r] \in Held
  BY <1>2, CallsAreHeld
<1>3. ASSUME NEW r \in Requests, NEW ok \in BOOLEAN,
             \/ Begin(r) \/ ReadMeta(r) \/ ReadParent(r) \/ ReadGroup(r) \/ CallFails(r)
             \/ FindDests(r, ok) \/ FindChallans(r, ok)
             \/ \E p \in Places : CheckDest(r, p) \/ ReadDest(r, p, ok) \/ SkipOfficial(r, p)
             \/ \E valid \in BOOLEAN : LoadChallans(r, valid)
      PROVE  Owned'
  BY <1>1, <1>3 DEF Begin, ReadMeta, ReadParent, ReadGroup, CallFails, FindDests,
     FindChallans, CheckDest, ReadDest, SkipOfficial, LoadChallans
<1>4. ASSUME NEW r \in Requests, NEW ok \in BOOLEAN,
             \/ SaveCount(r, ok) \/ SaveStatus(r, ok) \/ MarkDest(r, ok)
             \/ \E p \in Places : ResetDest(r, p, ok)
      PROVE  Owned'
  BY <1>4, OwnedKept DEF SaveCount, SaveStatus, MarkDest, ResetDest, sgVars, Exists, GroupExists
<1>5. ASSUME NEW r \in Requests, NEW p \in Places, SaveOfficial(r, p) PROVE Owned'
  BY <1>2, <1>5, SaveChallanOwned DEF SaveOfficial, At, InHand, Calls
<1>6. ASSUME NEW r \in Requests, SaveTransit(r) PROVE Owned'
  BY <1>2, <1>6, SaveChallanOwned DEF SaveTransit, At, InHand, Calls
<1>7. ASSUME NEW r \in Requests, NEW g \in Groups, SaveGroup(r, g) PROVE Owned'
  <2>1. UNCHANGED <<dcStatus, splitNumber, sgSplit>>
    BY <1>7 DEF SaveGroup
  <2>2. \A h \in Groups : GroupExists(h) => GroupExists(h)'
    BY <1>7 DEF SaveGroup, Types, GroupExists
  <2>3. QED
    BY <2>1, <2>2, OwnedKept DEF Exists
<1>8. ASSUME NEW r \in Requests, SaveSplitRow(r) PROVE Owned'
  <2>1. UNCHANGED <<sgStatus, sgSplit, dcStatus>>
    BY <1>8 DEF SaveSplitRow, sgVars
  <2>2. \A g \in Groups : splitNumber'[g] # 0 => splitNumber[g] # 0 \/ GroupExists(g)
    BY <1>8 DEF SaveSplitRow, Types
  <2>3. QED
    BY <2>1, <2>2 DEF Owned, Exists, GroupExists
<1>9. ASSUME NEW r \in Requests, NEW c \in Challans, IssueChallan(r, c) PROVE Owned'
  <2>1. UNCHANGED <<sgStatus, sgSplit, splitNumber>>
    BY <1>9 DEF IssueChallan, sgVars
  <2>2. \A d \in Challans : Exists(d)' => Exists(d)
    BY <1>9 DEF IssueChallan, Types, Exists
  <2>3. QED
    BY <2>1, <2>2, OwnedKept DEF GroupExists
<1>10. ASSUME NEW r \in Requests, CloseGroup(r) PROVE Owned'
  <2>1. UNCHANGED <<dcStatus, sgSplit, splitNumber>>
    BY <1>10 DEF CloseGroup
  <2>2. \A g \in Groups : GroupExists(g) => GroupExists(g)'
    BY <1>10 DEF CloseGroup, Types, GroupExists
  <2>3. QED
    BY <2>1, <2>2, OwnedKept DEF Exists
<1>11. ASSUME NEW r \in Requests, NEW ok \in BOOLEAN, LinkSplit(r, ok) PROVE Owned'
  <2>1. UNCHANGED <<sgStatus, dcStatus, splitNumber>>
    BY <1>11 DEF LinkSplit
  <2>2. \A g \in Groups : sgSplit'[g] => sgSplit[g] \/ splitNumber[g] # 0
    BY <1>11 DEF LinkSplit, Types
  <2>3. QED
    BY <2>1, <2>2, OwnedKept DEF Exists, GroupExists
<1>12. ASSUME NEW r \in Requests, NEW ok \in BOOLEAN, NEW c \in Challans, RemoveChallan(r, c, ok)
       PROVE  Owned'
  <2>1. UNCHANGED <<sgStatus, sgSplit, splitNumber>>
    BY <1>12 DEF RemoveChallan, sgVars
  <2>2. \A d \in Challans : Exists(d)' => Exists(d)
    BY <1>12 DEF RemoveChallan, Types, Exists
  <2>3. QED
    BY <2>1, <2>2, OwnedKept DEF GroupExists
<1>13. ASSUME NEW r \in Requests, NEW ok \in BOOLEAN, RemoveSplitRow(r, ok) PROVE Owned'
  <2>1. UNCHANGED <<sgStatus, dcStatus>>
    BY <1>13 DEF RemoveSplitRow
  <2>2. \A g \in Groups : /\ splitNumber'[g] # 0 => splitNumber[g] # 0
                          /\ sgSplit'[g] => sgSplit[g]
    BY <1>13 DEF RemoveSplitRow, Types
  <2>3. QED
    BY <2>1, <2>2, OwnedKept DEF Exists, GroupExists
<1>14. ASSUME NEW r \in Requests, NEW ok \in BOOLEAN, RemoveGroup(r, ok) PROVE Owned'
  <2>1. req[r].group \in Groups
    BY <1>2, <1>14 DEF RemoveGroup, At, InHand, Calls
  <2>2. CASE ok
    BY <1>14, <2>1, <2>2, DeleteGroupRowOwned DEF RemoveGroup
  <2>3. CASE ~ok
    BY <1>14, <2>3, OwnedKept DEF RemoveGroup, sgVars, Exists, GroupExists
  <2>4. QED
    BY <2>2, <2>3
<1>15. CASE Crash
  BY <1>1, <1>15 DEF Crash
<1>16. CASE UNCHANGED vars
  BY <1>1, <1>16 DEF vars
<1>17. QED
  <2>1. ASSUME NEW r \in Requests, NEW ok \in BOOLEAN, Begin(r) \/ Calling(r, ok) PROVE Owned'
    BY <1>3, <1>4, <1>5, <1>6, <1>7, <1>8, <1>9, <1>10, <1>11, <1>12, <1>13, <1>14, <2>1
    DEF Calling, Call, LooseCall
  <2>2. QED
    BY <1>15, <1>16, <2>1, StepKinds DEF Calling

-----------------------------------------------------------------------------
(* What the calls of a request do to what it holds of the counter. *)

LEMMA CallMemory ==
    ASSUME Types, NEW r \in Requests, NEW ok \in BOOLEAN, Calling(r, ok),
           req'[r].pc \in Calls
    PROVE  /\ req'[r].asked = req[r].asked
           /\ \/ req'[r].num = req[r].num /\ ~At(r, "meta")
              \/ req'[r].num = numSplit /\ At(r, "meta") /\ req'[r].pc \in {"check", "parent"}
           /\ \/ req'[r].group = req[r].group
              \/ SaveGroup(r, req'[r].group) /\ req'[r].group \in Groups
<1>1. req[r] \in Held /\ InHand(req[r])
  BY CallHolds, CallsAreHeld DEF Calling
<1>2. req'[r].pc \notin {"done", "failed"}
  BY DEF Calls
<1> DEFINE Kept == /\ req'[r].asked = req[r].asked /\ req'[r].group = req[r].group
                   /\ req'[r].num = req[r].num
<1>3. ASSUME NEW pc \in Pcs, Goto(r, pc) PROVE Kept
  BY <1>2, <1>3, GotoGoes DEF GoesTo, Keeps
<1>4. ASSUME NEW x, NEW after \in Pcs, Round(r, x, after) PROVE Kept
  BY <1>2, <1>4, RoundGoes DEF LoopsTo, Keeps
<1>5. ASSUME NEW S \in Todos, NEW pc \in Pcs, NEW after \in Pcs, Loop(r, S, pc, after) PROVE Kept
  BY <1>2, <1>5, LoopGoes DEF LoopsTo, Keeps
<1>6. CASE ReadMeta(r)
  BY <1>6, ReadMetaGoes DEF ReadMeta, At
<1>7. CASE ReadParent(r)
  BY <1>7, ReadParentGoes DEF ReadParent, At
<1>8. ASSUME NEW g \in Groups, SaveGroup(r, g) PROVE /\ req'[r].asked = req[r].asked
                                                     /\ req'[r].group = g
                                                     /\ req'[r].num = req[r].num
  BY <1>8, SaveGroupGoes
<1>9. ASSUME \/ ReadGroup(r) \/ SaveSplitRow(r) \/ CloseGroup(r)
             \/ SaveCount(r, ok) \/ SaveStatus(r, ok)
             \/ RemoveSplitRow(r, ok) \/ RemoveGroup(r, ok)
      PROVE  Kept /\ ~At(r, "meta")
  BY <1>3, <1>9 DEF ReadGroup, SaveSplitRow, CloseGroup, SaveCount, SaveStatus, RemoveSplitRow,
     RemoveGroup, At, Pcs, Calls
<1>10. ASSUME CallFails(r) PROVE FALSE
  BY <1>2, <1>10, GotoGoes DEF CallFails, GoesTo, Pcs
<1>11. ASSUME NEW p \in Places,
              CheckDest(r, p) \/ SaveOfficial(r, p) \/ SkipOfficial(r, p) \/ ResetDest(r, p, ok)
       PROVE  Kept /\ ~At(r, "meta")
  BY <1>3, <1>4, <1>11 DEF CheckDest, SaveOfficial, SkipOfficial, ResetDest, AfterOfficials, At,
     Pcs, Calls
<1>12. ASSUME SaveTransit(r) PROVE Kept /\ ~At(r, "meta")
  <2>1. req[r].asked \in Todos
    BY <1>1, TodosHold DEF Held
  <2>2. QED
    BY <1>3, <1>5, <1>12, <2>1 DEF SaveTransit, AfterOfficials, At, Pcs, Calls
<1>13. ASSUME NEW valid \in BOOLEAN, LoadChallans(r, valid) PROVE Kept /\ ~At(r, "meta")
  <2>1. ChallansOf(req[r].group) \in Todos
    BY TodosHold DEF ChallansOf
  <2>2. QED
    BY <1>3, <1>5, <1>13, <2>1 DEF LoadChallans, At, Pcs, Calls
<1>14. ASSUME NEW c \in Challans, IssueChallan(r, c) \/ RemoveChallan(r, c, ok)
       PROVE  Kept /\ ~At(r, "meta")
  BY <1>3, <1>4, <1>14 DEF IssueChallan, RemoveChallan, AfterChallans, At, Pcs, Calls
<1>15. ASSUME LinkSplit(r, ok) PROVE Kept /\ ~At(r, "meta")
  <2>1. req[r].asked \in Todos
    BY <1>1, TodosHold DEF Held
  <2>2. QED
    BY <1>5, <1>15, <2>1 DEF LinkSplit, At, Pcs, Calls
<1>16. ASSUME NEW p \in Places, ReadDest(r, p, ok) PROVE Kept /\ ~At(r, "meta")
  <2>1. CASE ok
    <3>1. ReadDest(r, p, TRUE)
      BY <1>16, <2>1
    <3>2. QED
      BY <3>1, ReadDestGoes DEF ReadDest, At
  <2>2. CASE ~ok
    BY <1>4, <1>16, <2>2 DEF ReadDest, At, Pcs, Calls
  <2>3. QED
    BY <2>1, <2>2
<1>17. ASSUME MarkDest(r, ok) PROVE Kept /\ ~At(r, "meta")
  BY <1>17, MarkDestGoes DEF MarkDest, At
<1>18. ASSUME FindDests(r, ok) PROVE Kept /\ ~At(r, "meta")
  BY <1>18, FindDestsGoes DEF FindDests, At
<1>19. ASSUME FindChallans(r, ok) PROVE Kept /\ ~At(r, "meta")
  <2> DEFINE found == {c \in ChallansOf(req[r].group) : ok}
  <2>1. found \in Todos
    BY TodosHold DEF ChallansOf
  <2>2. Loop(r, found, "remove", AfterChallans(r)) /\ ~At(r, "meta")
    BY <1>19 DEF FindChallans, At
  <2> HIDE DEF found
  <2>3. QED
    BY <1>5, <2>1, <2>2 DEF AfterChallans, Pcs, Calls
<1>20. QED
  BY <1>6, <1>7, <1>8, <1>9, <1>10, <1>11, <1>12, <1>13, <1>14, <1>15, <1>16, <1>17, <1>18,
     <1>19 DEF Calling, Call, LooseCall, SaveGroup, At

LEMMA OnlySaveCountCounts ==
    ASSUME Types, NEW r \in Requests, NEW ok \in BOOLEAN, Calling(r, ok)
    PROVE  \/ numSplit' = numSplit
           \/ /\ At(r, "count") /\ req'[r].pc = "status" /\ numSplit' = NewCount(req[r])
<1>1. ASSUME SaveCount(r, ok)
      PROVE  \/ numSplit' = numSplit
             \/ At(r, "count") /\ req'[r].pc = "status" /\ numSplit' = NewCount(req[r])
  BY <1>1, GotoGoes DEF SaveCount, Saved, GoesTo, Pcs, Calls
<1>2. QED
  BY <1>1 DEF Calling, Call, LooseCall, ReadMeta, ReadParent, ReadGroup, CheckDest, SaveOfficial,
     SaveGroup, SaveTransit, SaveChallan, SaveSplitRow, LoadChallans, IssueChallan, CloseGroup,
     CallFails, SkipOfficial, LinkSplit, MarkDest, SaveStatus, FindDests, FindChallans,
     RemoveSplitRow, RemoveGroup, ReadDest, ResetDest, RemoveChallan, db

\* Whoever has had its turn at num_split stays counted.
LEMMA CountedGrows ==
    ASSUME Types, Types', [Next]_vars
    PROVE  /\ Counted \subseteq Counted' /\ IsFiniteSet(Counted')
           /\ Cardinality(Counted) \in Nat /\ Cardinality(Counted') \in Nat
           /\ Cardinality(Counted) <= Cardinality(Counted')
<1>1. Counted \subseteq Requests /\ Counted' \subseteq Requests
  BY DEF Counted
<1>2. Counted \subseteq Counted'
  <2>1. ASSUME NEW r \in Requests, NEW ok \in BOOLEAN, Begin(r) \/ Calling(r, ok)
        PROVE  Counted \subseteq Counted'
    <3>1. CASE Begin(r)
      BY <3>1, BeginShape DEF Counted
    <3>2. CASE Calling(r, ok)
      <4>1. /\ Goes(r) /\ req[r].pc \in Calls
        BY <3>2, CallHolds DEF Calling
      <4>2. ASSUME At(r, "status") PROVE req'[r].pc = "done"
        <5>1. SaveStatus(r, ok)
          BY <3>2, <4>2 DEF Calling, Call, LooseCall, ReadMeta, ReadParent, ReadGroup, CheckDest,
             SaveOfficial, SaveGroup, SaveTransit, SaveSplitRow, LoadChallans, IssueChallan,
             CloseGroup, CallFails, SkipOfficial, LinkSplit, MarkDest, SaveCount, FindDests,
             FindChallans, RemoveSplitRow, RemoveGroup, ReadDest, ResetDest, RemoveChallan, At
        <5>2. QED
          BY <5>1, GotoGoes DEF SaveStatus, GoesTo, Pcs
      <4>3. QED
        BY <4>1, <4>2 DEF Counted, Goes, At, Calls
    <3>3. QED
      BY <2>1, <3>1, <3>2
  <2>2. CASE Crash
    BY <2>2, CrashShape DEF Counted, Calls
  <2>3. CASE UNCHANGED vars
    BY <2>3 DEF vars, Counted
  <2>4. QED
    BY <2>1, <2>2, <2>3, StepKinds DEF Calling
<1>3. IsFiniteSet(Counted')
  BY <1>1, FS_Subset, StoreAssumption
<1>4. QED
  BY <1>1, <1>2, <1>3, FS_Subset, FS_CardinalityType

LEMMA CountsStep ==
    ASSUME Types, Types', CountsAccounted, [Next]_vars
    PROVE  CountsAccounted'
<1> DEFINE before == Cardinality(Counted)
           after == Cardinality(Counted')
<1>1. before \in Nat /\ after \in Nat /\ before <= after
  BY CountedGrows
<1>2. numSplit \in Nat /\ \A r \in Requests : req[r].num \in Nat
  BY DEF Types, Held
<1>3. numSplit <= before /\ \A r \in Requests : InFlight(r) => req[r].num <= before
  BY DEF CountsAccounted
<1>4. SUFFICES numSplit' <= after /\ \A r \in Requests : InFlight(r)' => req'[r].num <= after
  BY DEF CountsAccounted
<1>5. ASSUME NEW r \in Requests, Begin(r)
      PROVE  numSplit' <= after /\ \A x \in Requests : InFlight(x)' => req'[x].num <= after
  <2>1. numSplit' = numSplit /\ req'[r].num = 0 /\ \A x \in Requests : x # r => req'[x] = req[x]
    BY <1>5, BeginShape DEF db
  <2>2. \A x \in Requests : x # r /\ InFlight(x)' => InFlight(x)
    BY <2>1 DEF InFlight
  <2> HIDE DEF before, after
  <2>3. numSplit' <= after
    BY <1>1, <1>2, <1>3, <2>1
  <2>4. ASSUME NEW x \in Requests, InFlight(x)' PROVE req'[x].num <= after
    <3>1. CASE x = r
      BY <1>1, <2>1, <3>1
    <3>2. CASE x # r
      <4>1. req[x].num <= before /\ req[x].num \in Nat /\ req'[x].num = req[x].num
        BY <1>2, <1>3, <2>1, <2>2, <2>4, <3>2
      <4>2. QED
        BY <1>1, <4>1
    <3>3. QED
      BY <3>1, <3>2
  <2>5. QED
    BY <2>3, <2>4
<1>6. ASSUME NEW r \in Requests, NEW ok \in BOOLEAN, Calling(r, ok)
      PROVE  numSplit' <= after /\ \A x \in Requests : InFlight(x)' => req'[x].num <= after
  <2>1. Goes(r) /\ req[r].pc \in Calls
    BY <1>6, CallHolds DEF Calling
  <2>2. InFlight(r) /\ req[r].num <= before /\ req[r].num \in Nat
    BY <1>2, <1>3, <2>1 DEF InFlight, Calls
  <2>3. numSplit' <= after
    <3>1. CASE numSplit' = numSplit
      <4> HIDE DEF before, after
      <4>1. QED
        BY <1>1, <1>2, <1>3, <3>1
    <3>2. CASE At(r, "count") /\ req'[r].pc = "status" /\ numSplit' = NewCount(req[r])
      <4>1. /\ req[r].kind \in {"split", "undo"}
            /\ req[r].kind = "split" => NewCount(req[r]) = req[r].num + 1
            /\ req[r].kind = "undo" =>
                 NewCount(req[r]) = (IF req[r].num > 0 THEN req[r].num - 1 ELSE 0)
        BY <3>2, NewCountIsNat DEF At
      <4>2. CASE req[r].kind = "split"
        <5>1. r \notin Counted /\ r \in Counted'
          BY <2>1, <3>2, <4>2 DEF Counted, At, Goes
        <5>2. Counted \cup {r} \subseteq Counted' /\ IsFiniteSet(Counted')
          BY <5>1, CountedGrows
        <5>3. IsFiniteSet(Counted)
          BY <5>2, FS_Subset
        <5>4. Cardinality(Counted \cup {r}) = before + 1
          BY <5>1, <5>3, FS_AddElement
        <5>5. Cardinality(Counted \cup {r}) <= after
          BY <5>2, FS_Subset
        <5> HIDE DEF before, after
        <5>6. QED
          BY <1>1, <2>2, <3>2, <4>1, <4>2, <5>4, <5>5
      <4>3. CASE req[r].kind = "undo"
        <5> HIDE DEF before, after
        <5>1. QED
          BY <1>1, <2>2, <3>2, <4>1, <4>3
      <4>4. QED
        BY <4>1, <4>2, <4>3
    <3>3. QED
      BY <1>6, <3>1, <3>2, OnlySaveCountCounts
  <2>4. ASSUME NEW x \in Requests, InFlight(x)' PROVE req'[x].num <= after
    <3>1. CASE x = r
      <4>1. req'[r].pc \in Calls
        BY <2>1, <2>4, <3>1 DEF InFlight, Goes, Held, Pcs, Calls
      <4>2. req'[r].num \in {req[r].num, numSplit}
        BY <1>6, <4>1, CallMemory
      <4> HIDE DEF before, after
      <4>3. QED
        BY <1>1, <1>2, <1>3, <2>2, <3>1, <4>2
    <3>2. CASE x # r
      <4>1. req'[x] = req[x] /\ InFlight(x)
        BY <2>1, <2>4, <3>2 DEF Goes, InFlight
      <4>2. req[x].num <= before /\ req[x].num \in Nat
        BY <1>2, <1>3, <4>1
      <4> HIDE DEF before, after
      <4>3. QED
        BY <1>1, <4>1, <4>2
    <3>3. QED
      BY <3>1, <3>2
  <2>5. QED
    BY <2>3, <2>4
<1>7. CASE UNCHANGED db /\ \A r \in Requests : InFlight(r)' => req'[r] = req[r] /\ InFlight(r)
  <2>1. numSplit' = numSplit
    BY <1>7 DEF db
  <2>2. ASSUME NEW x \in Requests, InFlight(x)' PROVE req'[x].num <= after
    <3>1. req'[x].num = req[x].num /\ req[x].num <= before /\ req[x].num \in Nat
      BY <1>2, <1>3, <1>7, <2>2
    <3> HIDE DEF before, after
    <3>2. QED
      BY <1>1, <3>1
  <2> HIDE DEF before, after
  <2>3. QED
    BY <1>1, <1>2, <1>3, <2>1, <2>2
<1>8. ASSUME Crash \/ UNCHANGED vars
      PROVE  UNCHANGED db /\ \A r \in Requests : InFlight(r)' => req'[r] = req[r] /\ InFlight(r)
  BY <1>8, CrashShape DEF InFlight, Held, Pcs, Calls, vars
<1>9. QED
  BY <1>5, <1>6, <1>7, <1>8, StepKinds DEF Calling

-----------------------------------------------------------------------------
(* Destinations whose official challan was never created. *)

\* A creation comes past an official challan by creating it or by skipping it.
LEMMA PassedGrows ==
    ASSUME Types, NEW r \in Requests, NEW ok \in BOOLEAN, Calling(r, ok),
           NEW q \in Passed(r)'
    PROVE  /\ req'[r].group = req[r].group
           /\ \/ q \in Passed(r)
              \/ SaveOfficial(r, q) /\ GroupExists(req[r].group)
              \/ SkipOfficial(r, q)
<1> DEFINE Grew == /\ req'[r].group = req[r].group
                   /\ \/ q \in Passed(r)
                      \/ SaveOfficial(r, q) /\ GroupExists(req[r].group)
                      \/ SkipOfficial(r, q)
<1>1. /\ Goes(r) /\ req[r].pc \in Calls /\ req[r] \in Held /\ InHand(req[r])
  BY CallHolds, CallsAreHeld DEF Calling
<1>2. /\ req[r].kind = "split" /\ req'[r].kind = "split"
      /\ req'[r].pc \in {"official", "row", "link", "read", "mark"}
      /\ q \in req'[r].asked
      /\ req'[r].pc = "official" => q \notin req'[r].todo
  BY <1>1 DEF Passed, At, Goes
<1>3. /\ req[r].pc \in {"meta", "check", "group", "transit", "official", "row", "link", "read",
                        "mark", "count", "status"}
      /\ req[r].asked # {} /\ req[r].asked \in SUBSET Places
  BY <1>1, <1>2 DEF InHand, CallsOf, Held
<1>4. ASSUME NEW pc \in Pcs, Goto(r, pc)
      PROVE  /\ req'[r].pc = pc
             /\ pc \notin {"done", "failed"} => /\ req'[r].group = req[r].group
                                                /\ req'[r].asked = req[r].asked
  BY <1>4, GotoGoes DEF GoesTo, Keeps
<1>5. ASSUME CallFails(r) \/ ReadMeta(r) \/ SaveCount(r, ok) \/ SaveStatus(r, ok)
      PROVE  FALSE
  BY <1>2, <1>4, <1>5, ReadMetaGoes DEF CallFails, SaveCount, SaveStatus, Pcs, Calls
<1>6. ASSUME NEW p \in Places, CheckDest(r, p) PROVE FALSE
  BY <1>2, <1>4, <1>6, RoundGoes DEF CheckDest, LoopsTo, At, Pcs, Calls
<1>7. ASSUME NEW g \in Groups, SaveGroup(r, g) PROVE FALSE
  BY <1>2, <1>7, SaveGroupGoes
<1>8. ASSUME SaveTransit(r) PROVE FALSE
  <2>1. Loop(r, req[r].asked, "official", AfterOfficials(r))
    BY <1>2, <1>4, <1>8 DEF SaveTransit, Pcs
  <2>2. req[r].asked \in Todos /\ "official" \in Pcs /\ AfterOfficials(r) \in Pcs
    BY <1>3, TodosHold DEF AfterOfficials, Pcs, Calls
  <2>3. req'[r].pc = "official" /\ req'[r].todo = req[r].asked /\ req'[r].asked = req[r].asked
    BY <1>2, <1>3, <2>1, <2>2, LoopGoes DEF LoopsTo, Keeps
  <2>4. QED
    BY <1>2, <2>3
<1>9. ASSUME NEW p \in Places, SaveOfficial(r, p) \/ SkipOfficial(r, p) PROVE Grew
  <2>1. /\ Round(r, p, "row") /\ At(r, "official")
        /\ SaveOfficial(r, p) => GroupExists(req[r].group)
    BY <1>2, <1>4, <1>9 DEF SaveOfficial, SkipOfficial, AfterOfficials, Pcs
  <2>2. LoopsTo(r, req[r].todo \ {p}, IF req[r].todo \ {p} = {} THEN "row" ELSE req[r].pc)
    BY <2>1, RoundGoes DEF Pcs, Calls
  <2>3. /\ req'[r].group = req[r].group /\ req'[r].asked = req[r].asked
        /\ req'[r].todo = req[r].todo \ {p}
        /\ req'[r].pc = "row" => req[r].todo \ {p} = {}
        /\ req'[r].pc \in {"row", "official"}
    BY <1>2, <2>1, <2>2 DEF LoopsTo, Keeps, At
  <2>4. q \in req[r].asked /\ (q \notin req[r].todo \/ q = p)
    BY <1>2, <2>3
  <2>5. QED
    BY <1>2, <1>9, <2>1, <2>3, <2>4 DEF Passed, At
<1>10. ASSUME SaveSplitRow(r) PROVE Grew
  BY <1>2, <1>4, <1>10 DEF SaveSplitRow, At, Passed, Pcs, Calls
<1>11. ASSUME LinkSplit(r, ok) PROVE Grew
  <2>1. /\ req[r].asked \in Todos /\ At(r, "link")
        /\ Loop(r, req[r].asked, "read", "count")
    BY <1>3, <1>11, TodosHold DEF LinkSplit
  <2>2. LoopsTo(r, req[r].asked, "read")
    BY <1>3, <2>1, LoopGoes DEF Pcs, Calls
  <2>3. QED
    BY <1>2, <2>1, <2>2 DEF LoopsTo, Keeps, At, Passed
<1>12. ASSUME NEW p \in Places, ReadDest(r, p, ok) PROVE Grew
  <2>1. CASE ok
    <3>1. ReadDest(r, p, TRUE) /\ At(r, "read")
      BY <1>12, <2>1 DEF ReadDest
    <3>2. req'[r].group = req[r].group /\ req'[r].asked = req[r].asked
      BY <3>1, ReadDestGoes
    <3>3. QED
      BY <1>2, <3>1, <3>2 DEF At, Passed
  <2>2. CASE ~ok
    <3>1. Round(r, p, "count") /\ At(r, "read")
      BY <1>12, <2>2 DEF ReadDest
    <3>2. req'[r].group = req[r].group /\ req'[r].asked = req[r].asked
      BY <1>2, <3>1, RoundGoes DEF LoopsTo, Keeps, Pcs, Calls
    <3>3. QED
      BY <1>2, <3>1, <3>2 DEF At, Passed
  <2>3. QED
    BY <2>1, <2>2
<1>13. ASSUME MarkDest(r, ok) PROVE Grew
  <2>1. At(r, "mark") /\ req'[r].group = req[r].group /\ req'[r].asked = req[r].asked
    BY <1>13, MarkDestGoes DEF MarkDest
  <2>2. QED
    BY <1>2, <2>1 DEF At, Passed
<1>14. ASSUME \/ ReadParent(r) \/ ReadGroup(r) \/ FindDests(r, ok) \/ FindChallans(r, ok)
              \/ RemoveSplitRow(r, ok) \/ RemoveGroup(r, ok) \/ CloseGroup(r)
              \/ \E p \in Places : ResetDest(r, p, ok)
              \/ \E c \in Challans : RemoveChallan(r, c, ok) \/ IssueChallan(r, c)
              \/ \E valid \in BOOLEAN : LoadChallans(r, valid)
       PROVE  FALSE
  BY <1>3, <1>14 DEF ReadParent, ReadGroup, FindDests, FindChallans, RemoveSplitRow, RemoveGroup,
     CloseGroup, ResetDest, RemoveChallan, IssueChallan, LoadChallans, At
<1>15. QED
  BY <1>5, <1>6, <1>7, <1>8, <1>9, <1>10, <1>11, <1>12, <1>13, <1>14 DEF Calling, Call, LooseCall

\* A challan that was created leaves a row or the memory of one.
LEMMA CreatedStays ==
    ASSUME Types, NEW r \in Requests, NEW ok \in BOOLEAN, Begin(r) \/ Calling(r, ok),
           NEW c \in Challans, dcStatus'[c] = "none"
    PROVE  dcStatus[c] = "none"
<1>1. ASSUME NEW x, SaveChallan(r, x) PROVE dcStatus[c] = "none"
  BY <1>1 DEF SaveChallan, Types
<1>2. ASSUME \/ \E d \in Challans : IssueChallan(r, d) \/ RemoveChallan(r, d, ok)
      PROVE  dcStatus[c] = "none"
  BY <1>2 DEF IssueChallan, RemoveChallan, Types
<1>3. ASSUME RemoveGroup(r, ok) PROVE dcStatus[c] = "none"
  BY <1>3 DEF RemoveGroup, DeleteGroupRow
<1>4. ASSUME UNCHANGED dcStatus PROVE dcStatus[c] = "none"
  BY <1>4
<1>5. QED
  BY <1>1, <1>2, <1>3, <1>4 DEF Begin, Calling, Call, LooseCall, ReadMeta, ReadParent, ReadGroup,
     CheckDest, SaveOfficial, SaveGroup, SaveTransit, SaveSplitRow, LoadChallans, CloseGroup,
     CallFails, SkipOfficial, LinkSplit, MarkDest, SaveCount, SaveStatus, FindDests, FindChallans,
     RemoveSplitRow, ReadDest, ResetDest, db

\* A destination comes to name a group when that group's creation marks it.
LEMMA NamedByCreation ==
    ASSUME Types, NEW r \in Requests, NEW ok \in BOOLEAN, Begin(r) \/ Calling(r, ok),
           NEW p \in Places, splitGroup'[p] \in Groups, NoGroup \notin Groups
    PROVE  \/ splitGroup'[p] = splitGroup[p]
           \/ splitGroup'[p] = req[r].group /\ p \in Passed(r)
<1>1. ASSUME MarkDest(r, ok)
      PROVE  \/ splitGroup'[p] = splitGroup[p]
             \/ splitGroup'[p] = req[r].group /\ p \in Passed(r)
  <2>1. /\ At(r, "mark") /\ InHand(req[r]) /\ req[r].dest \in Places
    BY <1>1, CallsAreHeld DEF MarkDest, At, Calls, InHand, Held
  <2>2. req[r].kind = "split" /\ req[r].dest \in Passed(r)
    BY <2>1 DEF InHand, CallsOf, At, Passed
  <2>3. splitGroup'[p] # splitGroup[p] => p = req[r].dest /\ splitGroup'[p] = req[r].group
    BY <1>1 DEF MarkDest, Saved, Types
  <2>4. QED
    BY <2>2, <2>3
<1>2. ASSUME NEW x \in Places, ResetDest(r, x, ok) PROVE splitGroup'[p] = splitGroup[p]
  BY <1>2 DEF ResetDest, Saved, Types
<1>3. QED
  BY <1>1, <1>2 DEF Begin, Calling, Call, LooseCall, ReadMeta, ReadParent, ReadGroup, CheckDest,
     SaveOfficial, SaveChallan, SaveGroup, SaveTransit, SaveSplitRow, LoadChallans, IssueChallan,
     CloseGroup, CallFails, SkipOfficial, LinkSplit, SaveCount, SaveStatus, FindDests,
     FindChallans, RemoveChallan, RemoveSplitRow, RemoveGroup, ReadDest, db, destVars

\* One call adds a missing challan at most: the one whose destination it skips.
LEMMA MissingGrows ==
    ASSUME Types, Types', NEW r \in Requests, NEW ok \in BOOLEAN, Begin(r) \/ Calling(r, ok),
           NEW c \in Missing'
    PROVE  c \in Missing \/ (c = <<req[r].group, c[2]>> /\ SkipOfficial(r, c[2]))
<1>1. /\ c \in Groups \X Places /\ c = <<c[1], c[2]>> /\ c[1] \in Groups /\ c[2] \in Places
      /\ c \in Challans /\ dcStatus'[c] = "none"
  BY DEF Missing, Challans
<1>2. dcStatus[c] = "none"
  BY <1>1, CreatedStays
<1>3. ASSUME NEW x \in Requests, req[x].group = c[1], c[2] \in Passed(x) PROVE c \in Missing
  BY <1>1, <1>2, <1>3 DEF Missing
<1>4. CASE splitGroup'[c[2]] = c[1]
  <2>1. splitGroup[c[2]] = c[1] => c \in Missing
    BY <1>1, <1>2 DEF Missing
  <2>2. QED
    BY <1>1, <1>3, <1>4, <2>1, NamedByCreation, StoreAssumption
<1>5. ASSUME NEW x \in Requests, req'[x].group = c[1], c[2] \in Passed(x)' PROVE
             c \in Missing \/ (c = <<req[r].group, c[2]>> /\ SkipOfficial(r, c[2]))
  <2>1. CASE Begin(r)
    <3>1. /\ x # r => req'[x] = req[x]
          /\ req'[r].pc \notin {"official", "row", "link", "read", "mark"}
      BY <2>1, BeginShape
    <3>2. x # r
      BY <1>5, <3>1 DEF Passed, At
    <3>3. QED
      BY <1>3, <1>5, <3>1, <3>2 DEF Passed, At
  <2>2. CASE Calling(r, ok) /\ x # r
    <3>1. req'[x] = req[x]
      BY <2>2, CallHolds DEF Calling, Goes
    <3>2. QED
      BY <1>3, <1>5, <3>1 DEF Passed, At
  <2>3. CASE Calling(r, ok) /\ x = r
    <3>1. /\ req'[r].group = req[r].group
          /\ \/ c[2] \in Passed(r)
             \/ SaveOfficial(r, c[2]) /\ GroupExists(req[r].group)
             \/ SkipOfficial(r, c[2])
      BY <1>5, <2>3, PassedGrows
    <3>2. ASSUME SaveOfficial(r, c[2]), GroupExists(req[r].group) PROVE FALSE
      <4>1. c = <<req[r].group, c[2]>>
        BY <1>1, <1>5, <2>3, <3>1
      <4>2. dcStatus' = [dcStatus EXCEPT ![c] = "draft"]
        BY <3>2, <4>1 DEF SaveOfficial, SaveChallan
      <4>3. QED
        BY <1>1, <4>2 DEF Types
    <3>3. QED
      BY <1>1, <1>3, <1>5, <2>3, <3>1, <3>2
  <2>4. QED
    BY <2>1, <2>2, <2>3
<1>6. QED
  BY <1>4, <1>5 DEF Missing

\* Without a fault none is.
LEMMA OnlyFaultsSkip ==
    ASSUME Types, NEW r \in Requests, Begin(r) \/ Call(r) \/ LooseCall(r, TRUE),
           NEW p \in Places, SkipOfficial(r, p)
    PROVE  dcStatus'[<<req[r].group, p>>] = "draft"
<1>1. /\ At(r, "official") /\ p \in req[r].todo /\ req[r].kind = "split" /\ Round(r, p, "row")
      /\ req[r] \in Held /\ InHand(req[r])
  BY CallsAreHeld DEF SkipOfficial, At, Calls
<1>2. LoopsTo(r, req[r].todo \ {p}, IF req[r].todo \ {p} = {} THEN "row" ELSE req[r].pc)
  BY <1>1, RoundGoes DEF Pcs, Calls
<1>3. req'[r].todo = req[r].todo \ {p} /\ req'[r].pc \in {"row", "official"}
  BY <1>1, <1>2 DEF LoopsTo, At
<1>4. PICK q \in Places : SaveOfficial(r, q)
  BY <1>1 DEF Begin, Call, LooseCall, ReadMeta, ReadParent, ReadGroup, CheckDest, SaveGroup,
     SaveTransit, SaveSplitRow, LoadChallans, IssueChallan, CloseGroup, LinkSplit, MarkDest,
     SaveCount, SaveStatus, FindDests, FindChallans, RemoveChallan, RemoveSplitRow, RemoveGroup,
     ReadDest, ResetDest, At
<1>5. GroupExists(req[r].group) /\ Round(r, q, "row") /\ q \in req[r].todo
  <2>1. ~Goto(r, "failed")
    BY <1>3, GotoGoes DEF GoesTo, Pcs
  <2>2. QED
    BY <1>1, <1>4, <2>1 DEF SaveOfficial, AfterOfficials
<1>6. LoopsTo(r, req[r].todo \ {q}, IF req[r].todo \ {q} = {} THEN "row" ELSE req[r].pc)
  BY <1>5, RoundGoes DEF Pcs, Calls
<1>7. req'[r].todo = req[r].todo \ {q}
  BY <1>1, <1>6 DEF LoopsTo, At
<1>8. p = q
  BY <1>1, <1>3, <1>5, <1>7
<1>9. /\ dcStatus' = [dcStatus EXCEPT ![<<req[r].group, p>>] = "draft"]
      /\ <<req[r].group, p>> \in Challans
  BY <1>1, <1>4, <1>5, <1>8 DEF SaveOfficial, SaveChallan, Challans, InHand, At
<1>10. QED
  BY <1>9 DEF Types

LEMMA MissingStep ==
    ASSUME Types, Types', MissingAreErrors, [Next]_vars
    PROVE  MissingAreErrors'
<1>1. IsFiniteSet(Missing) /\ Cardinality(Missing) \in Nat /\ Cardinality(Missing) <= errors
  BY FS_CardinalityType DEF MissingAreErrors
<1>2. errors \in Nat
  BY StoreAssumption DEF Types
<1>3. ASSUME Missing' \subseteq Missing, errors' = errors PROVE MissingAreErrors'
  <2>1. /\ IsFiniteSet(Missing') /\ Cardinality(Missing') \in Nat
        /\ Cardinality(Missing') <= Cardinality(Missing)
    BY <1>1, <1>3, FS_Subset, FS_CardinalityType
  <2>2. QED
    BY <1>1, <1>2, <1>3, <2>1 DEF MissingAreErrors
<1>4. ASSUME NEW r \in Requests, Begin(r) \/ Call(r) \/ LooseCall(r, TRUE), errors' = errors
      PROVE  MissingAreErrors'
  <2>1. Begin(r) \/ Calling(r, TRUE)
    BY <1>4 DEF Calling
  <2>2. ASSUME NEW c \in Missing', c \notin Missing PROVE FALSE
    <3>1. c = <<req[r].group, c[2]>> /\ SkipOfficial(r, c[2])
      BY <2>1, <2>2, MissingGrows
    <3>2. c[2] \in Places /\ dcStatus'[c] = "none"
      BY DEF Missing
    <3>3. dcStatus'[c] = "draft"
      BY <1>4, <3>1, <3>2, OnlyFaultsSkip
    <3>4. QED
      BY <3>2, <3>3
  <2>3. QED
    BY <1>3, <1>4, <2>2
<1>5. ASSUME NEW r \in Requests,
             CallFails(r) \/ LooseCall(r, FALSE) \/ \E p \in Places : SkipOfficial(r, p),
             errors' = errors + 1
      PROVE  MissingAreErrors'
  <2>1. Calling(r, FALSE)
    BY <1>5 DEF Calling
  <2>2. \A c \in Missing' : c \in Missing \/ (c = <<req[r].group, c[2]>> /\ SkipOfficial(r, c[2]))
    BY <2>1, MissingGrows
  <2>3. \A c, d \in Missing' \ Missing : c = d
    <3>1. ASSUME NEW p, NEW q, SkipOfficial(r, p), SkipOfficial(r, q) PROVE p = q
      <4>1. ASSUME NEW x, SkipOfficial(r, x)
            PROVE  x \in req[r].todo /\ req'[r].todo = req[r].todo \ {x}
        <5>1. At(r, "official") /\ Round(r, x, "row") /\ x \in req[r].todo
          BY <4>1 DEF SkipOfficial
        <5>2. LoopsTo(r, req[r].todo \ {x}, IF req[r].todo \ {x} = {} THEN "row" ELSE req[r].pc)
          BY <5>1, RoundGoes DEF Pcs, Calls
        <5>3. QED
          BY <5>1, <5>2 DEF LoopsTo, At
      <4>2. QED
        BY <3>1, <4>1
    <3>2. QED
      BY <2>2, <3>1
  <2>4. PICK new : Missing' \ Missing \subseteq {new}
    <3>1. CASE Missing' \ Missing = {}
      BY <3>1
    <3>2. CASE \E c : c \in Missing' \ Missing
      BY <2>3, <3>2
    <3>3. QED
      BY <3>1, <3>2
  <2>5. /\ IsFiniteSet(Missing \cup {new}) /\ Cardinality(Missing \cup {new}) \in Nat
        /\ Cardinality(Missing \cup {new}) <= Cardinality(Missing) + 1
    <3>1. /\ IsFiniteSet(Missing \cup {new})
          /\ \/ Cardinality(Missing \cup {new}) = Cardinality(Missing)
             \/ Cardinality(Missing \cup {new}) = Cardinality(Missing) + 1
      BY <1>1, FS_AddElement
    <3>2. Cardinality(Missing) \in Nat
      BY <1>1, FS_CardinalityType
    <3>3. QED
      BY <3>1, <3>2
  <2>6. Missing' \subseteq Missing \cup {new}
    BY <2>4
  <2>7. /\ IsFiniteSet(Missing') /\ Cardinality(Missing') \in Nat
        /\ Cardinality(Missing') <= Cardinality(Missing \cup {new})
    BY <2>5, <2>6, FS_Subset, FS_CardinalityType
  <2>8. QED
    BY <1>1, <1>2, <1>5, <2>5, <2>7 DEF MissingAreErrors
<1>6. ASSUME UNCHANGED db, errors' = errors,
             \A r \in Requests : req'[r].pc \in Calls => req'[r] = req[r]
      PROVE  MissingAreErrors'
  <2>1. \A r \in Requests : Passed(r)' # {} => req'[r] = req[r]
    BY <1>6 DEF Passed, At, Calls
  <2>2. Missing' \subseteq Missing
    <3>1. UNCHANGED <<dcStatus, splitGroup>>
      BY <1>6 DEF db, destVars
    <3>2. \A r \in Requests : Passed(r)' \subseteq Passed(r)
      BY <2>1 DEF Passed, At
    <3>3. \A r \in Requests : Passed(r)' # {} => req'[r].group = req[r].group
      BY <2>1
    <3>4. QED
      BY <3>1, <3>2, <3>3 DEF Missing
  <2>3. QED
    BY <1>3, <1>6, <2>2
<1>7. Crash => MissingAreErrors'
  BY <1>6, CrashShape
<1>8. UNCHANGED vars => MissingAreErrors'
  BY <1>6 DEF vars
<1>9. QED
  BY <1>4, <1>5, <1>7, <1>8, StepKinds

\* Destinations that name a group never shipped to them are missing their challan.
LEMMA UnshippedAreMissing ==
    ASSUME Types, MissingAreErrors
    PROVE  MarkedAfterShipped
<1> DEFINE f == [p \in Unshipped |-> <<splitGroup[p], p>>]
<1>1. f \in Injection(Unshipped, Missing)
  BY DEF Unshipped, Missing, Types, Injection, IsInjective
<1>2. IsFiniteSet(Missing) /\ Cardinality(Missing) \in Nat /\ Cardinality(Missing) <= errors
  BY FS_CardinalityType DEF MissingAreErrors
<1>3. IsFiniteSet(Unshipped) /\ Cardinality(Unshipped) <= Cardinality(Missing)
  BY <1>1, <1>2, FS_Injection DEF ExistsInjection
<1>4. Cardinality(Unshipped) \in Nat /\ errors \in Nat
  BY <1>3, FS_CardinalityType, StoreAssumption DEF Types
<1>5. QED
  BY <1>2, <1>3, <1>4 DEF MarkedAfterShipped

-----------------------------------------------------------------------------
(* Requests that do not overlap. *)

\* Whoever makes a call while requests do not overlap is alone.
LEMMA OneAtATimeStep ==
    ASSUME Types, Types', OneAtATime, [Next]_vars
    PROVE  OneAtATime'
<1>1. CASE UNCHANGED vars
  BY <1>1 DEF vars, OneAtATime, InFlight
<1>2. CASE Next
  <2> SUFFICES ASSUME ~overlapped', NEW r \in Requests, NEW s \in Requests,
                      InFlight(r)', InFlight(s)', r # s
               PROVE  FALSE
    BY DEF OneAtATime
  <2> DEFINE flying == {x \in Requests : InFlight(x)'}
  <2>1. IsFiniteSet(flying) /\ {r, s} \subseteq flying
    BY FS_Subset, StoreAssumption
  <2>2. /\ IsFiniteSet({r}) /\ Cardinality({r}) = 1
        /\ Cardinality({r} \cup {s}) = Cardinality({r}) + 1
    BY FS_Singleton, FS_AddElement
  <2>3. Cardinality({r, s}) = 2
    <3>1. {r} \cup {s} = {r, s}
      OBVIOUS
    <3>2. QED
      BY <2>2, <3>1
  <2>4. Cardinality({r, s}) <= Cardinality(flying) /\ Cardinality(flying) \in Nat
    BY <2>1, FS_Subset, FS_CardinalityType
  <2> DEFINE n == Cardinality(flying)
  <2>5. n \in Nat /\ 2 <= n
    BY <2>3, <2>4
  <2>6. ~(n > 1)
    BY <1>2 DEF Next
  <2> HIDE DEF n
  <2>7. QED
    BY <2>5, <2>6
<1>3. QED
  BY <1>1, <1>2

LEMMA OverlapStays ==
    ASSUME Types, [Next]_vars, ~overlapped'
    PROVE  ~overlapped
BY DEF Next, vars

\* A call touches the group and the challans its request names, and only some do.
LEMMA TouchesOwnGroup ==
    ASSUME Types, NEW r \in Requests, NEW ok \in BOOLEAN, Calling(r, ok)
    PROVE  /\ \A g \in Groups : \/ sgStatus[g] = "none" \/ sgStatus'[g] = sgStatus[g]
                                \/ g = req[r].group /\ req[r].pc \in {"close", "ungroup"}
           /\ \A c \in Challans :
                \/ dcStatus'[c] = dcStatus[c]
                \/ /\ c[1] = req[r].group
                   /\ req[r].pc \in {"transit", "official", "issue", "remove", "ungroup"}
<1> DEFINE Own == /\ \A g \in Groups : \/ sgStatus[g] = "none" \/ sgStatus'[g] = sgStatus[g]
                                       \/ g = req[r].group /\ req[r].pc \in {"close", "ungroup"}
                  /\ \A c \in Challans :
                       \/ dcStatus'[c] = dcStatus[c]
                       \/ /\ c[1] = req[r].group
                          /\ req[r].pc \in {"transit", "official", "issue", "remove", "ungroup"}
<1>1. ASSUME UNCHANGED <<sgStatus, dcStatus>> PROVE Own
  BY <1>1
<1>2. ASSUME NEW x \in Places \cup {Transit}, SaveChallan(r, x),
             req[r].pc \in {"transit", "official"}
      PROVE  Own
  BY <1>2 DEF SaveChallan, sgVars, Types
<1>3. ASSUME NEW g \in Groups, SaveGroup(r, g) PROVE Own
  BY <1>3 DEF SaveGroup, Types
<1>4. ASSUME CloseGroup(r) PROVE Own
  BY <1>4 DEF CloseGroup, Types, At
<1>5. ASSUME NEW c \in Challans, IssueChallan(r, c) \/ RemoveChallan(r, c, ok) PROVE Own
  <2>1. req[r].pc \in {"issue", "remove"} /\ c \in req[r].todo
    BY <1>5 DEF IssueChallan, RemoveChallan, At
  <2>2. c[1] = req[r].group
    BY <2>1, CallsAreHeld DEF InHand, Calls
  <2>3. QED
    BY <1>5, <2>1, <2>2 DEF IssueChallan, RemoveChallan, sgVars, Types
<1>6. ASSUME RemoveGroup(r, ok) PROVE Own
  BY <1>6 DEF RemoveGroup, DeleteGroupRow, ChallansOf, sgVars, Types, At
<1>7. QED
  BY <1>1, <1>2, <1>3, <1>4, <1>5, <1>6 DEF Calling, Call, LooseCall, ReadMeta, ReadParent,
     ReadGroup, CheckDest, SaveOfficial, SaveTransit, SaveSplitRow, LoadChallans,
     CallFails, SkipOfficial, LinkSplit, MarkDest, SaveCount, SaveStatus, FindDests, FindChallans,
     RemoveSplitRow, ReadDest, ResetDest, db, sgVars, At

\* Only the last call of an issue makes a group issued.
LEMMA OnlyCloseIssues ==
    ASSUME Types, NEW r \in Requests, NEW ok \in BOOLEAN, Calling(r, ok),
           NEW g \in Groups, sgStatus'[g] = "issued", sgStatus[g] # "issued"
    PROVE  CloseGroup(r) /\ g = req[r].group
<1>1. ASSUME NEW h \in Groups, SaveGroup(r, h) PROVE FALSE
  BY <1>1 DEF SaveGroup, Types
<1>2. ASSUME CloseGroup(r) PROVE g = req[r].group
  BY <1>2 DEF CloseGroup, Types
<1>3. ASSUME RemoveGroup(r, ok) PROVE FALSE
  BY <1>3 DEF RemoveGroup, DeleteGroupRow, sgVars, Types
<1>4. QED
  BY <1>1, <1>2, <1>3 DEF Calling, Call, LooseCall, ReadMeta, ReadParent, ReadGroup, CheckDest,
     SaveOfficial, SaveChallan, SaveTransit, SaveSplitRow, LoadChallans, IssueChallan, CallFails,
     SkipOfficial, LinkSplit, MarkDest, SaveCount, SaveStatus, FindDests, FindChallans,
     RemoveChallan, RemoveSplitRow, ReadDest, ResetDest, db, sgVars

\* The calls of a request that has found its group a draft.
DraftCalls == {"transit", "official", "dests", "reset", "find", "remove", "unrow", "ungroup",
               "load", "issue", "close"}

LEMMA FindsADraft ==
    ASSUME Types, NEW r \in Requests, NEW ok \in BOOLEAN, Calling(r, ok),
           req'[r].pc \in DraftCalls
    PROVE  /\ req'[r].group \in Groups
           /\ \/ req[r].pc \in DraftCalls /\ req'[r].group = req[r].group
                 /\ sgStatus' = sgStatus
              \/ sgStatus'[req'[r].group] = "draft"
<1> DEFINE Found1 == /\ req'[r].group \in Groups
                     /\ \/ req[r].pc \in DraftCalls /\ req'[r].group = req[r].group
                           /\ sgStatus' = sgStatus
                        \/ sgStatus'[req'[r].group] = "draft"
<1>1. /\ Goes(r) /\ req[r].pc \in Calls /\ req[r] \in Held /\ InHand(req[r])
      /\ req'[r].pc \in Calls /\ InHand(req'[r]) /\ req'[r].group \in Groups
      /\ req'[r].pc \notin {"done", "failed"}
  <2>1. Goes(r) /\ req[r].pc \in Calls /\ req'[r].pc \in Calls
    BY CallHolds DEF Calling, DraftCalls, Calls
  <2>2. QED
    BY <2>1, CallHolds, CallsAreHeld DEF Calling, InHand, DraftCalls, Calls
<1>2. \/ req'[r].group = req[r].group
      \/ SaveGroup(r, req'[r].group) /\ req'[r].group \in Groups
  BY <1>1, CallMemory
<1>3. ASSUME SaveGroup(r, req'[r].group) PROVE Found1
  BY <1>1, <1>3 DEF SaveGroup, Types
<1>4. ASSUME NEW g \in Groups, SaveGroup(r, g) PROVE Found1
  BY <1>1, <1>2, <1>3, <1>4, SaveGroupGoes
<1>5. ASSUME ReadGroup(r) PROVE Found1
  <2>1. sgStatus[req[r].group] = "draft"
    BY <1>1, <1>5, GotoGoes DEF ReadGroup, GoesTo, Pcs, Calls
  <2>2. QED
    BY <1>1, <1>2, <1>3, <1>5, <2>1 DEF ReadGroup, db, sgVars
<1>6. ASSUME req[r].pc \in DraftCalls, sgStatus' = sgStatus PROVE Found1
  BY <1>1, <1>2, <1>3, <1>6
<1>7. ASSUME CloseGroup(r) \/ RemoveGroup(r, ok) \/ SaveCount(r, ok) \/ SaveStatus(r, ok)
             \/ SaveSplitRow(r) \/ CallFails(r)
      PROVE  FALSE
  BY <1>1, <1>7, GotoGoes DEF CloseGroup, RemoveGroup, SaveCount, SaveStatus, SaveSplitRow,
     CallFails, GoesTo, Pcs, Calls, DraftCalls
<1>8. ASSUME ReadMeta(r) \/ ReadParent(r) \/ MarkDest(r, ok) PROVE FALSE
  BY <1>1, <1>8, ReadMetaGoes, ReadParentGoes, MarkDestGoes DEF DraftCalls
<1>9. ASSUME NEW p \in Places, CheckDest(r, p) PROVE FALSE
  BY <1>1, <1>9, RoundGoes, GotoGoes DEF CheckDest, LoopsTo, GoesTo, At, Pcs, Calls, DraftCalls
<1>10. ASSUME NEW p \in Places, ReadDest(r, p, ok) PROVE FALSE
  <2>1. CASE ok
    <3>1. ReadDest(r, p, TRUE)
      BY <1>10, <2>1
    <3>2. QED
      BY <1>1, <3>1, ReadDestGoes DEF DraftCalls
  <2>2. CASE ~ok
    BY <1>1, <1>10, <2>2, RoundGoes DEF ReadDest, LoopsTo, At, Pcs, Calls, DraftCalls
  <2>3. QED
    BY <2>1, <2>2
<1>11. ASSUME LinkSplit(r, ok) PROVE FALSE
  <2>1. req[r].asked \in Todos /\ Loop(r, req[r].asked, "read", "count")
    BY <1>1, <1>11, TodosHold DEF LinkSplit, Held
  <2>2. "read" \in Pcs /\ "count" \in Pcs
    BY DEF Pcs, Calls
  <2>3. LoopsTo(r, req[r].asked, IF req[r].asked = {} THEN "count" ELSE "read")
    BY <2>1, <2>2, LoopGoes
  <2>4. QED
    BY <1>1, <2>3 DEF LoopsTo, DraftCalls
<1>12. QED
  BY <1>4, <1>5, <1>6, <1>7, <1>8, <1>9, <1>10, <1>11 DEF Calling, Call, LooseCall,
     SaveOfficial, SaveChallan, SaveTransit, LoadChallans, IssueChallan, SkipOfficial,
     FindDests, FindChallans, RemoveChallan, RemoveSplitRow, ResetDest, db, sgVars, DraftCalls, At

\* What an issue has ahead of it are the challans of its group that are not issued.
IssuesTheRest(r) ==
    req[r].pc \in {"issue", "close"} => \A c \in ChallansOf(req[r].group) :
        dcStatus[c] = "issued" \/ (At(r, "issue") /\ c \in req[r].todo)

LEMMA IssuesTheRestStep ==
    ASSUME Types, NEW r \in Requests, NEW ok \in BOOLEAN, Calling(r, ok), IssuesTheRest(r)
    PROVE  IssuesTheRest(r)'
<1> SUFFICES ASSUME req'[r].pc \in {"issue", "close"}
             PROVE  IssuesTheRest(r)'
  BY DEF IssuesTheRest
<1>1. /\ Goes(r) /\ req[r].pc \in Calls /\ req[r] \in Held /\ InHand(req[r])
      /\ req'[r].pc \in Calls /\ InHand(req'[r])
  <2>1. Goes(r) /\ req[r].pc \in Calls /\ req'[r].pc \in Calls
    BY CallHolds DEF Calling, Calls
  <2>2. QED
    BY <2>1, CallHolds, CallsAreHeld DEF Calling
<1>2. req[r].kind = "issue" /\ req[r].pc \in {"load", "issue", "close"} /\ req[r].group \in Groups
  BY <1>1 DEF Goes, InHand, CallsOf
<1>3. ASSUME NEW pc \in {"done", "failed"}, Goto(r, pc) PROVE FALSE
  BY <1>3, GotoGoes DEF GoesTo, Pcs
<1>4. ASSUME NEW valid \in BOOLEAN, LoadChallans(r, valid) PROVE IssuesTheRest(r)'
  <2> DEFINE found == ChallansOf(req[r].group)
  <2>1. /\ Loop(r, found, "issue", "close") /\ UNCHANGED <<dcStatus, sgStatus>>
    BY <1>3, <1>4 DEF LoadChallans, db, sgVars
  <2>2. found \in Todos
    BY TodosHold DEF ChallansOf
  <2>3. LoopsTo(r, found, IF found = {} THEN "close" ELSE "issue")
    <3> HIDE DEF found
    <3>1. QED
      BY <2>1, <2>2, LoopGoes DEF Pcs, Calls
  <2>4. /\ req'[r].group = req[r].group /\ req'[r].todo = found
        /\ req'[r].pc = "close" => found = {}
    BY <2>3 DEF LoopsTo, Keeps
  <2>5. ChallansOf(req[r].group)' = found
    BY <2>1, <2>4 DEF ChallansOf, Exists
  <2>6. QED
    BY <2>4, <2>5 DEF IssuesTheRest, At
<1>5. ASSUME NEW c \in Challans, IssueChallan(r, c) PROVE IssuesTheRest(r)'
  <2>1. /\ Round(r, c, "close") /\ At(r, "issue") /\ GroupExists(req[r].group)
        /\ dcStatus' = (IF Exists(c) THEN [dcStatus EXCEPT ![c] = "issued"] ELSE dcStatus)
    BY <1>3, <1>5 DEF IssueChallan
  <2>2. LoopsTo(r, req[r].todo \ {c}, IF req[r].todo \ {c} = {} THEN "close" ELSE req[r].pc)
    BY <2>1, RoundGoes DEF Pcs, Calls
  <2>3. /\ req'[r].group = req[r].group /\ req'[r].todo = req[r].todo \ {c}
        /\ req'[r].todo # {} => req'[r].pc = "issue"
    BY <2>1, <2>2 DEF LoopsTo, Keeps, At
  <2>4. ASSUME NEW d \in ChallansOf(req[r].group)'
        PROVE  dcStatus'[d] = "issued" \/ (At(r, "issue")' /\ d \in req'[r].todo)
    <3>1. d \in ChallansOf(req[r].group) /\ d \in Challans
      BY <2>1, <2>3 DEF ChallansOf, Exists, Types
    <3>2. dcStatus[d] = "issued" \/ d \in req[r].todo
      BY <2>1, <3>1 DEF IssuesTheRest, At
    <3>3. CASE d = c
      BY <2>1, <3>1, <3>3 DEF Types, ChallansOf
    <3>4. CASE d # c
      BY <2>1, <2>3, <3>1, <3>2, <3>4 DEF Types, At
    <3>5. QED
      BY <3>3, <3>4
  <2>5. QED
    BY <2>4 DEF IssuesTheRest
<1>6. ASSUME CloseGroup(r) \/ CallFails(r) PROVE FALSE
  BY <1>3, <1>6 DEF CloseGroup, CallFails
<1>7. QED
  BY <1>2, <1>4, <1>5, <1>6 DEF Calling, Call, LooseCall, ReadMeta, ReadParent, ReadGroup,
     CheckDest, SaveGroup, SaveOfficial, SaveTransit, SaveSplitRow,
     SkipOfficial, LinkSplit, MarkDest, SaveCount, SaveStatus, FindDests, FindChallans,
     RemoveChallan, RemoveSplitRow, RemoveGroup, ReadDest, ResetDest, At

LEMMA DraftInHandStep ==
    ASSUME Types, Types', OneAtATime, OneAtATime', DraftInHand, [Next]_vars
    PROVE  DraftInHand'
<1> SUFFICES ASSUME ~overlapped', NEW x \in Requests, req'[x].pc \in DraftCalls
             PROVE  sgStatus'[req'[x].group] # "issued" /\ IssuesTheRest(x)'
  BY DEF DraftInHand, DraftCalls, IssuesTheRest
<1>1. /\ ~overlapped
      /\ \A s \in Requests : /\ req[s].pc \in DraftCalls => sgStatus[req[s].group] # "issued"
                             /\ IssuesTheRest(s)
  BY OverlapStays DEF DraftInHand, DraftCalls, IssuesTheRest
<1>2. InFlight(x)'
  BY DEF InFlight, DraftCalls
<1>3. ASSUME UNCHANGED db, req'[x] = req[x]
      PROVE  sgStatus'[req'[x].group] # "issued" /\ IssuesTheRest(x)'
  BY <1>1, <1>3 DEF db, sgVars, IssuesTheRest, ChallansOf, Exists, At
<1>4. ASSUME NEW r \in Requests, Begin(r)
      PROVE  sgStatus'[req'[x].group] # "issued" /\ IssuesTheRest(x)'
  <2>1. /\ req'[r].pc \in Calls /\ UNCHANGED db /\ req'[r].pc \notin {"issue", "close"}
        /\ req'[r].pc \in DraftCalls => sgStatus[req'[r].group] = "draft"
    BY <1>4, BeginShape DEF Calls, DraftCalls
  <2>2. x = r
    BY <1>2, <2>1 DEF OneAtATime, InFlight, Calls
  <2>3. QED
    BY <2>1, <2>2 DEF IssuesTheRest, db, sgVars
<1>5. ASSUME NEW r \in Requests, NEW ok \in BOOLEAN, Calling(r, ok)
      PROVE  sgStatus'[req'[x].group] # "issued" /\ IssuesTheRest(x)'
  <2>1. Goes(r) /\ InFlight(r)
    BY <1>5, CallHolds DEF Calling, InFlight, Calls
  <2>2. x = r
    BY <1>1, <1>2, <2>1 DEF OneAtATime, InFlight, Goes
  <2>3. QED
    BY <1>1, <1>5, <2>2, FindsADraft, IssuesTheRestStep
<1>6. CASE Crash
  BY <1>6, CrashShape DEF DraftCalls, Calls
<1>7. CASE UNCHANGED vars
  BY <1>3, <1>7 DEF vars
<1>8. QED
  BY <1>4, <1>5, <1>6, <1>7, StepKinds DEF Calling

\* While requests do not overlap, what an issued group holds stays.
LEMMA IssuedStays ==
    ASSUME Types, DraftInHand, [Next]_vars, ~overlapped',
           NEW g \in Groups, sgStatus[g] = "issued"
    PROVE  /\ sgStatus'[g] = "issued"
           /\ \A c \in Challans : c[1] = g => dcStatus'[c] = dcStatus[c]
<1>1. /\ ~overlapped
      /\ \A s \in Requests : req[s].pc \in DraftCalls => req[s].group # g
  BY OverlapStays DEF DraftInHand, DraftCalls
<1>2. ASSUME NEW r \in Requests, NEW ok \in BOOLEAN, Calling(r, ok)
      PROVE  /\ sgStatus'[g] = "issued"
             /\ \A c \in Challans : c[1] = g => dcStatus'[c] = dcStatus[c]
  BY <1>1, <1>2, TouchesOwnGroup DEF DraftCalls
<1>3. ASSUME UNCHANGED db
      PROVE  /\ sgStatus'[g] = "issued"
             /\ \A c \in Challans : c[1] = g => dcStatus'[c] = dcStatus[c]
  BY <1>3 DEF db, sgVars
<1>4. QED
  BY <1>2, <1>3, StepKinds, CrashShape DEF Calling, Begin, vars

LEMMA WholeStep ==
    ASSUME Types, Types', DraftInHand, IssuedIsWhole, [Next]_vars
    PROVE  IssuedIsWhole'
<1> SUFFICES ASSUME ~overlapped', NEW g \in Groups, sgStatus'[g] = "issued",
                    NEW c \in ChallansOf(g)'
             PROVE  dcStatus'[c] = "issued"
  BY DEF IssuedIsWhole
<1>1. ~overlapped /\ c \in Challans /\ c[1] = g
  BY OverlapStays DEF ChallansOf
<1>2. CASE sgStatus[g] = "issued"
  <2>1. dcStatus'[c] = dcStatus[c]
    BY <1>1, <1>2, IssuedStays
  <2>2. c \in ChallansOf(g)
    BY <1>1, <2>1 DEF ChallansOf, Exists
  <2>3. QED
    BY <1>1, <1>2, <2>1, <2>2 DEF IssuedIsWhole
<1>3. CASE sgStatus[g] # "issued"
  <2>1. ASSUME NEW r \in Requests, NEW ok \in BOOLEAN, Calling(r, ok)
        PROVE  dcStatus'[c] = "issued"
    <3>1. CloseGroup(r) /\ g = req[r].group
      BY <1>3, <2>1, OnlyCloseIssues
    <3>2. At(r, "close") /\ dcStatus' = dcStatus
      BY <3>1 DEF CloseGroup
    <3>3. c \in ChallansOf(req[r].group)
      BY <3>1, <3>2 DEF ChallansOf, Exists
    <3>4. QED
      BY <1>1, <3>2, <3>3 DEF DraftInHand, At
  <2>2. CASE UNCHANGED db
    BY <1>3, <2>2 DEF db, sgVars
  <2>3. QED
    BY <2>1, <2>2, StepKinds, CrashShape DEF Calling, Begin, vars
<1>4. QED
  BY <1>2, <1>3

-----------------------------------------------------------------------------
(* The counter and the destinations: the path of a creation and of an undo. *)

\* The rows that num_split and the destinations are compared by.
CountRows == <<isSplit, splitGroup, splitNumber, numSplit>>

Ends(r) == req'[r].pc \in {"done", "failed"}

\* Each call of a creation, and what it does to those rows.
SplitGoes(r, ok) ==
    LET s == req[r]
        n == req'[r]
    IN  \/ /\ Ends(r) /\ UNCHANGED CountRows
           /\ s.pc \notin {"link", "read", "mark", "count"}
        \/ s.pc = "meta" /\ n.pc = "check" /\ n.todo = s.asked /\ UNCHANGED CountRows
        \/ /\ s.pc = "check" /\ UNCHANGED CountRows
           /\ \E p \in s.todo : /\ ~isSplit[p] /\ n.todo = s.todo \ {p}
                                /\ n.pc = IF n.todo = {} THEN "group" ELSE "check"
        \/ /\ s.pc = "group" /\ n.pc = "transit" /\ UNCHANGED CountRows
           /\ n.group \in Groups /\ sgStatus[n.group] = "none"
        \/ /\ s.pc \in {"transit", "official"} /\ n.pc \in {"official", "row"}
           /\ n.group = s.group /\ UNCHANGED CountRows
        \/ /\ s.pc = "row" /\ n.pc = "link" /\ n.group = s.group
           /\ splitNumber' = [splitNumber EXCEPT ![s.group] = s.num + 1]
           /\ UNCHANGED <<isSplit, splitGroup, numSplit>>
        \/ /\ s.pc = "link" /\ n.pc = "read" /\ n.todo = s.asked /\ n.group = s.group
           /\ UNCHANGED CountRows
        \/ /\ s.pc = "read" /\ n.pc = "mark" /\ n.todo = s.todo /\ n.group = s.group
           /\ UNCHANGED CountRows /\ n.dest \in s.todo /\ n.named = splitGroup[n.dest]
           /\ n.marked = {q \in {n.dest} : isSplit[q]}
        \/ /\ s.pc = "read" /\ ~ok /\ n.group = s.group /\ UNCHANGED CountRows
           /\ \E p \in s.todo : /\ n.todo = s.todo \ {p}
                                /\ n.pc = IF n.todo = {} THEN "count" ELSE "read"
        \/ /\ s.pc = "mark" /\ MarkDest(r, ok) /\ n.group = s.group
           /\ n.todo = s.todo \ {s.dest} /\ n.pc = IF n.todo = {} THEN "count" ELSE "read"
        \/ /\ s.pc = "count" /\ SaveCount(r, ok) /\ n.pc = "status" /\ n.group = s.group

\* Each call of an undo.
UndoGoes(r, ok) ==
    LET s == req[r]
        n == req'[r]
    IN  \/ /\ Ends(r) /\ UNCHANGED CountRows /\ s.pc \in {"meta", "parent", "draft", "status"}
        \/ /\ s.pc \in {"meta", "parent", "draft"} /\ n.pc \in {"parent", "draft", "dests"}
           /\ UNCHANGED CountRows
        \/ /\ s.pc = "dests" /\ n.todo = Found(r, ok) /\ UNCHANGED CountRows
           /\ n.marked = {p \in Found(r, ok) : isSplit[p]}
           /\ n.pc = IF n.todo = {} THEN "find" ELSE "reset"
        \/ \E p \in s.todo : /\ ResetDest(r, p, ok) /\ n.todo = s.todo \ {p}
                             /\ n.marked = s.marked /\ s.pc = "reset"
                             /\ n.pc = IF n.todo = {} THEN "find" ELSE "reset"
        \/ s.pc \in {"find", "remove"} /\ n.pc \in {"remove", "unrow"} /\ UNCHANGED CountRows
        \/ /\ s.pc = "unrow" /\ n.pc = "ungroup" /\ UNCHANGED <<isSplit, splitGroup, numSplit>>
           /\ splitNumber' = [splitNumber EXCEPT ![s.group] = IF ok THEN 0 ELSE @]
        \/ /\ s.pc = "ungroup" /\ n.pc = "count" /\ UNCHANGED <<isSplit, splitGroup, numSplit>>
           /\ splitNumber' = splitNumber \/ splitNumber' = [splitNumber EXCEPT ![s.group] = 0]
        \/ s.pc = "count" /\ SaveCount(r, ok) /\ n.pc = "status"

LEMMA SplitPath ==
    ASSUME Types, NEW r \in Requests, NEW ok \in BOOLEAN, Calling(r, ok), req[r].kind = "split"
    PROVE  SplitGoes(r, ok) /\ (Ends(r) \/ req'[r].asked = req[r].asked)
<1>1. /\ Goes(r) /\ req[r].pc \in Calls /\ req[r] \in Held /\ InHand(req[r])
      /\ req'[r].pc # "idle" /\ req'[r].pc \in Pcs
  BY CallHolds, CallsAreHeld DEF Calling, Goes, Held
<1>2. /\ req[r].pc \in {"meta", "check", "group", "transit", "official", "row", "link", "read",
                        "mark", "count", "status"}
      /\ req[r].asked # {} /\ req[r].asked \in SUBSET Places /\ req[r].asked \in Todos
  BY <1>1, TodosHold DEF InHand, CallsOf, Held
<1>3. Ends(r) \/ req'[r].asked = req[r].asked
  BY <1>1, CallMemory DEF Ends, Pcs
<1>4. ASSUME NEW pc \in {"done", "failed"}, Goto(r, pc) PROVE Ends(r)
  BY <1>4, GotoGoes DEF GoesTo, Pcs, Ends
<1>5. ASSUME NEW pc \in Calls, Goto(r, pc) PROVE req'[r].pc = pc /\ req'[r].group = req[r].group
  BY <1>5, GotoGoes DEF GoesTo, Pcs, Calls
<1>6. ASSUME NEW x, NEW after \in Calls, Round(r, x, after), req[r].pc \in Calls
      PROVE  /\ req'[r].todo = req[r].todo \ {x} /\ req'[r].group = req[r].group
             /\ req'[r].pc = IF req'[r].todo = {} THEN after ELSE req[r].pc
  BY <1>6, RoundGoes DEF LoopsTo, Pcs, Calls
<1>7. ASSUME CallFails(r) PROVE SplitGoes(r, ok)
  BY <1>4, <1>7 DEF CallFails, SplitGoes, CountRows, db, destVars
<1>8. ASSUME ReadMeta(r) PROVE SplitGoes(r, ok)
  BY <1>8, ReadMetaGoes DEF ReadMeta, At, SplitGoes, CountRows, db, destVars
<1>9. ASSUME NEW p \in Places, CheckDest(r, p) PROVE SplitGoes(r, ok)
  <2>1. CASE isSplit[p]
    BY <1>4, <1>9, <2>1 DEF CheckDest, At, SplitGoes, CountRows, db, destVars
  <2>2. CASE ~isSplit[p]
    <3>1. Round(r, p, "group") /\ p \in req[r].todo /\ req[r].pc = "check" /\ UNCHANGED CountRows
      BY <1>9, <2>2 DEF CheckDest, At, CountRows, db, destVars
    <3>2. /\ req'[r].todo = req[r].todo \ {p}
          /\ req'[r].pc = IF req'[r].todo = {} THEN "group" ELSE "check"
      BY <1>6, <3>1 DEF Calls
    <3>3. QED
      BY <2>2, <3>1, <3>2 DEF SplitGoes
  <2>3. QED
    BY <2>1, <2>2
<1>10. ASSUME NEW g \in Groups, SaveGroup(r, g) PROVE SplitGoes(r, ok)
  BY <1>10, SaveGroupGoes DEF SaveGroup, At, SplitGoes, CountRows, destVars
<1>11. ASSUME SaveTransit(r) PROVE SplitGoes(r, ok)
  <2>1. req[r].pc = "transit" /\ UNCHANGED CountRows
    BY <1>11 DEF SaveTransit, SaveChallan, At, CountRows, destVars
  <2>2. CASE Goto(r, "failed")
    BY <1>4, <2>1, <2>2 DEF SplitGoes
  <2>3. CASE Loop(r, req[r].asked, "official", AfterOfficials(r))
    <3>1. "official" \in Pcs /\ AfterOfficials(r) \in Pcs
      BY DEF AfterOfficials, Pcs, Calls
    <3>2. req'[r].pc = "official" /\ req'[r].group = req[r].group
      BY <1>2, <2>3, <3>1, LoopGoes DEF LoopsTo
    <3>3. QED
      BY <2>1, <3>2 DEF SplitGoes
  <2>4. QED
    BY <1>11, <2>2, <2>3 DEF SaveTransit
<1>12. ASSUME NEW p \in Places, SaveOfficial(r, p) \/ SkipOfficial(r, p) PROVE SplitGoes(r, ok)
  <2>1. req[r].pc = "official" /\ UNCHANGED CountRows
    BY <1>12 DEF SaveOfficial, SkipOfficial, SaveChallan, At, CountRows, db, destVars
  <2>2. CASE Goto(r, "failed")
    BY <1>4, <2>1, <2>2 DEF SplitGoes
  <2>3. CASE Round(r, p, "row")
    <3>1. req'[r].pc \in {"official", "row"} /\ req'[r].group = req[r].group
      BY <1>6, <2>1, <2>3 DEF Calls
    <3>2. QED
      BY <2>1, <3>1 DEF SplitGoes
  <2>4. QED
    BY <1>12, <2>2, <2>3 DEF SaveOfficial, SkipOfficial, AfterOfficials
<1>13. ASSUME SaveSplitRow(r) PROVE SplitGoes(r, ok)
  <2>1. CASE GroupExists(req[r].group)
    BY <1>5, <1>13, <2>1 DEF SaveSplitRow, At, SplitGoes, destVars, Calls
  <2>2. CASE ~GroupExists(req[r].group)
    BY <1>4, <1>13, <2>2 DEF SaveSplitRow, At, SplitGoes, CountRows, destVars
  <2>3. QED
    BY <2>1, <2>2
<1>14. ASSUME LinkSplit(r, ok) PROVE SplitGoes(r, ok)
  <2>1. /\ req[r].pc = "link" /\ UNCHANGED CountRows /\ Loop(r, req[r].asked, "read", "count")
    BY <1>14 DEF LinkSplit, At, CountRows, destVars
  <2>2. /\ req'[r].pc = "read" /\ req'[r].group = req[r].group /\ req'[r].todo = req[r].asked
    <3>1. "read" \in Pcs /\ "count" \in Pcs
      BY DEF Pcs, Calls
    <3>2. LoopsTo(r, req[r].asked, IF req[r].asked = {} THEN "count" ELSE "read")
      BY <1>2, <2>1, <3>1, LoopGoes
    <3>3. QED
      BY <1>2, <3>2 DEF LoopsTo, Keeps
  <2>3. QED
    BY <2>1, <2>2 DEF SplitGoes
<1>15. ASSUME NEW p \in Places, ReadDest(r, p, ok) PROVE SplitGoes(r, ok)
  <2>1. req[r].pc = "read" /\ UNCHANGED CountRows /\ p \in req[r].todo
    BY <1>15 DEF ReadDest, At, CountRows, db, destVars
  <2>2. CASE ok
    <3>1. ReadDest(r, p, TRUE)
      BY <1>15, <2>2
    <3>2. QED
      BY <2>1, <3>1, ReadDestGoes DEF SplitGoes
  <2>3. CASE ~ok
    <3>1. Round(r, p, "count")
      BY <1>15, <2>3 DEF ReadDest
    <3>2. /\ req'[r].todo = req[r].todo \ {p} /\ req'[r].group = req[r].group
          /\ req'[r].pc = IF req'[r].todo = {} THEN "count" ELSE "read"
      BY <1>6, <2>1, <3>1 DEF Calls
    <3>3. QED
      BY <2>1, <2>3, <3>2 DEF SplitGoes
  <2>4. QED
    BY <2>2, <2>3
<1>16. ASSUME MarkDest(r, ok) PROVE SplitGoes(r, ok)
  <2>1. /\ req[r].pc = "mark" /\ req'[r].group = req[r].group
        /\ req'[r].todo = req[r].todo \ {req[r].dest}
        /\ req'[r].pc = (IF req[r].todo = {req[r].dest} THEN "count" ELSE "read")
    BY <1>16, MarkDestGoes DEF MarkDest, At
  <2>2. req[r].dest \in req[r].todo
    BY <1>1, <2>1 DEF InHand
  <2>3. req[r].todo = {req[r].dest} <=> req'[r].todo = {}
    BY <2>1, <2>2
  <2>4. QED
    BY <1>16, <2>1, <2>3 DEF SplitGoes
<1>17. ASSUME SaveCount(r, ok) PROVE SplitGoes(r, ok)
  BY <1>5, <1>17 DEF SaveCount, At, SplitGoes, Calls
<1>18. ASSUME SaveStatus(r, ok) PROVE SplitGoes(r, ok)
  BY <1>4, <1>18 DEF SaveStatus, At, SplitGoes, CountRows, destVars
<1>19. ASSUME \/ ReadParent(r) \/ ReadGroup(r) \/ FindDests(r, ok) \/ FindChallans(r, ok)
              \/ RemoveSplitRow(r, ok) \/ RemoveGroup(r, ok) \/ CloseGroup(r)
              \/ \E p \in Places : ResetDest(r, p, ok)
              \/ \E c \in Challans : RemoveChallan(r, c, ok) \/ IssueChallan(r, c)
              \/ \E valid \in BOOLEAN : LoadChallans(r, valid)
       PROVE  FALSE
  BY <1>2, <1>19 DEF ReadParent, ReadGroup, FindDests, FindChallans, RemoveSplitRow, RemoveGroup,
     CloseGroup, ResetDest, RemoveChallan, IssueChallan, LoadChallans, At
<1>20. QED
  BY <1>3, <1>7, <1>8, <1>9, <1>10, <1>11, <1>12, <1>13, <1>14, <1>15, <1>16, <1>17, <1>18,
     <1>19 DEF Calling, Call, LooseCall

LEMMA UndoPath ==
    ASSUME Types, NEW r \in Requests, NEW ok \in BOOLEAN, Calling(r, ok), req[r].kind = "undo"
    PROVE  UndoGoes(r, ok) /\ req'[r].group = req[r].group
<1>1. /\ Goes(r) /\ req[r].pc \in Calls /\ req[r] \in Held /\ InHand(req[r])
      /\ req'[r].pc # "idle" /\ req'[r].pc \in Pcs
  BY CallHolds, CallsAreHeld DEF Calling, Goes, Held
<1>2. req[r].pc \in {"meta", "parent", "draft", "dests", "reset", "find", "remove", "unrow",
                     "ungroup", "count", "status"}
  BY <1>1 DEF InHand, CallsOf, Held
<1> DEFINE Does == UndoGoes(r, ok) /\ req'[r].group = req[r].group
<1>3. ASSUME NEW pc \in Pcs, Goto(r, pc) PROVE req'[r].pc = pc /\ req'[r].group = req[r].group
  BY <1>3, GotoGoes DEF GoesTo
<1>4. ASSUME CallFails(r) PROVE Does
  <2>1. Ends(r) /\ req'[r].group = req[r].group
    BY <1>3, <1>4 DEF CallFails, Pcs, Ends
  <2>2. req[r].pc \in {"meta", "parent", "draft"}
    BY <1>2, <1>4 DEF CallFails
  <2>3. QED
    BY <1>4, <2>1, <2>2 DEF CallFails, UndoGoes, CountRows, db, destVars
<1>5. ASSUME ReadMeta(r) PROVE Does
  BY <1>5, ReadMetaGoes DEF ReadMeta, At, UndoGoes, CountRows, db, destVars
<1>6. ASSUME ReadParent(r) PROVE Does
  BY <1>6, ReadParentGoes DEF ReadParent, At, UndoGoes, CountRows, db, destVars
<1>7. ASSUME ReadGroup(r) PROVE Does
  <2>1. req'[r].pc \in {"dests", "failed"} /\ req'[r].group = req[r].group
    BY <1>3, <1>7 DEF ReadGroup, Pcs, Calls
  <2>2. QED
    BY <1>7, <2>1 DEF ReadGroup, At, Ends, UndoGoes, CountRows, db, destVars
<1>8. ASSUME FindDests(r, ok) PROVE Does
  <2>1. req[r].pc = "dests" /\ UNCHANGED CountRows
    BY <1>8 DEF FindDests, At, CountRows, db, destVars
  <2>2. /\ req'[r].todo = Found(r, ok) /\ req'[r].marked = {p \in Found(r, ok) : isSplit[p]}
        /\ req'[r].pc = (IF req'[r].todo = {} THEN "find" ELSE "reset")
        /\ req'[r].group = req[r].group
    BY <1>8, FindDestsGoes
  <2>3. QED
    BY <2>1, <2>2 DEF UndoGoes
<1>9. ASSUME NEW p \in Places, ResetDest(r, p, ok) PROVE Does
  <2>1. Round(r, p, "find") /\ p \in req[r].todo /\ req[r].pc = "reset"
    BY <1>9 DEF ResetDest, At
  <2>2. LoopsTo(r, req[r].todo \ {p}, IF req[r].todo \ {p} = {} THEN "find" ELSE req[r].pc)
    BY <2>1, RoundGoes DEF Pcs, Calls
  <2>3. /\ req'[r].todo = req[r].todo \ {p} /\ req'[r].group = req[r].group
        /\ req'[r].marked = req[r].marked
        /\ req'[r].pc = IF req'[r].todo = {} THEN "find" ELSE "reset"
    BY <2>1, <2>2 DEF LoopsTo, Keeps
  <2>4. QED
    BY <1>9, <2>1, <2>3 DEF UndoGoes
<1>10. ASSUME FindChallans(r, ok) PROVE Does
  <2> DEFINE found == {c \in ChallansOf(req[r].group) : ok}
  <2>1. found \in Todos
    BY TodosHold DEF ChallansOf
  <2>2. /\ Loop(r, found, "remove", "unrow") /\ req[r].pc = "find" /\ UNCHANGED CountRows
    BY <1>10 DEF FindChallans, AfterChallans, At, CountRows, db, destVars
  <2> HIDE DEF found
  <2>3. req'[r].pc \in {"remove", "unrow"} /\ req'[r].group = req[r].group
    <3>1. "remove" \in Pcs /\ "unrow" \in Pcs
      BY DEF Pcs, Calls
    <3>2. LoopsTo(r, found, IF found = {} THEN "unrow" ELSE "remove")
      BY <2>1, <2>2, <3>1, LoopGoes
    <3>3. QED
      BY <3>2 DEF LoopsTo
  <2>4. QED
    BY <2>2, <2>3 DEF UndoGoes
<1>11. ASSUME NEW c \in Challans, RemoveChallan(r, c, ok) PROVE Does
  <2>1. Round(r, c, "unrow") /\ req[r].pc = "remove" /\ UNCHANGED CountRows
    BY <1>11 DEF RemoveChallan, Stops, AfterChallans, At, CountRows, destVars
  <2>2. req'[r].pc \in {"remove", "unrow"} /\ req'[r].group = req[r].group
    BY <2>1, RoundGoes DEF LoopsTo, Pcs, Calls
  <2>3. QED
    BY <2>1, <2>2 DEF UndoGoes
<1>12. ASSUME RemoveSplitRow(r, ok) PROVE Does
  BY <1>3, <1>12 DEF RemoveSplitRow, At, UndoGoes, destVars, Pcs, Calls
<1>13. ASSUME RemoveGroup(r, ok) PROVE Does
  <2>1. Goto(r, "count") /\ req[r].pc = "ungroup" /\ UNCHANGED <<isSplit, splitGroup, numSplit>>
    BY <1>13 DEF RemoveGroup, Stops, At, destVars
  <2>2. splitNumber' = splitNumber \/ splitNumber' = [splitNumber EXCEPT ![req[r].group] = 0]
    BY <1>13 DEF RemoveGroup, DeleteGroupRow
  <2>3. req'[r].pc = "count" /\ req'[r].group = req[r].group
    BY <1>3, <2>1 DEF Pcs, Calls
  <2>4. QED
    BY <2>1, <2>2, <2>3 DEF UndoGoes
<1>14. ASSUME SaveCount(r, ok) PROVE Does
  BY <1>3, <1>14 DEF SaveCount, At, UndoGoes, Pcs, Calls
<1>15. ASSUME SaveStatus(r, ok) PROVE Does
  BY <1>3, <1>15 DEF SaveStatus, At, Ends, UndoGoes, CountRows, destVars, Pcs
<1>16. ASSUME \/ SaveTransit(r) \/ SaveSplitRow(r) \/ LinkSplit(r, ok) \/ MarkDest(r, ok)
              \/ CloseGroup(r)
              \/ \E g \in Groups : SaveGroup(r, g)
              \/ \E p \in Places : CheckDest(r, p) \/ SaveOfficial(r, p) \/ SkipOfficial(r, p)
                                      \/ ReadDest(r, p, ok)
              \/ \E c \in Challans : IssueChallan(r, c)
              \/ \E valid \in BOOLEAN : LoadChallans(r, valid)
       PROVE  FALSE
  BY <1>2, <1>16 DEF SaveTransit, SaveSplitRow, LinkSplit, MarkDest, CloseGroup, SaveGroup,
     CheckDest, SaveOfficial, SkipOfficial, ReadDest, IssueChallan, LoadChallans, At
<1>17. QED
  BY <1>4, <1>5, <1>6, <1>7, <1>8, <1>9, <1>10, <1>11, <1>12, <1>13, <1>14, <1>15, <1>16
  DEF Calling, Call, LooseCall

\* The other requests leave those rows alone, but for the split row that goes with
\* its group.
LEMMA OtherPath ==
    ASSUME Types, NEW r \in Requests, NEW ok \in BOOLEAN, Calling(r, ok),
           req[r].kind \notin {"split", "undo"}
    PROVE  /\ UNCHANGED <<isSplit, splitGroup, numSplit>>
           /\ \/ splitNumber' = splitNumber
              \/ splitNumber' = [splitNumber EXCEPT ![req[r].group] = 0]
<1>1. /\ req[r].pc \in Calls /\ req[r] \in Held /\ InHand(req[r])
  BY CallHolds, CallsAreHeld DEF Calling
<1>2. req[r].pc \in {"group", "transit", "official", "load", "issue", "close", "find", "remove",
                     "ungroup"}
  BY <1>1 DEF InHand, CallsOf, Held
<1>3. ASSUME RemoveGroup(r, ok)
      PROVE  /\ UNCHANGED <<isSplit, splitGroup, numSplit>>
             /\ \/ splitNumber' = splitNumber
                \/ splitNumber' = [splitNumber EXCEPT ![req[r].group] = 0]
  BY <1>3 DEF RemoveGroup, DeleteGroupRow, destVars
<1>4. QED
  BY <1>2, <1>3 DEF Calling, Call, LooseCall, ReadMeta, ReadParent, ReadGroup, CheckDest,
     SaveGroup, SaveOfficial, SaveChallan, SaveTransit, SaveSplitRow, LoadChallans, IssueChallan,
     CloseGroup, CallFails, SkipOfficial, LinkSplit, MarkDest, SaveCount, SaveStatus, FindDests,
     FindChallans, RemoveChallan, RemoveSplitRow, ReadDest, ResetDest, db, destVars, At

\* A request that ends still says which group it was about.
LEMMA EndKeepsGroup ==
    ASSUME Types, NEW r \in Requests, NEW ok \in BOOLEAN, Calling(r, ok), Ends(r)
    PROVE  req'[r].group = req[r].group
<1>1. req[r] \in Held /\ "done" \in Pcs /\ "failed" \in Pcs
  BY DEF Types, Pcs
<1>3. ASSUME NEW pc \in Pcs, Goto(r, pc) PROVE req'[r].group = req[r].group
  BY <1>3, GotoGoes DEF GoesTo
<1>4. ASSUME NEW x, NEW after \in Pcs, Round(r, x, after) PROVE req'[r].group = req[r].group
  BY <1>4, RoundGoes DEF LoopsTo
<1>5. ASSUME NEW S \in Todos, NEW pc \in Pcs, NEW after \in Pcs, Loop(r, S, pc, after)
      PROVE  req'[r].group = req[r].group
  BY <1>5, LoopGoes DEF LoopsTo
<1>6. ASSUME NEW g \in Groups, SaveGroup(r, g) PROVE FALSE
  BY <1>6, SaveGroupGoes DEF Ends
<1>7. ASSUME \/ CallFails(r) \/ ReadGroup(r) \/ SaveSplitRow(r) \/ CloseGroup(r)
             \/ SaveCount(r, ok) \/ SaveStatus(r, ok)
             \/ RemoveSplitRow(r, ok) \/ RemoveGroup(r, ok)
      PROVE  req'[r].group = req[r].group
  BY <1>3, <1>7 DEF CallFails, ReadGroup, SaveSplitRow, CloseGroup, SaveCount, SaveStatus,
     RemoveSplitRow, RemoveGroup, Pcs, Calls
<1>8. ASSUME ReadMeta(r) \/ ReadParent(r) \/ MarkDest(r, ok) \/ FindDests(r, ok)
      PROVE  req'[r].group = req[r].group
  BY <1>8, ReadMetaGoes, ReadParentGoes, MarkDestGoes, FindDestsGoes
<1>9. ASSUME NEW p \in Places,
             CheckDest(r, p) \/ SaveOfficial(r, p) \/ SkipOfficial(r, p) \/ ResetDest(r, p, ok)
      PROVE  req'[r].group = req[r].group
  BY <1>3, <1>4, <1>9 DEF CheckDest, SaveOfficial, SkipOfficial, ResetDest, AfterOfficials,
     Pcs, Calls
<1>10. ASSUME NEW p \in Places, ReadDest(r, p, ok) PROVE req'[r].group = req[r].group
  <2>1. CASE ok
    <3>1. ReadDest(r, p, TRUE)
      BY <1>10, <2>1
    <3>2. QED
      BY <3>1, ReadDestGoes
  <2>2. CASE ~ok
    BY <1>4, <1>10, <2>2 DEF ReadDest, Pcs, Calls
  <2>3. QED
    BY <2>1, <2>2
<1>11. ASSUME SaveTransit(r) \/ LinkSplit(r, ok) PROVE req'[r].group = req[r].group
  <2>1. req[r].asked \in Todos
    BY <1>1, TodosHold DEF Held
  <2>2. QED
    BY <1>3, <1>5, <1>11, <2>1 DEF SaveTransit, LinkSplit, AfterOfficials, Pcs, Calls
<1>12. ASSUME NEW valid \in BOOLEAN, LoadChallans(r, valid) PROVE req'[r].group = req[r].group
  <2>1. ChallansOf(req[r].group) \in Todos
    BY TodosHold DEF ChallansOf
  <2>2. QED
    BY <1>3, <1>5, <1>12, <2>1 DEF LoadChallans, Pcs, Calls
<1>13. ASSUME NEW c \in Challans, IssueChallan(r, c) \/ RemoveChallan(r, c, ok)
       PROVE  req'[r].group = req[r].group
  BY <1>3, <1>4, <1>13 DEF IssueChallan, RemoveChallan, AfterChallans, Pcs, Calls
<1>14. ASSUME FindChallans(r, ok) PROVE req'[r].group = req[r].group
  <2> DEFINE found == {c \in ChallansOf(req[r].group) : ok}
  <2>1. found \in Todos
    BY TodosHold DEF ChallansOf
  <2>2. Loop(r, found, "remove", AfterChallans(r))
    BY <1>14 DEF FindChallans
  <2> HIDE DEF found
  <2>3. QED
    BY <1>5, <2>1, <2>2 DEF AfterChallans, Pcs, Calls
<1>15. QED
  BY <1>6, <1>7, <1>8, <1>9, <1>10, <1>11, <1>12, <1>13, <1>14 DEF Calling, Call, LooseCall

\* A group that was created is not uncreated.
LEMMA NamedExistedStep ==
    ASSUME Types, Types', Owned, NamedExisted, [Next]_vars
    PROVE  NamedExisted'
<1>1. ASSUME \A g \in Groups : sgStatus'[g] = "none" => sgStatus[g] = "none",
             \A p \in Places : splitGroup'[p] \in Groups =>
                \/ splitGroup'[p] = splitGroup[p]
                \/ \E r \in Requests : splitGroup'[p] = req[r].group,
             \A r \in Requests : req'[r].group \in Groups =>
                req'[r].group = req[r].group \/ sgStatus'[req'[r].group] # "none"
      PROVE  NamedExisted'
  BY <1>1 DEF NamedExisted
<1>2. ASSUME NEW r \in Requests, Begin(r) PROVE NamedExisted'
  <2>1. UNCHANGED <<sgStatus, splitGroup>> /\ \A x \in Requests : x # r => req'[x] = req[x]
    BY <1>2, BeginShape DEF db, sgVars, destVars
  <2>2. req'[r].group \in Groups => sgStatus[req'[r].group] # "none"
    <3>2. ASSUME NEW S, BeginDirect(r, S) \/ BeginSplit(r, S) PROVE req'[r].group = NoGroup
      BY <3>2, ZenonT(40) DEF BeginDirect, BeginSplit, NewRequest, Types
    <3>3. CASE req'[r].kind \in {"direct", "split"}
      <4>1. ASSUME NEW g \in Groups, NEW k \in {"groupDelete", "dcDelete"},
                   BeginUndo(r, g) \/ BeginIssue(r, g) \/ BeginDelete(r, g, k)
            PROVE  req'[r].kind \in {"undo", "issue", k}
        BY <4>1, ZenonT(40) DEF BeginUndo, BeginIssue, BeginDelete, NewRequest, Types
      <4>2. \E S \in SUBSET Places : BeginDirect(r, S) \/ BeginSplit(r, S)
        BY <1>2, <3>3, <4>1 DEF Begin
      <4>3. QED
        BY <3>2, <4>2, StoreAssumption
    <3>4. CASE req'[r].kind \notin {"direct", "split"}
      BY <1>2, <3>4, BeginShape DEF Owned, GroupExists
    <3>5. QED
      BY <3>3, <3>4
  <2>3. QED
    BY <1>1, <2>1, <2>2
<1>3. ASSUME NEW r \in Requests, NEW ok \in BOOLEAN, Calling(r, ok) PROVE NamedExisted'
  <2>1. \A g \in Groups : sgStatus'[g] = "none" => sgStatus[g] = "none"
    <3>1. ASSUME NEW g \in Groups, SaveGroup(r, g)
          PROVE  \A h \in Groups : sgStatus'[h] = "none" => sgStatus[h] = "none"
      BY <3>1 DEF SaveGroup, Types
    <3>2. ASSUME CloseGroup(r) \/ RemoveGroup(r, ok)
          PROVE  \A h \in Groups : sgStatus'[h] = "none" => sgStatus[h] = "none"
      BY <3>2 DEF CloseGroup, RemoveGroup, DeleteGroupRow, sgVars, Types
    <3>3. QED
      BY <1>3, <3>1, <3>2 DEF Calling, Call, LooseCall, ReadMeta, ReadParent, ReadGroup, CheckDest,
         SaveOfficial, SaveChallan, SaveTransit, SaveSplitRow, LoadChallans, IssueChallan,
         CallFails, SkipOfficial, LinkSplit, MarkDest, SaveCount, SaveStatus, FindDests,
         FindChallans, RemoveChallan, RemoveSplitRow, ReadDest, ResetDest, db, sgVars
  <2>2. \A p \in Places : splitGroup'[p] \in Groups =>
                \/ splitGroup'[p] = splitGroup[p]
                \/ \E x \in Requests : splitGroup'[p] = req[x].group
    BY <1>3, NamedByCreation, StoreAssumption
  <2>3. req'[r].group = req[r].group \/ sgStatus'[req'[r].group] # "none"
    <3>1. CASE req'[r].pc \in Calls
      <4>1. req'[r].group # req[r].group =>
              SaveGroup(r, req'[r].group) /\ req'[r].group \in Groups
        BY <1>3, <3>1, CallMemory
      <4>2. QED
        BY <4>1 DEF SaveGroup, Types
    <3>2. CASE Ends(r)
      BY <1>3, <3>2, EndKeepsGroup
    <3>3. QED
      BY <1>3, <3>1, <3>2, CallHolds DEF Calling, Goes, Held, Pcs, Ends
  <2>4. \A x \in Requests : x # r => req'[x] = req[x]
    BY <1>3, CallHolds DEF Calling, Goes
  <2>5. QED
    BY <1>1, <2>1, <2>2, <2>3, <2>4
<1>4. CASE Crash
  <2>1. UNCHANGED <<sgStatus, splitGroup>>
    BY <1>4, CrashShape DEF db, sgVars, destVars
  <2>2. \A r \in Requests : req'[r].group = req[r].group
    <3>1. \A r \in Requests : req[r] \in Held /\ Moved(req[r], "failed").group = req[r].group
      BY MovedShape DEF Types, Pcs
    <3>2. QED
      BY <1>4, <3>1 DEF Crash
  <2>3. QED
    BY <1>1, <2>1, <2>2
<1>5. CASE UNCHANGED vars
  BY <1>5 DEF vars, db, sgVars, destVars, NamedExisted
<1>6. QED
  BY <1>2, <1>3, <1>4, <1>5, StepKinds DEF Calling

LEMMA ImagesFinite ==
    ASSUME NEW f \in [Places -> Groups \cup {NoGroup}]
    PROVE  IsFiniteSet({f[p] : p \in Places} \ {NoGroup})
<1> DEFINE images == {f[p] : p \in Places}
<1>1. f \in Surjection(Places, images)
  BY DEF Surjection
<1>2. IsFiniteSet(images)
  BY <1>1, FS_Surjection, StoreAssumption
<1> HIDE DEF images
<1>3. IsFiniteSet(images \ {NoGroup})
  BY <1>2, FS_Subset
<1>4. QED
  BY <1>3 DEF images

LEMMA NamedFacts ==
    ASSUME Types
    PROVE  /\ NamedGroups \subseteq Groups
           /\ \A g \in Groups : g \in NamedGroups <=> \E p \in Places : splitGroup[p] = g
           /\ IsFiniteSet(NamedGroups)
<1>1. IsFiniteSet(NamedGroups)
  BY ImagesFinite DEF Types, NamedGroups
<1>2. QED
  BY <1>1, StoreAssumption DEF NamedGroups, Types

\* What MarkDest writes when its request is alone, and ResetDest.
LEMMA MarkShape ==
    ASSUME Types, NEW r \in Requests, NEW ok \in BOOLEAN, MarkDest(r, ok), Calling(r, ok),
           req[r].kind = "split", SplitIsCurrent(r), Flags
    PROVE  /\ req[r].dest \in req[r].todo /\ req[r].dest \in Places /\ req[r].group \in Groups
           /\ ~isSplit[req[r].dest] /\ splitGroup[req[r].dest] = NoGroup
           /\ UNCHANGED <<splitNumber, numSplit>>
           /\ ok => /\ isSplit' = [isSplit EXCEPT ![req[r].dest] = TRUE]
                    /\ splitGroup' = [splitGroup EXCEPT ![req[r].dest] = req[r].group]
           /\ ~ok => isSplit' = isSplit /\ splitGroup' = splitGroup
<1>1. req[r].pc = "mark" /\ InHand(req[r]) /\ req[r] \in Held
  BY CallsAreHeld DEF MarkDest, At, Calls
<1>2. /\ req[r].dest \in req[r].todo /\ req[r].dest \in Places /\ req[r].group \in Groups
  BY <1>1 DEF InHand, Held
<1>3. /\ ~isSplit[req[r].dest] /\ splitGroup[req[r].dest] = NoGroup
      /\ req[r].marked = {} /\ req[r].named = NoGroup
  BY <1>1, <1>2 DEF SplitIsCurrent, Flags, At
<1>4. CASE ok
  BY <1>2, <1>3, <1>4, StoreAssumption DEF MarkDest, Saved, Types
<1>5. CASE ~ok
  BY <1>2, <1>3, <1>5 DEF MarkDest, Types
<1>6. QED
  BY <1>4, <1>5

LEMMA ResetShape ==
    ASSUME Types, NEW r \in Requests, NEW ok \in BOOLEAN, NEW p, ResetDest(r, p, ok),
           Calling(r, ok), req[r].kind = "undo", UndoIsCurrent(r)
    PROVE  /\ p \in Places /\ p \in req[r].todo /\ req[r].group \in Groups
           /\ splitGroup[p] = req[r].group /\ UNCHANGED <<splitNumber, numSplit>>
           /\ ok => /\ isSplit' = [isSplit EXCEPT ![p] = FALSE]
                    /\ splitGroup' = [splitGroup EXCEPT ![p] = NoGroup]
           /\ ~ok => isSplit' = isSplit /\ splitGroup' = splitGroup
<1>1. req[r].pc = "reset" /\ InHand(req[r]) /\ req[r] \in Held /\ p \in req[r].todo
  BY CallsAreHeld DEF ResetDest, At, Calls
<1>2. /\ p \in Places /\ req[r].group \in Groups
      /\ p \in req[r].marked /\ splitGroup[p] = req[r].group
  BY <1>1 DEF InHand, UndoIsCurrent, At
<1>3. CASE ok
  BY <1>1, <1>2, <1>3, StoreAssumption DEF ResetDest, Saved, Types
<1>4. CASE ~ok
  BY <1>1, <1>2, <1>4 DEF ResetDest, Types
<1>5. QED
  BY <1>3, <1>4

LEMMA SplitCurrentStep ==
    ASSUME Types, Types', NEW r \in Requests, NEW ok \in BOOLEAN, Calling(r, ok),
           req[r].kind = "split", Flags, NamedExisted, SplitIsCurrent(r)
    PROVE  Flags' /\ SplitIsCurrent(r)'
<1>1. /\ Goes(r) /\ req[r].pc \in Calls /\ req[r] \in Held /\ InHand(req[r])
      /\ SplitGoes(r, ok) /\ (Ends(r) \/ req'[r].asked = req[r].asked)
  BY CallHolds, CallsAreHeld, SplitPath DEF Calling
<1>2. /\ req[r].asked # {} /\ req[r].asked \subseteq Places
      /\ req[r].pc \in {"check", "official", "read", "mark"} =>
            req[r].todo # {} /\ req[r].todo \subseteq req[r].asked
  BY <1>1 DEF InHand, Held
<1>3. UNCHANGED CountRows => Flags'
  BY DEF CountRows, Flags
<1>4. CASE Ends(r) /\ UNCHANGED CountRows
  BY <1>3, <1>4 DEF Ends, SplitIsCurrent, At
<1>5. CASE /\ req[r].pc = "meta" /\ req'[r].pc = "check" /\ req'[r].todo = req[r].asked
           /\ UNCHANGED CountRows
  BY <1>1, <1>3, <1>5 DEF Ends, SplitIsCurrent, At, CountRows
<1>6. CASE /\ req[r].pc = "check" /\ UNCHANGED CountRows
           /\ \E p \in req[r].todo : /\ ~isSplit[p] /\ req'[r].todo = req[r].todo \ {p}
                                /\ req'[r].pc = IF req'[r].todo = {} THEN "group" ELSE "check"
  <2>1. /\ req'[r].asked = req[r].asked /\ req'[r].pc \in {"group", "check"}
        /\ req'[r].pc = "group" => req'[r].todo = {}
    BY <1>1, <1>6 DEF Ends
  <2>2. \A p \in req[r].asked \ req'[r].todo : ~isSplit[p]
    BY <1>6 DEF SplitIsCurrent, At
  <2>3. QED
    BY <1>3, <1>6, <2>1, <2>2 DEF SplitIsCurrent, At, CountRows
<1>7. CASE /\ req[r].pc = "group" /\ req'[r].pc = "transit" /\ UNCHANGED CountRows
           /\ req'[r].group \in Groups /\ sgStatus[req'[r].group] = "none"
  <2>1. req'[r].group \notin NamedGroups /\ NamedGroups' = NamedGroups
    BY <1>7, NamedFacts DEF NamedExisted, CountRows, NamedGroups
  <2>2. \A p \in req'[r].asked : ~isSplit[p]
    BY <1>1, <1>7 DEF Ends, SplitIsCurrent
  <2>3. QED
    BY <1>3, <1>7, <2>1, <2>2 DEF SplitIsCurrent, At, CountRows
<1>8. CASE /\ req[r].pc \in {"transit", "official"} /\ req'[r].pc \in {"official", "row"}
           /\ req'[r].group = req[r].group /\ UNCHANGED CountRows
  <2>1. req[r].group \notin NamedGroups /\ NamedGroups' = NamedGroups
    BY <1>8 DEF SplitIsCurrent, CountRows, NamedGroups
  <2>2. \A p \in req'[r].asked : ~isSplit[p]
    BY <1>1, <1>8 DEF Ends, SplitIsCurrent
  <2>3. QED
    BY <1>3, <1>8, <2>1, <2>2 DEF SplitIsCurrent, At, CountRows
<1>9. CASE /\ req[r].pc = "row" /\ req'[r].pc = "link" /\ req'[r].group = req[r].group
           /\ splitNumber' = [splitNumber EXCEPT ![req[r].group] = req[r].num + 1]
           /\ UNCHANGED <<isSplit, splitGroup, numSplit>>
  <2>1. req[r].group \notin NamedGroups /\ NamedGroups' = NamedGroups
    BY <1>9 DEF SplitIsCurrent, NamedGroups
  <2>2. \A p \in req'[r].asked : ~isSplit[p]
    BY <1>1, <1>9 DEF Ends, SplitIsCurrent
  <2>3. splitNumber'[req'[r].group] # 0
    BY <1>1, <1>9 DEF Types, InHand, Held
  <2>4. QED
    BY <1>9, <2>1, <2>2, <2>3 DEF Flags, SplitIsCurrent, At
<1>10. CASE /\ req[r].pc = "link" /\ req'[r].pc = "read" /\ req'[r].todo = req[r].asked
            /\ req'[r].group = req[r].group /\ UNCHANGED CountRows
  <2>1. req[r].group \notin NamedGroups /\ NamedGroups' = NamedGroups
    BY <1>10 DEF SplitIsCurrent, CountRows, NamedGroups
  <2>2. /\ \A p \in req'[r].todo : ~isSplit[p]
        /\ splitNumber[req'[r].group] # 0
    BY <1>1, <1>10 DEF Ends, SplitIsCurrent
  <2>3. QED
    BY <1>3, <1>10, <2>1, <2>2 DEF SplitIsCurrent, At, CountRows
<1>11. CASE /\ req[r].pc = "read" /\ req'[r].pc = "mark" /\ req'[r].todo = req[r].todo
            /\ req'[r].group = req[r].group /\ UNCHANGED CountRows
            /\ req'[r].dest \in req[r].todo /\ req'[r].named = splitGroup[req'[r].dest]
            /\ req'[r].marked = {q \in {req'[r].dest} : isSplit[q]}
  <2>1. NamedGroups' = NamedGroups /\ req'[r].asked = req[r].asked
    BY <1>1, <1>11 DEF CountRows, NamedGroups, Ends
  <2>2. /\ \A p \in req'[r].todo : ~isSplit[p]
        /\ splitNumber[req'[r].group] # 0
        /\ req'[r].todo = req'[r].asked => req'[r].group \notin NamedGroups
    BY <1>11, <2>1 DEF SplitIsCurrent
  <2>3. req'[r].marked = {} /\ req'[r].named = NoGroup
    BY <1>2, <1>11, <2>2 DEF Flags
  <2>4. QED
    BY <1>3, <1>11, <2>1, <2>2, <2>3 DEF SplitIsCurrent, At, CountRows
<1>12. CASE /\ req[r].pc = "read" /\ req'[r].group = req[r].group /\ UNCHANGED CountRows
            /\ \E p \in req[r].todo : /\ req'[r].todo = req[r].todo \ {p}
                   /\ req'[r].pc = IF req'[r].todo = {} THEN "count" ELSE "read"
  <2>1. /\ req'[r].pc \in {"count", "read"} /\ req'[r].asked = req[r].asked
        /\ req'[r].todo # req'[r].asked /\ req'[r].todo \subseteq req[r].todo
    BY <1>1, <1>2, <1>12 DEF Ends
  <2>2. /\ \A p \in req'[r].todo : ~isSplit[p]
        /\ splitNumber[req'[r].group] # 0
    BY <1>12, <2>1 DEF SplitIsCurrent
  <2>3. QED
    BY <1>3, <1>12, <2>1, <2>2 DEF SplitIsCurrent, At, CountRows
<1>13. CASE /\ req[r].pc = "mark" /\ MarkDest(r, ok) /\ req'[r].group = req[r].group
            /\ req'[r].todo = req[r].todo \ {req[r].dest}
            /\ req'[r].pc = IF req'[r].todo = {} THEN "count" ELSE "read"
  <2> DEFINE d == req[r].dest
  <2>1. /\ d \in req[r].todo /\ d \in Places /\ req[r].group \in Groups
        /\ ~isSplit[d] /\ splitGroup[d] = NoGroup /\ splitNumber' = splitNumber
        /\ ok => /\ isSplit' = [isSplit EXCEPT ![d] = TRUE]
                 /\ splitGroup' = [splitGroup EXCEPT ![d] = req[r].group]
        /\ ~ok => isSplit' = isSplit /\ splitGroup' = splitGroup
    BY <1>13, MarkShape
  <2>2. /\ req'[r].pc \in {"count", "read"} /\ req'[r].asked = req[r].asked
        /\ req'[r].todo # req'[r].asked /\ req'[r].todo \subseteq req[r].todo
        /\ d \notin req'[r].todo
    BY <1>1, <1>2, <1>13, <2>1 DEF Ends
  <2>3. /\ \A p \in req'[r].todo : ~isSplit'[p]
        /\ splitNumber'[req'[r].group] # 0
    <3>1. \A p \in req'[r].todo : ~isSplit[p] /\ p # d /\ p \in Places
      BY <1>2, <1>13, <2>2 DEF SplitIsCurrent
    <3>2. splitNumber[req[r].group] # 0
      BY <1>13 DEF SplitIsCurrent
    <3>3. QED
      BY <1>13, <2>1, <3>1, <3>2 DEF Types
  <2>4. Flags'
    BY <2>1, StoreAssumption DEF Flags, Types
  <2>5. QED
    BY <2>2, <2>3, <2>4 DEF SplitIsCurrent, At
<1>14. CASE req[r].pc = "count" /\ SaveCount(r, ok) /\ req'[r].pc = "status"
  BY <1>14 DEF SaveCount, destVars, Flags, SplitIsCurrent, At
<1>15. QED
  BY <1>1, <1>4, <1>5, <1>6, <1>7, <1>8, <1>9, <1>10, <1>11, <1>12, <1>13, <1>14 DEF SplitGoes

LEMMA UndoCurrentStep ==
    ASSUME Types, Types', NEW r \in Requests, NEW ok \in BOOLEAN, Calling(r, ok),
           req[r].kind = "undo", Flags, UndoIsCurrent(r)
    PROVE  Flags' /\ UndoIsCurrent(r)'
<1>1. /\ Goes(r) /\ req[r].pc \in Calls /\ req[r] \in Held /\ InHand(req[r])
      /\ req[r].group \in Groups
      /\ UndoGoes(r, ok) /\ req'[r].group = req[r].group
  BY CallHolds, CallsAreHeld, UndoPath DEF Calling, InHand
<1>2. UNCHANGED CountRows => Flags' /\ splitNumber' = splitNumber
  BY DEF CountRows, Flags
<1>3. CASE Ends(r) /\ UNCHANGED CountRows
  BY <1>2, <1>3 DEF Ends, UndoIsCurrent, At
<1>4. CASE /\ req[r].pc \in {"meta", "parent", "draft"}
           /\ req'[r].pc \in {"parent", "draft", "dests"} /\ UNCHANGED CountRows
  BY <1>1, <1>2, <1>4 DEF UndoIsCurrent, At
<1>5. CASE /\ req[r].pc = "dests" /\ req'[r].todo = Found(r, ok) /\ UNCHANGED CountRows
           /\ req'[r].marked = {p \in Found(r, ok) : isSplit[p]}
           /\ req'[r].pc = IF req'[r].todo = {} THEN "find" ELSE "reset"
  <2>1. \A p \in Found(r, ok) : /\ p \in Places /\ splitGroup[p] = req[r].group
                                /\ isSplit[p]
    BY <1>1, StoreAssumption DEF Found, Flags
  <2>2. splitNumber[req[r].group] # 0
    BY <1>5 DEF UndoIsCurrent
  <2>3. QED
    BY <1>1, <1>2, <1>5, <2>1, <2>2 DEF UndoIsCurrent, At, CountRows
<1>6. CASE \E p \in req[r].todo : /\ ResetDest(r, p, ok) /\ req'[r].todo = req[r].todo \ {p}
                             /\ req'[r].marked = req[r].marked /\ req[r].pc = "reset"
                             /\ req'[r].pc = IF req'[r].todo = {} THEN "find" ELSE "reset"
  <2>1. PICK p \in req[r].todo : /\ ResetDest(r, p, ok) /\ req'[r].todo = req[r].todo \ {p}
                             /\ req'[r].marked = req[r].marked /\ req[r].pc = "reset"
                             /\ req'[r].pc = IF req'[r].todo = {} THEN "find" ELSE "reset"
    BY <1>6
  <2>2. /\ p \in Places /\ UNCHANGED <<splitNumber, numSplit>>
        /\ ok => /\ isSplit' = [isSplit EXCEPT ![p] = FALSE]
                 /\ splitGroup' = [splitGroup EXCEPT ![p] = NoGroup]
        /\ ~ok => isSplit' = isSplit /\ splitGroup' = splitGroup
    BY <2>1, ResetShape
  <2>3. Flags'
    BY <2>2 DEF Flags, Types
  <2>4. splitNumber[req[r].group] # 0 /\ req[r].todo \subseteq req[r].marked
        /\ req[r].todo \subseteq Places /\ \A q \in req[r].todo : splitGroup[q] = req[r].group
    BY <1>1, <2>1 DEF UndoIsCurrent, At, InHand
  <2>5. \A q \in req'[r].todo : splitGroup'[q] = req[r].group
    BY <2>1, <2>2, <2>4 DEF Types
  <2>6. QED
    BY <1>1, <2>1, <2>2, <2>3, <2>4, <2>5 DEF UndoIsCurrent, At
<1>7. CASE /\ req[r].pc \in {"find", "remove"} /\ req'[r].pc \in {"remove", "unrow"}
           /\ UNCHANGED CountRows
  BY <1>1, <1>2, <1>7 DEF UndoIsCurrent, At
<1>8. CASE /\ req[r].pc = "unrow" /\ req'[r].pc = "ungroup"
           /\ UNCHANGED <<isSplit, splitGroup, numSplit>>
  BY <1>8 DEF Flags, UndoIsCurrent, At
<1>9. CASE /\ req[r].pc = "ungroup" /\ req'[r].pc = "count"
           /\ UNCHANGED <<isSplit, splitGroup, numSplit>>
  BY <1>9 DEF Flags, UndoIsCurrent, At
<1>10. CASE req[r].pc = "count" /\ SaveCount(r, ok) /\ req'[r].pc = "status"
  BY <1>10 DEF SaveCount, destVars, Flags, UndoIsCurrent, At
<1>11. QED
  BY <1>1, <1>3, <1>4, <1>5, <1>6, <1>7, <1>8, <1>9, <1>10 DEF UndoGoes

LEMMA StatusIsLast ==
    ASSUME Types, NEW r \in Requests, NEW ok \in BOOLEAN, Calling(r, ok), At(r, "status")
    PROVE  req'[r].pc = "done"
<1>1. SaveStatus(r, ok)
  BY DEF Calling, Call, LooseCall, ReadMeta, ReadParent, ReadGroup, CheckDest,
     SaveOfficial, SaveGroup, SaveTransit, SaveSplitRow, LoadChallans, IssueChallan,
     CloseGroup, CallFails, SkipOfficial, LinkSplit, MarkDest, SaveCount, FindDests,
     FindChallans, RemoveSplitRow, RemoveGroup, ReadDest, ResetDest, RemoveChallan, At
<1>2. QED
  BY <1>1, GotoGoes DEF SaveStatus, GoesTo, Pcs

LEMMA CountCurrentStep ==
    ASSUME Types, Types', NEW r \in Requests, NEW ok \in BOOLEAN, Calling(r, ok),
           CountIsCurrent(r)
    PROVE  CountIsCurrent(r)'
<1>1. Goes(r) /\ InFlight(r)
  BY CallHolds DEF Calling, InFlight, Calls
<1>2. SUFFICES ASSUME req[r].kind \in {"split", "undo"}, InFlight(r)', ~At(r, "meta")',
                      ~At(r, "status")'
               PROVE  req'[r].num = numSplit'
  BY <1>1 DEF CountIsCurrent, Goes
<1>3. req'[r].pc \in Calls /\ req'[r].pc \notin {"status", "done"}
  BY <1>1, <1>2 DEF InFlight, At, Goes, Held, Pcs, Calls
<1>4. numSplit' = numSplit
  BY <1>3, OnlySaveCountCounts
<1>5. ~At(r, "status")
  BY <1>3, StatusIsLast
<1>6. QED
  BY <1>1, <1>2, <1>3, <1>4, <1>5, CallMemory DEF CountIsCurrent

LEMMA ReadsStep ==
    ASSUME Types, Types', OneAtATime, OneAtATime', NamedExisted, ReadsAreCurrent, [Next]_vars
    PROVE  ReadsAreCurrent'
<1> SUFFICES ASSUME ~overlapped'
             PROVE  Flags' /\ \A x \in Requests :
                       CountIsCurrent(x)' /\ SplitIsCurrent(x)' /\ UndoIsCurrent(x)'
  BY DEF ReadsAreCurrent
<1>1. /\ ~overlapped /\ Flags
      /\ \A x \in Requests : CountIsCurrent(x) /\ SplitIsCurrent(x) /\ UndoIsCurrent(x)
  BY OverlapStays DEF ReadsAreCurrent
<1>2. ASSUME NEW x \in Requests, ~InFlight(x)'
      PROVE  CountIsCurrent(x)' /\ SplitIsCurrent(x)' /\ UndoIsCurrent(x)'
  BY <1>2 DEF InFlight, CountIsCurrent, SplitIsCurrent, UndoIsCurrent, At
<1>3. ASSUME NEW r \in Requests, Begin(r)
      PROVE  Flags' /\ \A x \in Requests :
                CountIsCurrent(x)' /\ SplitIsCurrent(x)' /\ UndoIsCurrent(x)'
  <2>1. /\ UNCHANGED CountRows /\ req'[r].pc \in {"group", "meta", "load", "find"}
        /\ req'[r].kind \in {"split", "undo"} => req'[r].pc = "meta"
        /\ req'[r].kind = "undo" => splitNumber[req'[r].group] # 0
    BY <1>3, BeginShape DEF db, destVars, CountRows
  <2>2. Flags'
    BY <1>1, <2>1 DEF CountRows, Flags
  <2>3. CountIsCurrent(r)' /\ SplitIsCurrent(r)' /\ UndoIsCurrent(r)'
    BY <2>1 DEF CountRows, CountIsCurrent, SplitIsCurrent, UndoIsCurrent, At
  <2>4. InFlight(r)'
    BY <2>1 DEF InFlight
  <2>5. \A x \in Requests : x # r => ~InFlight(x)'
    BY <2>4 DEF OneAtATime
  <2>6. QED
    BY <1>2, <2>2, <2>3, <2>5
<1>4. ASSUME NEW r \in Requests, NEW ok \in BOOLEAN, Calling(r, ok)
      PROVE  Flags' /\ \A x \in Requests :
                CountIsCurrent(x)' /\ SplitIsCurrent(x)' /\ UndoIsCurrent(x)'
  <2>1. Goes(r) /\ InFlight(r)
    BY <1>4, CallHolds DEF Calling, InFlight, Calls
  <2>2. \A x \in Requests : x # r => ~InFlight(x)'
    BY <1>1, <2>1 DEF OneAtATime, Goes, InFlight
  <2>3. CountIsCurrent(r)'
    BY <1>1, <1>4, CountCurrentStep
  <2>4. Flags' /\ SplitIsCurrent(r)' /\ UndoIsCurrent(r)'
    <3>1. CASE req[r].kind = "split"
      BY <1>1, <1>4, <2>1, <3>1, SplitCurrentStep DEF Goes, UndoIsCurrent
    <3>2. CASE req[r].kind = "undo"
      BY <1>1, <1>4, <2>1, <3>2, UndoCurrentStep DEF Goes, SplitIsCurrent
    <3>3. CASE req[r].kind \notin {"split", "undo"}
      BY <1>1, <1>4, <2>1, <3>3, OtherPath DEF Goes, SplitIsCurrent, UndoIsCurrent, Flags
    <3>4. QED
      BY <3>1, <3>2, <3>3
  <2>5. QED
    BY <1>2, <2>2, <2>3, <2>4
<1>5. CASE Crash
  <2>1. Flags'
    BY <1>1, <1>5, CrashShape DEF db, destVars, Flags
  <2>2. \A x \in Requests : ~InFlight(x)'
    BY <1>5, CrashShape DEF InFlight, Held, Pcs
  <2>3. QED
    BY <1>2, <2>1, <2>2
<1>6. CASE UNCHANGED vars
  BY <1>1, <1>6 DEF vars, db, destVars, Flags, CountIsCurrent, SplitIsCurrent, UndoIsCurrent,
     InFlight, NamedGroups, At
<1>7. QED
  BY <1>3, <1>4, <1>5, <1>6, StepKinds DEF Calling

-----------------------------------------------------------------------------
(* The drift between the counter and the destinations. *)

\* What the drift is measured by.
LEMMA LevelTypes ==
    ASSUME Types, NEW r \in Requests
    PROVE  /\ Cardinality(NamedGroups) \in Nat
           /\ IsFiniteSet(Tracked) => Cardinality(Tracked) \in Nat
           /\ numSplit \in Nat /\ crashes \in Nat /\ errors \in Nat
           /\ Ahead(r) \in {-1, 0, 1} /\ Behind(r) \in {-1, 0, 1}
<1>1. /\ Cardinality(NamedGroups) \in Nat
      /\ IsFiniteSet(Tracked) => Cardinality(Tracked) \in Nat
  BY NamedFacts, FS_CardinalityType
<1>2. numSplit \in Nat /\ crashes \in Nat /\ errors \in Nat
  BY StoreAssumption DEF Types
<1>3. Ahead(r) \in {-1, 0, 1} /\ Behind(r) \in {-1, 0, 1}
  BY DEF Ahead, Behind
<1>4. QED
  BY <1>1, <1>2, <1>3

\* What a call does to the rows is what it does to the request's allowance, but for
\* the d faults that happen; a counter at zero is not ahead of anything.
Accounts(r, d) ==
    /\ IsFiniteSet(Tracked') /\ crashes' + errors' = crashes + errors + d
    /\ \/ numSplit' = 0 /\ Ahead(r)' = 0
       \/ numSplit' - Cardinality(NamedGroups') - Ahead(r)'
             <= numSplit - Cardinality(NamedGroups) - Ahead(r) + d
    /\ Cardinality(Tracked') - numSplit' - Behind(r)'
          <= Cardinality(Tracked) - numSplit - Behind(r) + d

LEMMA LevelKept ==
    ASSUME Types, Types', NEW r \in Requests, NEW d \in {0, 1},
           Level(Ahead(r), Behind(r)), Accounts(r, d)
    PROVE  Level(Ahead(r), Behind(r))'
<1>1. PICK N, M, a, b, n, f : /\ N = Cardinality(NamedGroups) /\ M = Cardinality(Tracked)
                              /\ a = Ahead(r) /\ b = Behind(r) /\ n = numSplit
                              /\ f = crashes + errors
  OBVIOUS
<1>2. PICK N2, M2, a2, b2, n2, f2 : /\ N2 = Cardinality(NamedGroups')
                                    /\ M2 = Cardinality(Tracked') /\ a2 = Ahead(r)'
                                    /\ b2 = Behind(r)' /\ n2 = numSplit'
                                    /\ f2 = crashes' + errors'
  OBVIOUS
<1>3. N \in Nat /\ M \in Nat /\ a \in Int /\ b \in Int /\ n \in Nat /\ f \in Nat
  BY <1>1, LevelTypes DEF Level
<1>4. N2 \in Nat /\ M2 \in Nat /\ a2 \in Int /\ b2 \in Int /\ n2 \in Nat /\ f2 \in Nat
  <2>1. IsFiniteSet(NamedGroups') /\ IsFiniteSet(Tracked')
    BY ImagesFinite DEF Types, NamedGroups, Accounts
  <2>2. crashes' \in Nat /\ errors' \in Nat /\ n2 \in Nat
    BY <1>2, StoreAssumption DEF Types
  <2>3. f2 \in Nat
    <3>1. PICK c, e : c = crashes' /\ e = errors'
      OBVIOUS
    <3>2. c \in Nat /\ e \in Nat
      BY <2>2, <3>1
    <3>3. c + e \in Nat
      BY <3>2
    <3>4. QED
      BY <1>2, <3>1, <3>3
  <2>4. a2 \in Int /\ b2 \in Int
    BY <1>2 DEF Ahead, Behind
  <2>5. QED
    BY <1>2, <2>1, <2>2, <2>3, <2>4, FS_CardinalityType
<1>5. n <= N + f + a /\ M <= n + f + b
  <2>1. crashes \in Nat /\ errors \in Nat
    BY LevelTypes
  <2>2. n <= N + crashes + errors + a /\ M <= n + crashes + errors + b
    BY <1>1 DEF Level
  <2>3. QED
    BY <1>1, <1>3, <2>1, <2>2
<1>6. /\ f2 = f + d /\ M2 - n2 - b2 <= M - n - b + d
      /\ (n2 = 0 /\ a2 = 0) \/ n2 - N2 - a2 <= n - N - a + d
  BY <1>1, <1>2 DEF Accounts
<1>7. n2 <= N2 + f2 + a2 /\ M2 <= n2 + f2 + b2
  <2>1. d \in Nat
    OBVIOUS
  <2>2. QED
    BY <1>3, <1>4, <1>5, <1>6, <2>1
<1>8. /\ numSplit' <= Cardinality(NamedGroups') + crashes' + errors' + Ahead(r)'
      /\ Cardinality(Tracked') <= numSplit' + crashes' + errors' + Behind(r)'
  <2>1. PICK c, e : c = crashes' /\ e = errors'
    OBVIOUS
  <2>2. c \in Nat /\ e \in Nat /\ f2 = c + e
    BY <1>2, <2>1, StoreAssumption DEF Types
  <2>3. n2 <= N2 + c + e + a2 /\ M2 <= n2 + c + e + b2
    BY <1>4, <1>7, <2>2
  <2>4. QED
    BY <1>2, <2>1, <2>3
<1>9. QED
  BY <1>8 DEF Level, Accounts

\* The groups tracked, when no row that tells changes.
LEMMA SameRowsSameGroups ==
    ASSUME UNCHANGED <<splitGroup, splitNumber>>
    PROVE  NamedGroups' = NamedGroups /\ Tracked' = Tracked
BY DEF NamedGroups, Tracked

LEMMA SplitAccounts ==
    ASSUME Types, Types', NEW r \in Requests, NEW ok \in BOOLEAN, NEW d \in {0, 1}, ok \/ d = 1,
           crashes' + errors' = crashes + errors + d, Calling(r, ok), req[r].kind = "split",
           Flags, CountIsCurrent(r), SplitIsCurrent(r), IsFiniteSet(Tracked)
    PROVE  Accounts(r, d)
<1>1. PICK N, M, a, b, n : /\ N = Cardinality(NamedGroups) /\ M = Cardinality(Tracked)
                           /\ a = Ahead(r) /\ b = Behind(r) /\ n = numSplit
  OBVIOUS
<1>2. PICK N2, M2, a2, b2, n2 : /\ N2 = Cardinality(NamedGroups')
                                /\ M2 = Cardinality(Tracked') /\ a2 = Ahead(r)'
                                /\ b2 = Behind(r)' /\ n2 = numSplit'
  OBVIOUS
<1>3. N \in Nat /\ M \in Nat /\ a \in {-1, 0, 1} /\ b \in {-1, 0, 1} /\ n \in Nat
  BY <1>1, LevelTypes
<1>4. SUFFICES /\ IsFiniteSet(Tracked')
               /\ n2 - N2 - a2 <= n - N - a + d
               /\ M2 - n2 - b2 <= M - n - b + d
  BY <1>1, <1>2 DEF Accounts
<1> DEFINE Good == IsFiniteSet(Tracked') /\ n2 - N2 - a2 <= n - N - a + d
                      /\ M2 - n2 - b2 <= M - n - b + d
<1>5. /\ Goes(r) /\ req[r].pc \in Calls /\ req[r] \in Held /\ InHand(req[r])
      /\ SplitGoes(r, ok) /\ (Ends(r) \/ req'[r].asked = req[r].asked)
      /\ req'[r].kind = "split"
  BY CallHolds, CallsAreHeld, SplitPath DEF Calling, Goes
<1>6. /\ req[r].asked # {} /\ req[r].asked \subseteq Places
      /\ req[r].pc \in {"check", "official", "read", "mark"} =>
            req[r].todo # {} /\ req[r].todo \subseteq req[r].asked
  BY <1>5 DEF InHand, Held
<1>7. ASSUME UNCHANGED <<splitGroup, splitNumber>>
      PROVE  N2 = N /\ M2 = M /\ IsFiniteSet(Tracked')
  BY <1>1, <1>2, <1>7, SameRowsSameGroups
<1>8. ASSUME NEW e \in {-1, 0}, NEW f \in {0, 1}, a = e, a2 = e, b = f, b2 = f,
             UNCHANGED CountRows
      PROVE  Good
  <2>1. N2 = N /\ M2 = M /\ n2 = n /\ IsFiniteSet(Tracked')
    BY <1>1, <1>2, <1>7, <1>8 DEF CountRows
  <2>2. QED
    BY <1>3, <1>8, <2>1
<1>9. CASE /\ Ends(r) /\ UNCHANGED CountRows
           /\ req[r].pc \notin {"link", "read", "mark", "count"}
  <2>1. a = 0 /\ b = 0 /\ a2 = 0 /\ b2 = 0
    BY <1>1, <1>2, <1>5, <1>9 DEF Ahead, Behind, Ends, At
  <2>2. QED
    BY <1>8, <1>9, <2>1
<1>10. CASE /\ req[r].pc \in {"meta", "check", "group", "transit", "official"}
            /\ req'[r].pc \in {"check", "group", "transit", "official", "row"}
            /\ UNCHANGED CountRows
  <2>1. a = 0 /\ b = 0 /\ a2 = 0 /\ b2 = 0
    BY <1>1, <1>2, <1>5, <1>10 DEF Ahead, Behind, At
  <2>2. QED
    BY <1>8, <1>10, <2>1
<1>11. CASE /\ req[r].pc = "row" /\ req'[r].pc = "link" /\ req'[r].group = req[r].group
            /\ splitNumber' = [splitNumber EXCEPT ![req[r].group] = req[r].num + 1]
            /\ UNCHANGED <<isSplit, splitGroup, numSplit>>
  <2>1. a = 0 /\ b = 0 /\ a2 = 0 /\ b2 = 1 /\ n2 = n
    BY <1>1, <1>2, <1>5, <1>11 DEF Ahead, Behind, At
  <2>2. NamedGroups' = NamedGroups /\ N2 = N
    BY <1>1, <1>2, <1>11 DEF NamedGroups
  <2>3. Tracked' \subseteq Tracked \cup {req[r].group}
    BY <1>11, <2>2 DEF Tracked, Types
  <2>4. /\ IsFiniteSet(Tracked \cup {req[r].group})
        /\ Cardinality(Tracked \cup {req[r].group}) \in {M, M + 1}
    BY <1>1, FS_AddElement
  <2>5. IsFiniteSet(Tracked') /\ M2 <= Cardinality(Tracked \cup {req[r].group}) /\ M2 \in Nat
    BY <1>2, <2>3, <2>4, FS_Subset, FS_CardinalityType
  <2>6. M2 <= M + 1
    BY <1>3, <2>4, <2>5
  <2>7. QED
    BY <1>3, <2>1, <2>2, <2>5, <2>6
<1>12. CASE /\ req[r].pc = "link" /\ req'[r].pc = "read" /\ req'[r].todo = req[r].asked
            /\ req'[r].group = req[r].group /\ UNCHANGED CountRows
  <2>1. a = 0 /\ b = 1 /\ a2 = 0 /\ b2 = 1
    BY <1>1, <1>2, <1>5, <1>12 DEF Ahead, Behind, Ends, At
  <2>2. QED
    BY <1>8, <1>12, <2>1
<1>13. CASE /\ req[r].pc = "read" /\ req'[r].pc = "mark" /\ req'[r].todo = req[r].todo
            /\ UNCHANGED CountRows
  <2>1. a \in {-1, 0} /\ b = 1 /\ a2 = a /\ b2 = 1
    BY <1>1, <1>2, <1>5, <1>13 DEF Ahead, Behind, Ends, At
  <2>2. QED
    BY <1>8, <1>13, <2>1
<1>14. CASE /\ req[r].pc = "read" /\ ~ok /\ UNCHANGED CountRows
            /\ \E p \in req[r].todo : /\ req'[r].todo = req[r].todo \ {p}
                   /\ req'[r].pc = IF req'[r].todo = {} THEN "count" ELSE "read"
  <2>1. /\ req'[r].pc \in {"count", "read"} /\ req'[r].todo # req'[r].asked /\ d = 1
    BY <1>5, <1>6, <1>14 DEF Ends
  <2>2. a \in {-1, 0} /\ b = 1 /\ a2 = -1 /\ b2 = 1
    BY <1>1, <1>2, <1>5, <1>14, <2>1 DEF Ahead, Behind, At
  <2>3. N2 = N /\ M2 = M /\ n2 = n /\ IsFiniteSet(Tracked')
    BY <1>1, <1>2, <1>7, <1>14 DEF CountRows
  <2>4. QED
    BY <1>3, <2>1, <2>2, <2>3
<1>15. CASE /\ req[r].pc = "mark" /\ MarkDest(r, ok) /\ req'[r].group = req[r].group
            /\ req'[r].todo = req[r].todo \ {req[r].dest}
            /\ req'[r].pc = IF req'[r].todo = {} THEN "count" ELSE "read"
  <2> DEFINE x == req[r].dest
             g == req[r].group
  <2>1. /\ x \in req[r].todo /\ x \in Places /\ g \in Groups
        /\ ~isSplit[x] /\ splitGroup[x] = NoGroup /\ UNCHANGED <<splitNumber, numSplit>>
        /\ ok => splitGroup' = [splitGroup EXCEPT ![x] = g]
        /\ ~ok => splitGroup' = splitGroup
    BY <1>15, MarkShape
  <2>2. /\ req'[r].pc \in {"count", "read"} /\ req'[r].todo # req'[r].asked
    BY <1>5, <1>6, <1>15, <2>1 DEF Ends
  <2>3. a \in {-1, 0} /\ b = 1 /\ a2 = -1 /\ b2 = 1 /\ n2 = n
    BY <1>1, <1>2, <1>5, <1>15, <2>1, <2>2 DEF Ahead, Behind, At
  <2>4. CASE ~ok
    <3>1. N2 = N /\ M2 = M /\ IsFiniteSet(Tracked') /\ d = 1
      BY <1>7, <2>1, <2>4
    <3>2. QED
      BY <1>3, <2>3, <3>1
  <2>5. CASE ok
    <3>1. NamedGroups' = NamedGroups \cup {g}
      <4>1. \A p \in Places : splitGroup'[p] = IF p = x THEN g ELSE splitGroup[p]
        BY <2>1, <2>5 DEF Types
      <4>2. g # NoGroup
        BY <2>1, StoreAssumption
      <4>3. QED
        BY <2>1, <4>1, <4>2 DEF NamedGroups
    <3>2. Tracked' = Tracked
      <4>1. splitNumber[g] # 0
        BY <1>15 DEF SplitIsCurrent
      <4>2. QED
        BY <2>1, <3>1, <4>1 DEF Tracked
    <3>3. IsFiniteSet(NamedGroups) /\ N2 = Cardinality(NamedGroups \cup {g})
      BY <1>2, <3>1, NamedFacts
    <3>4. /\ N2 \in {N, N + 1}
          /\ g \notin NamedGroups => N2 = N + 1
      BY <1>1, <3>3, FS_AddElement
    <3>5. a = 0 => g \notin NamedGroups
      <4>1. a = 0 => req[r].todo = req[r].asked
        BY <1>1, <1>5, <1>15 DEF Ahead, At
      <4>2. QED
        BY <1>15, <4>1 DEF SplitIsCurrent
    <3>6. N2 >= N + 1 + a /\ N2 \in Nat
      BY <1>3, <2>3, <3>4, <3>5
    <3>7. M2 = M /\ IsFiniteSet(Tracked')
      BY <1>1, <1>2, <3>2
    <3>8. QED
      BY <1>3, <2>3, <3>6, <3>7
  <2>6. QED
    BY <2>4, <2>5
<1>16. CASE req[r].pc = "count" /\ SaveCount(r, ok) /\ req'[r].pc = "status"
  <2>1. a = -1 /\ b = 1 /\ a2 = 0 /\ b2 = 0
    BY <1>1, <1>2, <1>5, <1>16 DEF Ahead, Behind, At
  <2>2. N2 = N /\ M2 = M /\ IsFiniteSet(Tracked')
    BY <1>7, <1>16 DEF SaveCount, destVars
  <2>3. req[r].num = n
    BY <1>1, <1>16 DEF CountIsCurrent, InFlight, At
  <2>4. NewCount(req[r]) = n + 1
    BY <1>16, <2>3, NewCountIsNat
  <2>5. ok => n2 = n + 1
    BY <1>1, <1>2, <1>3, <1>16, <2>3, <2>4 DEF SaveCount, Saved
  <2>6. ~ok => n2 = n /\ d = 1
    BY <1>1, <1>2, <1>16 DEF SaveCount
  <2>7. QED
    BY <1>3, <2>1, <2>2, <2>5, <2>6
<1>17. QED
  BY <1>5, <1>9, <1>10, <1>11, <1>12, <1>13, <1>14, <1>15, <1>16 DEF SplitGoes

LEMMA UndoAccounts ==
    ASSUME Types, Types', NEW r \in Requests, NEW ok \in BOOLEAN, NEW d \in {0, 1}, ok \/ d = 1,
           crashes' + errors' = crashes + errors + d, Calling(r, ok), req[r].kind = "undo",
           CountIsCurrent(r), UndoIsCurrent(r), IsFiniteSet(Tracked)
    PROVE  Accounts(r, d)
<1>1. PICK N, M, a, b, n : /\ N = Cardinality(NamedGroups) /\ M = Cardinality(Tracked)
                           /\ a = Ahead(r) /\ b = Behind(r) /\ n = numSplit
  OBVIOUS
<1>2. PICK N2, M2, a2, b2, n2 : /\ N2 = Cardinality(NamedGroups')
                                /\ M2 = Cardinality(Tracked') /\ a2 = Ahead(r)'
                                /\ b2 = Behind(r)' /\ n2 = numSplit'
  OBVIOUS
<1>3. N \in Nat /\ M \in Nat /\ a \in {-1, 0, 1} /\ b \in {-1, 0, 1} /\ n \in Nat
  BY <1>1, LevelTypes
<1>4. SUFFICES /\ IsFiniteSet(Tracked')
               /\ (n2 = 0 /\ a2 = 0) \/ n2 - N2 - a2 <= n - N - a + d
               /\ M2 - n2 - b2 <= M - n - b + d
  BY <1>1, <1>2 DEF Accounts
<1> DEFINE Good == /\ IsFiniteSet(Tracked')
                   /\ (n2 = 0 /\ a2 = 0) \/ n2 - N2 - a2 <= n - N - a + d
                   /\ M2 - n2 - b2 <= M - n - b + d
           g == req[r].group
<1>5. /\ Goes(r) /\ req[r].pc \in Calls /\ req[r] \in Held /\ InHand(req[r])
      /\ UndoGoes(r, ok) /\ req'[r].group = g /\ g \in Groups
      /\ req'[r].kind = "undo"
  BY CallHolds, CallsAreHeld, UndoPath DEF Calling, Goes, InHand
<1>6. ASSUME UNCHANGED <<splitGroup, splitNumber>>
      PROVE  N2 = N /\ M2 = M /\ IsFiniteSet(Tracked') /\ NamedGroups' = NamedGroups
  BY <1>1, <1>2, <1>6, SameRowsSameGroups
<1>7. ASSUME M2 = M \/ M2 <= M, M2 \in Nat, N2 = N, n2 = n, IsFiniteSet(Tracked'),
             a2 \in {0, 1}, b2 \in {-1, 0, 1}, a <= a2, b <= b2 + d
      PROVE  Good
  BY <1>3, <1>7
<1>8. a \in {0, 1} /\ b \in {-1, 0} /\ a2 \in {0, 1} /\ b2 \in {-1, 0}
  BY <1>1, <1>2, <1>5 DEF Ahead, Behind
<1>9. CASE /\ Ends(r) /\ UNCHANGED CountRows
           /\ req[r].pc \in {"meta", "parent", "draft", "status"}
  <2>1. a = 0 /\ b = 0 /\ a2 = 0 /\ b2 = 0
    BY <1>1, <1>2, <1>5, <1>9 DEF Ahead, Behind, LeavesOne, Ends, At
  <2>2. QED
    BY <1>1, <1>2, <1>3, <1>6, <1>7, <1>9, <2>1 DEF CountRows
<1>10. CASE /\ req[r].pc \in {"meta", "parent", "draft"}
            /\ req'[r].pc \in {"parent", "draft", "dests"} /\ UNCHANGED CountRows
  <2>1. a = 0 /\ b = 0 /\ a2 = 0 /\ b2 = 0
    BY <1>1, <1>2, <1>5, <1>10 DEF Ahead, Behind, LeavesOne, At
  <2>2. QED
    BY <1>1, <1>2, <1>3, <1>6, <1>7, <1>10, <2>1 DEF CountRows
<1>11. CASE /\ req[r].pc = "dests" /\ req'[r].todo = Found(r, ok) /\ UNCHANGED CountRows
            /\ req'[r].pc = IF req'[r].todo = {} THEN "find" ELSE "reset"
  <2>1. a = 0 /\ b = 0
    BY <1>1, <1>5, <1>11 DEF Ahead, Behind, LeavesOne, At
  <2>2. N2 = N /\ M2 = M /\ n2 = n /\ IsFiniteSet(Tracked') /\ NamedGroups' = NamedGroups
    BY <1>1, <1>2, <1>6, <1>11 DEF CountRows
  <2>3. CASE ok
    <3>1. Found(r, ok) = {p \in Places : splitGroup[p] = g}
      BY <2>3 DEF Found
    <3>2. ~LeavesOne(r)'
      <4>1. CASE Found(r, ok) = {}
        <5>1. g \notin NamedGroups
          BY <1>5, <3>1, <4>1, NamedFacts
        <5>2. QED
          BY <1>5, <1>11, <2>2, <4>1, <5>1 DEF LeavesOne, At
      <4>2. CASE Found(r, ok) # {}
        BY <1>5, <1>11, <3>1, <4>2 DEF LeavesOne, At, CountRows
      <4>3. QED
        BY <4>1, <4>2
    <3>3. b2 = 0
      BY <1>2, <1>5, <1>11, <3>2 DEF Behind, At
    <3>4. QED
      BY <1>3, <1>7, <1>8, <2>1, <2>2, <3>3
  <2>4. CASE ~ok
    BY <1>3, <1>7, <1>8, <2>1, <2>2, <2>4
  <2>5. QED
    BY <2>3, <2>4
<1>12. CASE \E p \in req[r].todo : /\ ResetDest(r, p, ok) /\ req'[r].todo = req[r].todo \ {p}
                              /\ req'[r].marked = req[r].marked /\ req[r].pc = "reset"
                              /\ req'[r].pc = IF req'[r].todo = {} THEN "find" ELSE "reset"
  <2>1. PICK p \in req[r].todo : /\ ResetDest(r, p, ok) /\ req'[r].todo = req[r].todo \ {p}
                              /\ req[r].pc = "reset"
                              /\ req'[r].pc = IF req'[r].todo = {} THEN "find" ELSE "reset"
    BY <1>12
  <2>2. /\ p \in Places /\ splitGroup[p] = g /\ UNCHANGED <<splitNumber, numSplit>>
        /\ ok => splitGroup' = [splitGroup EXCEPT ![p] = NoGroup]
        /\ ~ok => splitGroup' = splitGroup
    BY <2>1, ResetShape
  <2>3. g \in NamedGroups /\ splitNumber[g] # 0
    BY <1>5, <2>1, <2>2, NamedFacts DEF UndoIsCurrent
  <2>4. a = 0 /\ n2 = n /\ req'[r].pc \in {"find", "reset"}
    BY <1>1, <1>2, <1>5, <2>1, <2>2, <2>3 DEF Ahead, At
  <2>5. CASE ~ok
    <3>1. N2 = N /\ M2 = M /\ IsFiniteSet(Tracked') /\ d = 1
      BY <1>6, <2>2, <2>5
    <3>2. QED
      BY <1>3, <1>7, <1>8, <2>4, <3>1
  <2>6. CASE ok
    <3>1. \A q \in Places : splitGroup'[q] = IF q = p THEN NoGroup ELSE splitGroup[q]
      BY <2>2, <2>6 DEF Types
    <3>2. /\ NamedGroups' \subseteq NamedGroups /\ NamedGroups \subseteq NamedGroups' \cup {g}
          /\ g \in NamedGroups' <=> \E q \in Places \ {p} : splitGroup[q] = g
      <4>1. g # NoGroup
        BY <1>5, StoreAssumption
      <4>2. QED
        BY <2>2, <3>1, <4>1 DEF NamedGroups
    <3>3. Tracked' = Tracked
      BY <1>5, <2>2, <2>3, <3>2 DEF Tracked
    <3>4. M2 = M /\ IsFiniteSet(Tracked')
      BY <1>1, <1>2, <3>3
    <3>5. b2 = b
      <4>1. LeavesOne(r) <=> \E q \in Places \ req[r].todo : splitGroup[q] = g
        BY <2>1 DEF LeavesOne, At
      <4>2. LeavesOne(r)' <=> \E q \in Places \ req[r].todo : splitGroup[q] = g
        <5>1. CASE req'[r].todo = {}
          <6>1. req[r].todo = {p} /\ req'[r].pc = "find"
            BY <2>1, <5>1
          <6>2. LeavesOne(r)' <=> g \in NamedGroups'
            BY <1>5, <6>1 DEF LeavesOne, At
          <6>3. QED
            BY <3>2, <6>1, <6>2
        <5>2. CASE req'[r].todo # {}
          <6>1. req'[r].pc = "reset"
            BY <2>1, <5>2
          <6>2. LeavesOne(r)' <=> \E q \in Places \ req'[r].todo : splitGroup'[q] = g
            BY <1>5, <6>1 DEF LeavesOne, At
          <6>3. g # NoGroup
            BY <1>5, StoreAssumption
          <6>4. QED
            BY <2>1, <3>1, <6>2, <6>3
        <5>3. QED
          BY <5>1, <5>2
      <4>3. b = (IF LeavesOne(r) THEN -1 ELSE 0) /\ b2 = (IF LeavesOne(r)' THEN -1 ELSE 0)
        BY <1>1, <1>2, <1>5, <2>1, <2>4 DEF Behind
      <4>4. QED
        BY <4>1, <4>2, <4>3
    <3>6. IsFiniteSet(NamedGroups) /\ IsFiniteSet(NamedGroups') /\ N2 \in Nat
      BY <1>2, <3>2, NamedFacts, FS_Subset, FS_CardinalityType
    <3>7. CASE g \in NamedGroups'
      <4>1. NamedGroups' = NamedGroups
        BY <3>2, <3>7
      <4>2. QED
        BY <1>1, <1>2, <1>3, <1>7, <1>8, <2>4, <3>4, <3>5, <4>1
    <3>8. CASE g \notin NamedGroups'
      <4>1. a2 = 1
        BY <1>2, <1>5, <2>4, <3>8 DEF Ahead
      <4>2. NamedGroups = NamedGroups' \cup {g}
        BY <2>3, <3>2
      <4>3. N = N2 + 1
        BY <1>1, <1>2, <3>6, <3>8, <4>2, FS_AddElement
      <4>4. QED
        BY <1>3, <1>8, <2>4, <3>4, <3>5, <3>6, <4>1, <4>3
    <3>9. QED
      BY <3>7, <3>8
  <2>7. QED
    BY <2>5, <2>6
<1>13. CASE /\ req[r].pc \in {"find", "remove"} /\ req'[r].pc \in {"remove", "unrow"}
            /\ UNCHANGED CountRows
  <2>1. N2 = N /\ M2 = M /\ n2 = n /\ IsFiniteSet(Tracked') /\ NamedGroups' = NamedGroups
    BY <1>1, <1>2, <1>6, <1>13 DEF CountRows
  <2>2. a2 = a /\ b2 = b
    BY <1>1, <1>2, <1>5, <1>13, <2>1 DEF Ahead, Behind, LeavesOne, At
  <2>3. QED
    BY <1>3, <1>7, <1>8, <2>1, <2>2
<1>14. CASE /\ req[r].pc = "unrow" /\ req'[r].pc = "ungroup"
            /\ UNCHANGED <<isSplit, splitGroup, numSplit>>
            /\ splitNumber' = [splitNumber EXCEPT ![g] = IF ok THEN 0 ELSE @]
  <2>1. NamedGroups' = NamedGroups /\ N2 = N /\ n2 = n
    BY <1>1, <1>2, <1>14 DEF NamedGroups
  <2>2. a2 = a /\ b2 = -1 /\ (b = -1 <=> g \in NamedGroups)
    BY <1>1, <1>2, <1>5, <1>14, <2>1 DEF Ahead, Behind, LeavesOne, At
  <2>3. g \in Tracked
    BY <1>5, <1>14 DEF UndoIsCurrent, Tracked
  <2>4. CASE ~ok
    <3>1. splitNumber' = splitNumber /\ d = 1
      BY <1>14, <2>4 DEF Types
    <3>2. M2 = M /\ IsFiniteSet(Tracked')
      BY <1>6, <1>14, <3>1
    <3>3. QED
      BY <1>3, <1>7, <1>8, <2>1, <2>2, <3>1, <3>2
  <2>5. CASE ok /\ g \in NamedGroups
    <3>1. Tracked' = Tracked
      BY <1>5, <1>14, <2>1, <2>5 DEF Tracked, Types
    <3>2. QED
      BY <1>1, <1>2, <1>3, <1>7, <1>8, <2>1, <2>2, <2>5, <3>1
  <2>6. CASE ok /\ g \notin NamedGroups
    <3>1. Tracked' = Tracked \ {g}
      BY <1>5, <1>14, <2>1, <2>6 DEF Tracked, Types
    <3>2. IsFiniteSet(Tracked') /\ M2 = M - 1
      BY <1>1, <1>2, <2>3, <3>1, FS_RemoveElement
    <3>3. QED
      BY <1>3, <1>8, <2>1, <2>2, <3>2
  <2>7. QED
    BY <2>4, <2>5, <2>6
<1>15. CASE /\ req[r].pc = "ungroup" /\ req'[r].pc = "count"
            /\ UNCHANGED <<isSplit, splitGroup, numSplit>>
            /\ splitNumber' = splitNumber \/ splitNumber' = [splitNumber EXCEPT ![g] = 0]
  <2>1. NamedGroups' = NamedGroups /\ N2 = N /\ n2 = n
    BY <1>1, <1>2, <1>15 DEF NamedGroups
  <2>2. a2 = a /\ b = -1 /\ b2 = -1
    BY <1>1, <1>2, <1>5, <1>15, <2>1 DEF Ahead, Behind, At
  <2>3. Tracked' \subseteq Tracked
    BY <1>15, <2>1 DEF Tracked, Types
  <2>4. IsFiniteSet(Tracked') /\ M2 <= M /\ M2 \in Nat
    BY <1>1, <1>2, <2>3, FS_Subset, FS_CardinalityType
  <2>5. QED
    BY <1>3, <1>7, <1>8, <2>1, <2>2, <2>4
<1>16. CASE req[r].pc = "count" /\ SaveCount(r, ok) /\ req'[r].pc = "status"
  <2>1. b = -1 /\ a2 = 0 /\ b2 = 0
    BY <1>1, <1>2, <1>5, <1>16 DEF Ahead, Behind, LeavesOne, At
  <2>2. N2 = N /\ M2 = M /\ IsFiniteSet(Tracked')
    BY <1>6, <1>16 DEF SaveCount, destVars
  <2>3. req[r].num = n
    BY <1>1, <1>16 DEF CountIsCurrent, InFlight, At
  <2>4. NewCount(req[r]) = IF n > 0 THEN n - 1 ELSE 0
    BY <1>16, <2>3, NewCountIsNat
  <2>5. ok => n2 = IF n > 0 THEN n - 1 ELSE 0
    BY <1>1, <1>2, <1>3, <1>16, <2>3, <2>4 DEF SaveCount, Saved
  <2>6. ~ok => n2 = n /\ d = 1
    BY <1>1, <1>2, <1>16 DEF SaveCount
  <2>7. CASE ok /\ n > 0
    BY <1>3, <1>8, <2>1, <2>2, <2>5, <2>7
  <2>8. CASE ok /\ ~(n > 0)
    BY <1>3, <1>8, <2>1, <2>2, <2>5, <2>8
  <2>9. CASE ~ok
    BY <1>3, <1>8, <2>1, <2>2, <2>6, <2>9
  <2>10. QED
    BY <2>7, <2>8, <2>9
<1>17. QED
  BY <1>5, <1>9, <1>10, <1>11, <1>12, <1>13, <1>14, <1>15, <1>16 DEF UndoGoes

LEMMA OtherAccounts ==
    ASSUME Types, Types', NEW r \in Requests, NEW ok \in BOOLEAN, NEW d \in {0, 1},
           crashes' + errors' = crashes + errors + d, Calling(r, ok),
           req[r].kind \notin {"split", "undo"}, IsFiniteSet(Tracked)
    PROVE  Accounts(r, d)
<1>1. PICK N, M, n : N = Cardinality(NamedGroups) /\ M = Cardinality(Tracked) /\ n = numSplit
  OBVIOUS
<1>2. PICK M2 : M2 = Cardinality(Tracked')
  OBVIOUS
<1>3. N \in Nat /\ M \in Nat /\ n \in Nat
  BY <1>1, LevelTypes
<1>4. /\ UNCHANGED <<isSplit, splitGroup, numSplit>> /\ req'[r].kind = req[r].kind
      /\ \/ splitNumber' = splitNumber
         \/ splitNumber' = [splitNumber EXCEPT ![req[r].group] = 0]
  BY OtherPath, CallHolds DEF Calling, Goes
<1>5. Ahead(r) = 0 /\ Behind(r) = 0 /\ Ahead(r)' = 0 /\ Behind(r)' = 0
  BY <1>4 DEF Ahead, Behind
<1>6. NamedGroups' = NamedGroups /\ Tracked' \subseteq Tracked
  BY <1>4 DEF NamedGroups, Tracked, Types
<1>7. IsFiniteSet(Tracked') /\ M2 <= M /\ M2 \in Nat
  BY <1>1, <1>2, <1>6, FS_Subset, FS_CardinalityType
<1>8. n - N - 0 <= n - N - 0 + d /\ M2 - n - 0 <= M - n - 0 + d
  BY <1>3, <1>7
<1>9. QED
  BY <1>1, <1>2, <1>4, <1>5, <1>6, <1>7, <1>8 DEF Accounts

LEMMA CallLevel ==
    ASSUME Types, Types', NEW r \in Requests, NEW ok \in BOOLEAN, NEW d \in {0, 1}, ok \/ d = 1,
           crashes' + errors' = crashes + errors + d, Calling(r, ok),
           Flags, CountIsCurrent(r), SplitIsCurrent(r), UndoIsCurrent(r),
           Level(Ahead(r), Behind(r))
    PROVE  Level(Ahead(r), Behind(r))'
<1>1. IsFiniteSet(Tracked)
  BY DEF Level
<1>2. Accounts(r, d)
  <2>1. CASE req[r].kind = "split"
    BY <1>1, <2>1, SplitAccounts
  <2>2. CASE req[r].kind = "undo"
    BY <1>1, <2>2, UndoAccounts
  <2>3. CASE req[r].kind \notin {"split", "undo"}
    BY <1>1, <2>3, OtherAccounts
  <2>4. QED
    BY <2>1, <2>2, <2>3
<1>3. QED
  BY <1>2, LevelKept

LEMMA DriftStep ==
    ASSUME Types, Types', OneAtATime, OneAtATime', ReadsAreCurrent, Drift, [Next]_vars
    PROVE  Drift'
<1> SUFFICES ASSUME ~overlapped'
             PROVE  /\ Idle' => Level(0, 0)'
                    /\ \A x \in Requests : InFlight(x)' => Level(Ahead(x), Behind(x))'
  BY DEF Drift
<1>1. /\ ~overlapped /\ Flags
      /\ \A x \in Requests : CountIsCurrent(x) /\ SplitIsCurrent(x) /\ UndoIsCurrent(x)
      /\ Idle => Level(0, 0)
      /\ \A x \in Requests : InFlight(x) => Level(Ahead(x), Behind(x))
  BY OverlapStays DEF ReadsAreCurrent, Drift
<1>2. ASSUME NEW r \in Requests, Begin(r), crashes' = crashes, errors' = errors
      PROVE  /\ Idle' => Level(0, 0)'
             /\ \A x \in Requests : InFlight(x)' => Level(Ahead(x), Behind(x))'
  <2>1. /\ UNCHANGED <<splitGroup, splitNumber, numSplit>> /\ req[r].pc = "idle"
        /\ \A x \in Requests : x # r => req'[x] = req[x]
        /\ req'[r].pc \in {"group", "meta"} \/ req'[r].kind \notin {"split", "undo"}
        /\ InFlight(r)'
    BY <1>2, BeginShape DEF db, destVars, InFlight
  <2>2. \A x \in Requests : InFlight(x)' => x = r
    BY <2>1 DEF OneAtATime
  <2>3. Idle
    BY <2>1, <2>2 DEF Idle, InFlight
  <2>4. Level(0, 0) /\ NamedGroups' = NamedGroups /\ Tracked' = Tracked
    BY <1>1, <2>1, <2>3, SameRowsSameGroups
  <2>5. Level(0, 0)'
    BY <1>2, <2>1, <2>4 DEF Level
  <2>6. Ahead(r)' = 0 /\ Behind(r)' = 0
    BY <2>1 DEF Ahead, Behind, LeavesOne, At
  <2>7. Level(Ahead(r), Behind(r))'
    BY <2>5, <2>6 DEF Level
  <2>8. QED
    BY <2>2, <2>5, <2>7
<1>3. ASSUME NEW r \in Requests, NEW ok \in BOOLEAN, NEW d \in {0, 1}, ok \/ d = 1,
             crashes' + errors' = crashes + errors + d, Calling(r, ok)
      PROVE  /\ Idle' => Level(0, 0)'
             /\ \A x \in Requests : InFlight(x)' => Level(Ahead(x), Behind(x))'
  <2>1. Goes(r) /\ InFlight(r) /\ req'[r].pc \in Pcs
    BY <1>3, CallHolds DEF Calling, InFlight, Calls, Goes, Held
  <2>2. \A x \in Requests : x # r => ~InFlight(x)'
    BY <1>1, <2>1 DEF OneAtATime, Goes, InFlight
  <2>3. Level(Ahead(r), Behind(r))'
    BY <1>1, <1>3, <2>1, CallLevel
  <2>4. Idle' => Ahead(r)' = 0 /\ Behind(r)' = 0
    BY DEF Idle, InFlight, Ahead, Behind, LeavesOne, At
  <2>5. Idle' => Level(0, 0)'
    BY <2>3, <2>4 DEF Level
  <2>6. QED
    BY <2>2, <2>3, <2>5
<1>4. ASSUME NEW r \in Requests, Begin(r) \/ Call(r) \/ LooseCall(r, TRUE),
             crashes' = crashes, errors' = errors
      PROVE  /\ Idle' => Level(0, 0)'
             /\ \A x \in Requests : InFlight(x)' => Level(Ahead(x), Behind(x))'
  <2>1. crashes' + errors' = crashes + errors + 0
    <3>1. crashes \in Nat /\ errors \in Nat
      BY StoreAssumption DEF Types
    <3>2. crashes + errors = crashes + errors + 0
      BY <3>1
    <3>3. QED
      BY <1>4, <3>2
  <2>2. Call(r) \/ LooseCall(r, TRUE) => Calling(r, TRUE)
    BY DEF Calling
  <2>3. CASE Begin(r)
    BY <1>2, <1>4, <2>3
  <2>4. CASE Calling(r, TRUE)
    BY <1>3, <2>1, <2>4
  <2>5. QED
    BY <1>4, <2>2, <2>3, <2>4
<1>5. ASSUME NEW r \in Requests,
             CallFails(r) \/ LooseCall(r, FALSE) \/ \E p \in Places : SkipOfficial(r, p),
             crashes' = crashes, errors' = errors + 1
      PROVE  /\ Idle' => Level(0, 0)'
             /\ \A x \in Requests : InFlight(x)' => Level(Ahead(x), Behind(x))'
  <2>1. crashes' + errors' = crashes + errors + 1
    <3>1. crashes \in Nat /\ errors \in Nat
      BY StoreAssumption DEF Types
    <3>2. crashes + (errors + 1) = crashes + errors + 1
      BY <3>1
    <3>3. QED
      BY <1>5, <3>2
  <2>2. Calling(r, FALSE)
    BY <1>5 DEF Calling
  <2>3. QED
    BY <1>3, <2>1, <2>2
<1>6. CASE Crash
  <2>1. /\ UNCHANGED <<splitGroup, splitNumber, numSplit>> /\ errors' = errors
        /\ crashes' = crashes + 1
    BY <1>6, CrashShape DEF db, destVars
  <2>2. PICK r \in Requests : InFlight(r)
    BY <1>6 DEF Crash, Idle
  <2>3. PICK N, M, a, b : /\ N = Cardinality(NamedGroups) /\ M = Cardinality(Tracked)
                          /\ a = Ahead(r) /\ b = Behind(r)
    OBVIOUS
  <2>4. /\ N \in Nat /\ M \in Nat /\ a \in {-1, 0, 1} /\ b \in {-1, 0, 1}
        /\ numSplit \in Nat /\ crashes \in Nat /\ errors \in Nat /\ IsFiniteSet(Tracked)
        /\ numSplit <= N + crashes + errors + a /\ M <= numSplit + crashes + errors + b
    BY <1>1, <2>2, <2>3, LevelTypes DEF Level
  <2>5. /\ numSplit <= N + (crashes + 1) + errors + 0
        /\ M <= numSplit + (crashes + 1) + errors + 0
    BY <2>4
  <2>6. NamedGroups' = NamedGroups /\ Tracked' = Tracked
    BY <2>1, SameRowsSameGroups
  <2>7. Level(0, 0)'
    BY <2>1, <2>3, <2>4, <2>5, <2>6 DEF Level
  <2>8. \A x \in Requests : ~InFlight(x)'
    BY <1>6, CrashShape DEF InFlight, Held, Pcs
  <2>9. QED
    BY <2>7, <2>8
<1>7. CASE UNCHANGED vars
  <2>1. Idle' = Idle /\ \A x \in Requests : InFlight(x)' = InFlight(x)
    BY <1>7 DEF vars, Idle, InFlight
  <2>2. NamedGroups' = NamedGroups /\ Tracked' = Tracked
    BY <1>7, SameRowsSameGroups DEF vars, db, destVars
  <2>3. Level(0, 0)' = Level(0, 0)
    BY <1>7, <2>2 DEF vars, db, Level
  <2>4. \A x \in Requests : Ahead(x)' = Ahead(x) /\ Behind(x)' = Behind(x)
    BY <1>7, <2>2 DEF vars, db, destVars, Ahead, Behind, LeavesOne, At
  <2>5. \A x \in Requests : Level(Ahead(x), Behind(x)) => Level(Ahead(x), Behind(x))'
    BY <1>7, <2>2, <2>4 DEF vars, db, Level
  <2>6. QED
    BY <1>1, <2>1, <2>3, <2>5
<1>8. QED
  BY <1>4, <1>5, <1>6, <1>7, StepKinds

-----------------------------------------------------------------------------
(* The invariant of the rows, and what it shows. *)

IInv == Types /\ Owned /\ CountsAccounted /\ MissingAreErrors /\ OneAtATime /\ DraftInHand
           /\ IssuedIsWhole /\ NamedExisted /\ ReadsAreCurrent /\ Drift

LEMMA InitShape ==
    ASSUME Init
    PROVE  /\ Types
           /\ \A r \in Requests : req[r] = NewRequest
           /\ \A r \in Requests : ~InFlight(r) /\ req[r].kind = "none"
<1>1. NewRequest \in Held
  BY TodosHold DEF NewRequest, Held, Pcs, Kinds
<1>2. \A r \in Requests : req[r] = NewRequest
  BY DEF Init
<1>3. \A r \in Requests : ~InFlight(r) /\ req[r].kind = "none"
  BY <1>2 DEF InFlight, NewRequest
<1>4. req \in [Requests -> Held]
  BY <1>1 DEF Init
<1>5. crashes \in 0 .. MaxCrashes /\ errors \in 0 .. MaxErrors
  BY StoreAssumption DEF Init
<1>6. QED
  BY <1>2, <1>3, <1>4, <1>5 DEF Init, Types, RowStatus

LEMMA InitHolds == Init => IInv
<1> SUFFICES ASSUME Init PROVE IInv
  OBVIOUS
<1>1. Types /\ \A r \in Requests : ~InFlight(r) /\ req[r].kind = "none"
  BY InitShape
<1>2. Owned
  BY DEF Init, Owned, Exists
<1>3. CountsAccounted
  <2>1. Counted = {} /\ numSplit = 0
    BY <1>1 DEF Counted, Init
  <2>2. QED
    BY <1>1, <2>1, FS_EmptySet DEF CountsAccounted
<1>4. MissingAreErrors
  <2>1. Missing = {} /\ errors = 0
    BY <1>1, StoreAssumption DEF Missing, Passed, Init
  <2>2. QED
    BY <2>1, FS_EmptySet DEF MissingAreErrors
<1>5. OneAtATime /\ IssuedIsWhole
  BY <1>1 DEF OneAtATime, IssuedIsWhole, Init
<1>6. DraftInHand
  BY <1>1 DEF DraftInHand, InFlight
<1>7. NamedExisted
  BY InitShape, StoreAssumption DEF Init, NamedExisted, NewRequest
<1>8. ReadsAreCurrent
  <2>1. \A r \in Requests : req[r].kind = "none" /\ ~InFlight(r)
    BY InitShape
  <2>2. QED
    BY <2>1 DEF Init, ReadsAreCurrent, Flags, CountIsCurrent, SplitIsCurrent, UndoIsCurrent
<1>9. Drift
  <2>1. NamedGroups = {} /\ Tracked = {} /\ numSplit = 0 /\ crashes = 0 /\ errors = 0
    BY DEF Init, NamedGroups, Tracked
  <2>2. Level(0, 0)
    BY <2>1, FS_EmptySet DEF Level
  <2>3. QED
    BY <1>1, <2>2 DEF Drift
<1>10. QED
  BY <1>1, <1>2, <1>3, <1>4, <1>5, <1>6, <1>7, <1>8, <1>9 DEF IInv

LEMMA IInvStep == IInv /\ [Next]_vars => IInv'
<1> SUFFICES ASSUME IInv, [Next]_vars PROVE IInv'
  OBVIOUS
<1>1. Types'
  BY TypesStep DEF IInv
<1>2. Owned' /\ CountsAccounted'
  BY <1>1, OwnedStep, CountsStep DEF IInv
<1>3. MissingAreErrors'
  BY <1>1, MissingStep DEF IInv
<1>4. OneAtATime'
  BY <1>1, OneAtATimeStep DEF IInv
<1>5. DraftInHand' /\ IssuedIsWhole'
  BY <1>1, <1>4, DraftInHandStep, WholeStep DEF IInv
<1>6. NamedExisted' /\ ReadsAreCurrent'
  BY <1>1, <1>4, NamedExistedStep, ReadsStep DEF IInv
<1>7. Drift'
  BY <1>1, <1>4, DriftStep DEF IInv
<1>8. QED
  BY <1>1, <1>2, <1>3, <1>4, <1>5, <1>6, <1>7 DEF IInv

LEMMA Inductive == Spec => []IInv
BY InitHolds, IInvStep, PTL DEF Spec

\* The rows and the memory of every request keep their types, whatever the
\* interleaving, the faults and the crashes (TypeOK).
THEOREM TypeCorrect == Spec => []TypeOK
<1>1. IInv => TypeOK
  BY TypesAreTypeOK DEF IInv
<1>2. QED
  BY <1>1, Inductive, PTL

\* No challan and no split row outlives its group, however requests that create,
\* undo and delete the same group interleave (NoOrphans).
THEOREM NothingOutlivesItsGroup == Spec => []NoOrphans
<1>1. IInv => NoOrphans
  BY OwnedIsNoOrphans DEF IInv
<1>2. QED
  BY <1>1, Inductive, PTL

\* The counter of a transfer is at most the number of CreateSplit requests,
\* however their read and their write of it interleave (CountNeverInvents).
THEOREM NoSplitIsInvented == Spec => []CountNeverInvents
<1>1. IInv => CountNeverInvents
  <2> SUFFICES ASSUME IInv PROVE CountNeverInvents
    OBVIOUS
  <2> DEFINE splits == {r \in Requests : req[r].kind = "split"}
             n == Cardinality(Counted)
             m == Cardinality(splits)
  <2>1. IsFiniteSet(splits) /\ Counted \subseteq splits
    BY FS_Subset, StoreAssumption DEF Counted
  <2>2. n \in Nat /\ m \in Nat /\ n <= m
    BY <2>1, FS_Subset, FS_CardinalityType
  <2>3. numSplit \in Nat /\ numSplit <= n
    BY DEF IInv, Types, CountsAccounted
  <2> HIDE DEF n, m
  <2>4. numSplit <= m
    BY <2>2, <2>3
  <2>5. QED
    BY <2>4 DEF CountNeverInvents, m
<1>2. QED
  BY <1>1, Inductive, PTL

\* A destination names a group only after its official challan was created, but
\* for one destination per failed call (MarkedAfterShipped).
THEOREM MarkedOnlyOnceShipped == Spec => []MarkedAfterShipped
<1>1. IInv => MarkedAfterShipped
  BY UnshippedAreMissing DEF IInv
<1>2. QED
  BY <1>1, Inductive, PTL

\* While requests do not overlap, a group that says issued is issued as a whole,
\* whatever faults and crashes came before (IssuedIsWhole).
THEOREM IssuedAsAWhole == Spec => []IssuedIsWhole
<1>1. IInv => IssuedIsWhole
  BY DEF IInv
<1>2. QED
  BY <1>1, Inductive, PTL

\* While requests do not overlap, no undo or deletion takes a challan from an
\* issued group (IssuedGroupStays).
THEOREM IssuedGroupsKeepTheirChallans == Spec => IssuedGroupStays
<1> DEFINE Stays == ~overlapped' => \A g \in Groups : sgStatus[g] = "issued" =>
                       /\ sgStatus'[g] = "issued"
                       /\ \A c \in ChallansOf(g) : dcStatus'[c] = dcStatus[c]
<1>1. IInv /\ [Next]_vars => Stays
  <2>1. \A g \in Groups : \A c \in ChallansOf(g) : c \in Challans /\ c[1] = g
    BY DEF ChallansOf
  <2>2. QED
    BY <2>1, IssuedStays DEF IInv
<1>2. IInv /\ [Next]_vars => [Stays]_vars
  BY <1>1
<1>3. QED
  BY <1>2, Inductive, PTL DEF Spec, IssuedGroupStays

\* Between requests that do not overlap, num_split and the groups that the
\* destinations name differ by at most the number of crashes and failed calls
\* (DriftIsBounded).
THEOREM DriftIsAtMostTheFaults == Spec => []DriftIsBounded
<1>1. IInv => DriftIsBounded
  <2> SUFFICES ASSUME IInv, Idle, ~overlapped
               PROVE  /\ numSplit <= Cardinality(NamedGroups) + (crashes + errors)
                      /\ Cardinality(NamedGroups) <= numSplit + (crashes + errors)
    BY DEF DriftIsBounded
  <2>1. PICK N, M : N = Cardinality(NamedGroups) /\ M = Cardinality(Tracked)
    OBVIOUS
  <2>2. /\ IsFiniteSet(Tracked) /\ numSplit <= N + crashes + errors + 0
        /\ M <= numSplit + crashes + errors + 0
    BY <2>1 DEF IInv, Drift, Level
  <2>3. NamedGroups \subseteq Tracked
    BY DEF Tracked
  <2>4. N \in Nat /\ M \in Nat /\ N <= M
    BY <2>1, <2>2, <2>3, FS_Subset, FS_CardinalityType
  <2>5. numSplit \in Nat /\ crashes \in Nat /\ errors \in Nat
    BY StoreAssumption DEF IInv, Types
  <2>6. numSplit <= N + (crashes + errors) /\ N <= numSplit + (crashes + errors)
    BY <2>2, <2>4, <2>5
  <2>7. QED
    BY <2>1, <2>6
<1>2. QED
  BY <1>1, Inductive, PTL

-----------------------------------------------------------------------------
(* A request that is alone, and that no fault hits, is one step of DCLifecycle. *)

\* The rows before the request, S below, are the ones in settled.
SettledRows ==
    [sgStatus : [Groups -> RowStatus], sgTransfer : [Groups -> {T, NoTransfer}],
     dcStatus : [Challans -> RowStatus], splitNumber : [Groups -> Nat],
     tStatus : {"issued", "splitting", "split"}, isSplit : [Places -> BOOLEAN],
     splitGroup : [Places -> Groups \cup {NoGroup}], numSplit : Nat]

Clean == crashes = 0 /\ errors = 0 /\ ~overlapped

TransferIs(S) == /\ tStatus = S.tStatus /\ numSplit = S.numSplit
                 /\ isSplit = S.isSplit /\ splitGroup = S.splitGroup

GroupsAre(S) == /\ sgStatus = S.sgStatus /\ sgTransfer = S.sgTransfer
                /\ dcStatus = S.dcStatus /\ splitNumber = S.splitNumber

\* The draft group g of transfer t, and its challans for X.
Made(S, g, t, X) ==
    /\ sgStatus = [S.sgStatus EXCEPT ![g] = "draft"]
    /\ sgTransfer = [S.sgTransfer EXCEPT ![g] = t]
    /\ dcStatus = [c \in Challans |-> IF c[1] = g /\ c[2] \in X THEN "draft" ELSE S.dcStatus[c]]

\* The challans a creation has made so far.
Created(r) ==
    CASE At(r, "transit")  -> {}
      [] At(r, "official") -> {Transit} \cup (req[r].asked \ req[r].todo)
      [] OTHER             -> {Transit} \cup req[r].asked

DirectSoFar(S, r) ==
    /\ TransferIs(S) /\ splitNumber = S.splitNumber
    /\ At(r, "group") => GroupsAre(S)
    /\ ~At(r, "group") => /\ S.sgStatus[req[r].group] = "none"
                          /\ Made(S, req[r].group, NoTransfer, Created(r))

\* The destinations marked so far.
Marked(r) ==
    CASE req[r].pc \in {"read", "mark"}    -> req[r].asked \ req[r].todo
      [] req[r].pc \in {"count", "status"} -> req[r].asked
      [] OTHER                             -> {}

SplitSoFar(S, r) ==
    LET s == req[r]
        made == s.pc \notin {"meta", "check", "group"}
        rowed == made /\ s.pc \notin {"transit", "official", "row"}
    IN  /\ S.tStatus \in {"issued", "splitting"}
        /\ s.status = S.tStatus /\ tStatus = S.tStatus
        /\ s.pc # "meta" => s.num = S.numSplit
        /\ ~made => GroupsAre(S)
        /\ made => /\ S.sgStatus[s.group] = "none" /\ Made(S, s.group, T, Created(r))
                   /\ \A p \in s.asked : ~S.isSplit[p]
        /\ splitNumber = IF rowed THEN [S.splitNumber EXCEPT ![s.group] = s.num + 1]
                         ELSE S.splitNumber
        /\ isSplit = [p \in Places |-> IF p \in Marked(r) THEN TRUE ELSE S.isSplit[p]]
        /\ splitGroup = [p \in Places |-> IF p \in Marked(r) THEN s.group ELSE S.splitGroup[p]]
        /\ numSplit = IF s.pc = "status" THEN s.num + 1 ELSE S.numSplit

\* The challans of group g, and the ones removed or issued so far.
Theirs(S, g) == {c \in Challans : c[1] = g /\ S.dcStatus[c] \in {"draft", "issued"}}

Removed(S, r) ==
    CASE At(r, "remove") -> Theirs(S, req[r].group) \ req[r].todo
      [] req[r].pc \in {"unrow", "ungroup", "count", "status"} -> Theirs(S, req[r].group)
      [] OTHER -> {}

Issued(S, r) ==
    CASE At(r, "load")  -> {}
      [] At(r, "issue") -> Theirs(S, req[r].group) \ req[r].todo
      [] OTHER          -> Theirs(S, req[r].group)

ChallansTurned(S, X, status) ==
    dcStatus = [c \in Challans |-> IF c \in X THEN status ELSE S.dcStatus[c]]

\* The destinations that name group g, and the ones reset so far.
UndoneOf(S, g) == {p \in Places : S.splitGroup[p] = g}

Reset(S, r) ==
    CASE req[r].pc \in {"meta", "parent", "draft", "dests"} -> {}
      [] At(r, "reset") -> UndoneOf(S, req[r].group) \ req[r].todo
      [] OTHER          -> UndoneOf(S, req[r].group)

UndoSoFar(S, r) ==
    LET s == req[r]
        g == s.group
        gone == s.pc \in {"count", "status"}
    IN  /\ S.splitNumber[g] # 0 /\ tStatus = S.tStatus
        /\ s.pc # "meta" => s.num = S.numSplit
        /\ s.pc \notin {"meta", "parent"} => s.status = S.tStatus
        /\ s.pc \notin {"meta", "parent", "draft"} => S.sgStatus[g] = "draft"
        /\ At(r, "reset") => s.todo \subseteq UndoneOf(S, g)
        /\ At(r, "remove") => s.todo \subseteq Theirs(S, g)
        /\ isSplit = [p \in Places |-> IF p \in Reset(S, r) THEN FALSE ELSE S.isSplit[p]]
        /\ splitGroup = [p \in Places |-> IF p \in Reset(S, r) THEN NoGroup
                                          ELSE S.splitGroup[p]]
        /\ ChallansTurned(S, Removed(S, r), "deleted")
        /\ sgStatus = IF gone THEN [S.sgStatus EXCEPT ![g] = "deleted"] ELSE S.sgStatus
        /\ sgTransfer = IF gone THEN [S.sgTransfer EXCEPT ![g] = NoTransfer] ELSE S.sgTransfer
        /\ splitNumber = IF gone \/ s.pc = "ungroup" THEN [S.splitNumber EXCEPT ![g] = 0]
                         ELSE S.splitNumber
        /\ numSplit = IF s.pc = "status" THEN NewCount(s) ELSE S.numSplit

DeleteSoFar(S, r) ==
    /\ S.sgStatus[req[r].group] = "draft"
    /\ At(r, "remove") => req[r].todo \subseteq Theirs(S, req[r].group)
    /\ ChallansTurned(S, Removed(S, r), "deleted")
    /\ TransferIs(S) /\ splitNumber = S.splitNumber
    /\ sgStatus = S.sgStatus /\ sgTransfer = S.sgTransfer

IssueSoFar(S, r) ==
    LET g == req[r].group
    IN  /\ S.sgStatus[g] = "draft"
        /\ req[r].linked => S.splitNumber[g] # 0
        /\ ~At(r, "load") => \A c \in Theirs(S, g) : S.dcStatus[c] = "draft"
        /\ At(r, "issue") => req[r].todo \subseteq Theirs(S, g)
        /\ ChallansTurned(S, Issued(S, r), "issued")
        /\ TransferIs(S) /\ splitNumber = S.splitNumber
        /\ sgStatus = S.sgStatus /\ sgTransfer = S.sgTransfer

SoFar(S, r) ==
    /\ req[r].kind = "direct" => DirectSoFar(S, r)
    /\ req[r].kind = "split" => SplitSoFar(S, r)
    /\ req[r].kind = "undo" => UndoSoFar(S, r)
    /\ req[r].kind = "issue" => IssueSoFar(S, r)
    /\ req[r].kind \in {"groupDelete", "dcDelete"} => DeleteSoFar(S, r)

\* A group that names its split row has one; a group that had one was the transfer's.
LinksHaveRows == \A g \in Groups : sgSplit[g] => splitNumber[g] # 0
SplitsHaveParent ==
    \A g \in Groups : settled.splitNumber[g] # 0 =>
        settled.sgTransfer[g] = T /\ settled.sgStatus[g] \in {"draft", "issued"}

InStep ==
    /\ settled \in SettledRows /\ LinksHaveRows
    /\ Clean => /\ SplitsHaveParent
                /\ Idle => settled = Rows
                /\ \A r \in Requests : InFlight(r) => SoFar(settled, r)

-----------------------------------------------------------------------------
\* The call that a request makes next.
LEMMA NextCall ==
    ASSUME Types, NEW r \in Requests, Call(r) \/ LooseCall(r, TRUE)
    PROVE  \/ At(r, "meta") /\ ReadMeta(r)
           \/ At(r, "check") /\ \E p \in Places : CheckDest(r, p)
           \/ At(r, "group") /\ \E g \in Groups : SaveGroup(r, g)
           \/ At(r, "transit") /\ SaveTransit(r)
           \/ At(r, "official") /\ \E p \in Places : SaveOfficial(r, p)
           \/ At(r, "row") /\ SaveSplitRow(r)
           \/ At(r, "link") /\ LinkSplit(r, TRUE)
           \/ At(r, "read") /\ \E p \in Places : ReadDest(r, p, TRUE)
           \/ At(r, "mark") /\ MarkDest(r, TRUE)
           \/ At(r, "count") /\ SaveCount(r, TRUE)
           \/ At(r, "status") /\ SaveStatus(r, TRUE)
           \/ At(r, "parent") /\ ReadParent(r)
           \/ At(r, "draft") /\ ReadGroup(r)
           \/ At(r, "dests") /\ FindDests(r, TRUE)
           \/ At(r, "reset") /\ \E p \in Places : ResetDest(r, p, TRUE)
           \/ At(r, "find") /\ FindChallans(r, TRUE)
           \/ At(r, "remove") /\ \E c \in Challans : RemoveChallan(r, c, TRUE)
           \/ At(r, "unrow") /\ RemoveSplitRow(r, TRUE)
           \/ At(r, "ungroup") /\ RemoveGroup(r, TRUE)
           \/ At(r, "load") /\ \E valid \in BOOLEAN : LoadChallans(r, valid)
           \/ At(r, "issue") /\ \E c \in Challans : IssueChallan(r, c)
           \/ At(r, "close") /\ CloseGroup(r)
<1>1. /\ ReadMeta(r) => At(r, "meta")
      /\ \A p \in Places : CheckDest(r, p) => At(r, "check")
      /\ \A g \in Groups : SaveGroup(r, g) => At(r, "group")
      /\ SaveTransit(r) => At(r, "transit")
      /\ \A p \in Places : SaveOfficial(r, p) => At(r, "official")
      /\ SaveSplitRow(r) => At(r, "row")
      /\ LinkSplit(r, TRUE) => At(r, "link")
      /\ \A p \in Places : ReadDest(r, p, TRUE) => At(r, "read")
      /\ MarkDest(r, TRUE) => At(r, "mark")
      /\ SaveCount(r, TRUE) => At(r, "count")
      /\ SaveStatus(r, TRUE) => At(r, "status")
  BY DEF ReadMeta, CheckDest, SaveGroup, SaveTransit, SaveOfficial, SaveSplitRow, LinkSplit,
     ReadDest, MarkDest, SaveCount, SaveStatus
<1>2. /\ ReadParent(r) => At(r, "parent")
      /\ ReadGroup(r) => At(r, "draft")
      /\ FindDests(r, TRUE) => At(r, "dests")
      /\ \A p \in Places : ResetDest(r, p, TRUE) => At(r, "reset")
      /\ FindChallans(r, TRUE) => At(r, "find")
      /\ \A c \in Challans : RemoveChallan(r, c, TRUE) => At(r, "remove")
      /\ RemoveSplitRow(r, TRUE) => At(r, "unrow")
      /\ RemoveGroup(r, TRUE) => At(r, "ungroup")
      /\ \A valid \in BOOLEAN : LoadChallans(r, valid) => At(r, "load")
      /\ \A c \in Challans : IssueChallan(r, c) => At(r, "issue")
      /\ CloseGroup(r) => At(r, "close")
  BY DEF ReadParent, ReadGroup, FindDests, ResetDest, FindChallans, RemoveChallan, RemoveSplitRow,
     RemoveGroup, LoadChallans, IssueChallan, CloseGroup
<1>3. QED
  BY <1>1, <1>2, ZenonT(40) DEF Call, LooseCall

LEMMA SettledFacts ==
    ASSUME NEW S \in SettledRows
    PROVE  /\ S.sgStatus \in [Groups -> RowStatus] /\ S.sgTransfer \in [Groups -> {T, NoTransfer}]
           /\ S.dcStatus \in [Challans -> RowStatus] /\ S.splitNumber \in [Groups -> Nat]
           /\ S.tStatus \in {"issued", "splitting", "split"} /\ S.isSplit \in [Places -> BOOLEAN]
           /\ S.splitGroup \in [Places -> Groups \cup {NoGroup}] /\ S.numSplit \in Nat
           /\ GroupsAre(S) /\ TransferIs(S) => Rows = S
BY DEF SettledRows, GroupsAre, TransferIs, Rows

LEMMA RowsAreSettled ==
    ASSUME Types
    PROVE  Rows \in SettledRows /\ GroupsAre(Rows) /\ TransferIs(Rows)
BY DEF Types, Rows, SettledRows, GroupsAre, TransferIs

\* One more challan of a new group.
LEMMA OneMoreChallan ==
    ASSUME Types, NEW S \in SettledRows, NEW r \in Requests, NEW g \in Groups, NEW X, NEW t,
           NEW x \in Places \cup {Transit}, req[r].group = g,
           Made(S, g, t, X), SaveChallan(r, x)
    PROVE  /\ GroupExists(g) /\ Made(S, g, t, X \cup {x})'
           /\ UNCHANGED <<splitNumber, tStatus, isSplit, splitGroup, numSplit>>
<1>1. GroupExists(g)
  BY SettledFacts DEF Made, GroupExists
<1>2. dcStatus' = [dcStatus EXCEPT ![<<g, x>>] = "draft"]
  BY <1>1 DEF SaveChallan
<1>3. \A c \in Challans : c = <<g, x>> <=> c[1] = g /\ c[2] = x
  BY DEF Challans
<1>4. dcStatus' = [c \in Challans |-> IF c = <<g, x>> THEN "draft" ELSE dcStatus[c]]
  BY <1>2 DEF Types
<1>5. QED
  BY <1>1, <1>3, <1>4 DEF Made, SaveChallan, sgVars, destVars

\* Where a request stands after a call of its loops and turns.
LEMMA AfterGoto ==
    ASSUME Types, NEW r \in Requests, NEW pc \in Pcs, Goto(r, pc)
    PROVE  /\ req'[r].pc = pc /\ req'[r].kind = req[r].kind /\ req'[r].group = req[r].group
           /\ ~Ends(r) => Keeps(r) /\ req'[r].todo = req[r].todo
BY GotoGoes DEF GoesTo, Goes, Ends

LEMMA AfterRound ==
    ASSUME Types, NEW r \in Requests, NEW x, NEW after \in Pcs, Round(r, x, after)
    PROVE  /\ req'[r].pc = (IF req[r].todo \ {x} = {} THEN after ELSE req[r].pc)
           /\ req'[r].kind = req[r].kind /\ req'[r].group = req[r].group
           /\ ~Ends(r) => Keeps(r) /\ req'[r].todo = req[r].todo \ {x}
BY RoundGoes DEF LoopsTo, Goes, Ends

LEMMA AfterLoop ==
    ASSUME Types, NEW r \in Requests, NEW X \in Todos, NEW pc \in Pcs, NEW after \in Pcs,
           Loop(r, X, pc, after)
    PROVE  /\ req'[r].pc = (IF X = {} THEN after ELSE pc)
           /\ req'[r].kind = req[r].kind /\ req'[r].group = req[r].group
           /\ ~Ends(r) => Keeps(r) /\ req'[r].todo = X
BY LoopGoes DEF LoopsTo, Goes, Ends

\* The calls that make the challans of a creation.
LEMMA ChallansMade ==
    ASSUME Types, NEW S \in SettledRows, NEW r \in Requests, NEW g \in Groups, NEW t,
           NEW A \in SUBSET Places, req[r].group = g, req[r].asked = A,
           req[r].pc \in Calls, Made(S, g, t, Created(r)),
           SaveTransit(r) \/ \E p \in Places : SaveOfficial(r, p)
    PROVE  /\ UNCHANGED <<splitNumber, tStatus, isSplit, splitGroup, numSplit>>
           /\ req'[r].pc \in {"official", AfterOfficials(r)} /\ req'[r].group = g
           /\ req'[r].kind = req[r].kind
           /\ ~Ends(r) => Keeps(r)
           /\ Made(S, g, t, IF At(r, "official") THEN Created(r) ELSE {Transit} \cup A)'
<1>0. PICK L : L = req[r].todo
  OBVIOUS
<1>1. /\ req[r] \in Held /\ InHand(req[r]) /\ A \in Todos
  BY CallsAreHeld, TodosHold
<1>2. /\ "official" \in Pcs /\ AfterOfficials(r) \in Pcs /\ AfterOfficials(r) # "official"
  BY DEF Pcs, Calls, AfterOfficials
<1>3. CASE SaveTransit(r)
  <2>1. /\ GroupExists(g) /\ Made(S, g, t, {} \cup {Transit})'
        /\ UNCHANGED <<splitNumber, tStatus, isSplit, splitGroup, numSplit>>
    <3>1. SaveChallan(r, Transit) /\ Created(r) = {}
      BY <1>3 DEF SaveTransit, Created, At
    <3>2. Made(S, g, t, {})
      BY <3>1
    <3>3. QED
      BY <3>1, <3>2, OneMoreChallan
  <2>2. Loop(r, A, "official", AfterOfficials(r))
    BY <1>3, <2>1 DEF SaveTransit
  <2>3. /\ req'[r].pc = (IF A = {} THEN AfterOfficials(r) ELSE "official") /\ req'[r].group = g
        /\ req'[r].kind = req[r].kind
        /\ ~Ends(r) => Keeps(r) /\ req'[r].todo = A
    BY <1>1, <1>2, <2>2, AfterLoop
  <2>4. (IF At(r, "official")' THEN Created(r)' ELSE {Transit} \cup A) = {} \cup {Transit}
    BY <1>2, <2>3 DEF At, Created, Keeps, Ends
  <2>5. QED
    BY <2>1, <2>3, <2>4
<1>4. ASSUME NEW p \in Places, SaveOfficial(r, p)
      PROVE  /\ UNCHANGED <<splitNumber, tStatus, isSplit, splitGroup, numSplit>>
             /\ req'[r].pc \in {"official", AfterOfficials(r)} /\ req'[r].group = g
             /\ req'[r].kind = req[r].kind
             /\ ~Ends(r) => Keeps(r)
             /\ Made(S, g, t, IF At(r, "official") THEN Created(r) ELSE {Transit} \cup A)'
  <2> DEFINE X == {Transit} \cup (A \ L)
  <2>1. /\ GroupExists(g) /\ Made(S, g, t, X \cup {p})'
        /\ UNCHANGED <<splitNumber, tStatus, isSplit, splitGroup, numSplit>>
    <3>1. SaveChallan(r, p) /\ Created(r) = X
      BY <1>0, <1>4 DEF SaveOfficial, Created, At
    <3> HIDE DEF X
    <3>2. Made(S, g, t, X)
      BY <3>1
    <3>3. QED
      BY <3>1, <3>2, OneMoreChallan
  <2>2. Round(r, p, AfterOfficials(r)) /\ req[r].pc = "official"
    BY <1>4, <2>1 DEF SaveOfficial, At
  <2>3. /\ req'[r].pc = (IF L \ {p} = {} THEN AfterOfficials(r) ELSE "official")
        /\ req'[r].group = g /\ req'[r].kind = req[r].kind
        /\ ~Ends(r) => Keeps(r) /\ req'[r].todo = L \ {p}
    BY <1>0, <1>2, <2>2, AfterRound
  <2>4. (IF At(r, "official")' THEN Created(r)' ELSE {Transit} \cup A) = X \cup {p}
    <3>1. p \in L /\ L \subseteq A
      BY <1>0, <1>1, <1>4, <2>2 DEF SaveOfficial, InHand
    <3>2. CASE L \ {p} = {}
      BY <1>2, <2>3, <3>1, <3>2 DEF At
    <3>3. CASE L \ {p} # {}
      <4>1. At(r, "official")' /\ Created(r)' = {Transit} \cup (A \ (L \ {p}))
        BY <2>3, <3>3 DEF At, Created, Keeps, Ends
      <4>2. QED
        BY <3>1, <4>1
    <3>4. QED
      BY <3>2, <3>3
  <2>5. QED
    BY <2>1, <2>3, <2>4
<1>5. QED
  BY <1>3, <1>4

\* CreateDirectShipment, call by call.
DirectDone(S, g, A) ==
    /\ S.sgStatus[g] = "none" /\ Made(S, g, NoTransfer, {Transit} \cup A)
    /\ TransferIs(S) /\ splitNumber = S.splitNumber

LEMMA DirectCall ==
    ASSUME Types, NEW S \in SettledRows, NEW r \in Requests, Call(r) \/ LooseCall(r, TRUE),
           req[r].kind = "direct", DirectSoFar(S, r)
    PROVE  /\ ~Ends(r) => DirectSoFar(S, r)'
           /\ Ends(r) => \E g \in Groups, A \in SUBSET Places : DirectDone(S, g, A)'
<1>1. /\ req[r].pc \in Calls /\ req[r] \in Held /\ InHand(req[r])
  BY CallHolds, CallsAreHeld
<1>2. CASE At(r, "group")
  <2>1. PICK h \in Groups : SaveGroup(r, h)
    BY <1>2, NextCall DEF At
  <2>2. req'[r].pc = "transit" /\ req'[r].group = h
    BY <2>1, SaveGroupGoes
  <2>3. Created(r)' = {} /\ ~Ends(r)
    BY <2>2 DEF Created, At, Ends
  <2>4. dcStatus = [c \in Challans |-> S.dcStatus[c]] /\ dcStatus' = dcStatus
    BY <1>2, <2>1, SettledFacts DEF DirectSoFar, GroupsAre, SaveGroup
  <2>5. Made(S, h, NoTransfer, {})'
    BY <1>2, <2>1, <2>4 DEF DirectSoFar, GroupsAre, Made, SaveGroup
  <2>6. S.sgStatus[h] = "none" /\ TransferIs(S)' /\ splitNumber' = S.splitNumber
    BY <1>2, <2>1 DEF DirectSoFar, GroupsAre, TransferIs, SaveGroup, destVars
  <2>7. QED
    BY <2>2, <2>3, <2>5, <2>6 DEF DirectSoFar, At
<1>3. CASE ~At(r, "group")
  <2>1. PICK g, A : g = req[r].group /\ A = req[r].asked
    OBVIOUS
  <2>2. /\ S.sgStatus[g] = "none" /\ Made(S, g, NoTransfer, Created(r)) /\ g \in Groups
        /\ TransferIs(S) /\ splitNumber = S.splitNumber /\ A \in SUBSET Places
    BY <1>1, <1>3, <2>1 DEF DirectSoFar, InHand, CallsOf, At, Held
  <2>3. SaveTransit(r) \/ \E p \in Places : SaveOfficial(r, p)
    BY <1>1, <1>3, NextCall DEF InHand, CallsOf, At
  <2>4. /\ UNCHANGED <<splitNumber, tStatus, isSplit, splitGroup, numSplit>>
        /\ req'[r].pc \in {"official", "done"} /\ req'[r].group = g
        /\ Made(S, g, NoTransfer, IF At(r, "official") THEN Created(r) ELSE {Transit} \cup A)'
    BY <1>1, <2>1, <2>2, <2>3, ChallansMade DEF AfterOfficials
  <2>5. TransferIs(S)' /\ splitNumber' = S.splitNumber
    BY <2>2, <2>4 DEF TransferIs
  <2>6. CASE Ends(r)
    BY <2>2, <2>4, <2>5, <2>6 DEF DirectDone, Ends, At
  <2>7. CASE ~Ends(r)
    BY <2>2, <2>4, <2>5, <2>7 DEF DirectSoFar, Ends, At
  <2>8. QED
    BY <2>6, <2>7
<1>4. QED
  BY <1>2, <1>3

LEMMA DirectIsOneStep ==
    ASSUME NEW S \in SettledRows, settled = S, settled' = Rows', SplitsHaveParent,
           NEW g \in Groups, NEW A \in SUBSET Places, DirectDone(S, g, A)'
    PROVE  Lifecycle!CreateDirectShipment(g, A) /\ SplitsHaveParent'
<1>1. /\ settled'.sgStatus = [S.sgStatus EXCEPT ![g] = "draft"]
      /\ settled'.sgTransfer = [S.sgTransfer EXCEPT ![g] = NoTransfer]
      /\ settled'.dcStatus = [c \in Challans |->
            IF c[1] = g /\ c[2] \in A \cup {Transit} THEN "draft" ELSE S.dcStatus[c]]
  BY DEF DirectDone, Made, Rows
<1>2. /\ settled'.splitNumber = S.splitNumber /\ settled'.tStatus = S.tStatus
      /\ settled'.isSplit = S.isSplit /\ settled'.splitGroup = S.splitGroup
      /\ settled'.numSplit = S.numSplit
  BY DEF DirectDone, TransferIs, Rows
<1>3. S.sgStatus[g] = "none"
  BY DEF DirectDone
<1>4. Lifecycle!SaveGroup(g, A, NoTransfer)
  BY <1>1, <1>3 DEF Lifecycle!SaveGroup, Lifecycle!Challans, Challans
<1>5. UNCHANGED <<settled.splitNumber, Lifecycle!transferVars>>
  BY <1>2 DEF Lifecycle!transferVars
<1>6. SplitsHaveParent'
  BY <1>1, <1>2, <1>3, SettledFacts DEF SplitsHaveParent
<1>7. QED
  BY <1>4, <1>5, <1>6 DEF Lifecycle!CreateDirectShipment

\* CreateSplit, call by call.
SplitDone(S, g, A) ==
    /\ S.tStatus \in {"issued", "splitting"} /\ A # {} /\ \A p \in A : ~S.isSplit[p]
    /\ S.sgStatus[g] = "none" /\ Made(S, g, T, {Transit} \cup A)
    /\ splitNumber = [S.splitNumber EXCEPT ![g] = S.numSplit + 1]
    /\ isSplit = [p \in Places |-> IF p \in A THEN TRUE ELSE S.isSplit[p]]
    /\ splitGroup = [p \in Places |-> IF p \in A THEN g ELSE S.splitGroup[p]]
    /\ numSplit = S.numSplit + 1
    /\ tStatus = IF S.numSplit + 1 >= NumDest THEN "split" ELSE "splitting"

LEMMA SplitCall ==
    ASSUME Types, NEW S \in SettledRows, NEW r \in Requests, Call(r) \/ LooseCall(r, TRUE),
           req[r].kind = "split", SplitSoFar(S, r), SplitIsCurrent(r), Flags
    PROVE  /\ ~Ends(r) => SplitSoFar(S, r)'
           /\ Ends(r) => \/ Rows' = S
                         \/ \E g \in Groups, A \in SUBSET Places : SplitDone(S, g, A)'
<1>0. PICK g, A, L, n : /\ g = req[r].group /\ A = req[r].asked /\ L = req[r].todo
                        /\ n = S.numSplit
  OBVIOUS
<1>1. /\ req[r].pc \in Calls /\ req[r] \in Held /\ InHand(req[r])
      /\ A # {} /\ A \in SUBSET Places /\ A \in Todos /\ n \in Nat
      /\ req[r].pc \notin {"meta", "check", "group"} => g \in Groups
  BY <1>0, CallHolds, CallsAreHeld, TodosHold, SettledFacts DEF Held, InHand
<1>2. /\ S.tStatus \in {"issued", "splitting"} /\ req[r].status = S.tStatus
      /\ tStatus = S.tStatus
      /\ req[r].pc # "meta" => req[r].num = n
      /\ req[r].pc \in {"meta", "check", "group"} => GroupsAre(S) /\ TransferIs(S)
      /\ req[r].pc \notin {"meta", "check", "group"} =>
            /\ S.sgStatus[g] = "none" /\ Made(S, g, T, Created(r))
            /\ \A p \in A : ~S.isSplit[p]
      /\ req[r].pc \in {"meta", "check", "group", "transit", "official", "row"} =>
            splitNumber = S.splitNumber
      /\ req[r].pc \in {"link", "read", "mark", "count", "status"} =>
            splitNumber = [S.splitNumber EXCEPT ![g] = n + 1]
      /\ req[r].pc \notin {"read", "mark", "count", "status"} =>
            isSplit = S.isSplit /\ splitGroup = S.splitGroup
      /\ isSplit = [p \in Places |-> IF p \in Marked(r) THEN TRUE ELSE S.isSplit[p]]
      /\ splitGroup = [p \in Places |-> IF p \in Marked(r) THEN g ELSE S.splitGroup[p]]
      /\ req[r].pc # "status" => numSplit = n
      /\ req[r].pc = "status" => numSplit = n + 1
  <2>1. isSplit = [p \in Places |-> IF p \in Marked(r) THEN TRUE ELSE S.isSplit[p]]
        /\ splitGroup = [p \in Places |-> IF p \in Marked(r) THEN g ELSE S.splitGroup[p]]
    BY <1>0 DEF SplitSoFar
  <2>2. req[r].pc \notin {"read", "mark", "count", "status"} =>
            isSplit = S.isSplit /\ splitGroup = S.splitGroup
    BY <2>1, SettledFacts DEF Marked
  <2>3. QED
    BY <1>0, <2>1, <2>2, SettledFacts DEF SplitSoFar, TransferIs, GroupsAre
<1>3. Calling(r, TRUE) /\ \A pc \in Calls : pc \in Pcs /\ pc \notin {"done", "failed"}
  BY DEF Calling, Pcs, Calls
<1>4. UNCHANGED db => UNCHANGED <<sgStatus, sgTransfer, dcStatus, splitNumber, tStatus, isSplit,
                                  splitGroup, numSplit>>
  BY DEF db, sgVars, destVars
<1>5. ASSUME UNCHANGED db, req[r].pc \in {"meta", "check", "group"}
      PROVE  GroupsAre(S)' /\ TransferIs(S)' /\ Rows' = S
  <2>1. GroupsAre(S)' /\ TransferIs(S)'
    BY <1>2, <1>4, <1>5 DEF GroupsAre, TransferIs
  <2>2. QED
    BY <2>1 DEF GroupsAre, TransferIs, Rows, SettledRows
<1>6. ASSUME GroupsAre(S)', TransferIs(S)', req'[r].pc \in {"check", "group"}, req'[r].num = n,
             req'[r].status = S.tStatus
      PROVE  SplitSoFar(S, r)'
  <2>1. Marked(r)' = {}
    BY <1>6 DEF Marked
  <2>2. /\ isSplit' = [p \in Places |-> IF p \in Marked(r)' THEN TRUE ELSE S.isSplit[p]]
        /\ splitGroup' = [p \in Places |-> IF p \in Marked(r)' THEN req'[r].group
                                           ELSE S.splitGroup[p]]
    BY <1>6, <2>1, SettledFacts DEF TransferIs
  <2>3. QED
    BY <1>2, <1>6, <2>2, <1>0 DEF SplitSoFar, TransferIs, GroupsAre
<1>7. CASE At(r, "meta")
  <2>1. ReadMeta(r)
    BY <1>7, NextCall DEF At
  <2>2. req'[r].pc = "check" /\ req'[r].num = numSplit /\ req'[r].status = req[r].status
    BY <2>1, ReadMetaGoes
  <2>3. UNCHANGED db /\ numSplit = n
    BY <1>2, <1>7, <2>1 DEF ReadMeta, At
  <2>4. SplitSoFar(S, r)' /\ ~Ends(r)
    BY <1>2, <1>5, <1>6, <1>7, <2>2, <2>3 DEF Ends, At
  <2>5. QED
    BY <2>4
<1>8. CASE At(r, "check")
  <2>1. PICK p \in Places : CheckDest(r, p)
    BY <1>8, NextCall DEF At
  <2>2. UNCHANGED db /\ Rows' = S /\ GroupsAre(S)' /\ TransferIs(S)'
    BY <1>5, <1>8, <2>1 DEF CheckDest, At
  <2>3. CASE Ends(r)
    BY <2>2, <2>3
  <2>4. CASE ~Ends(r)
    <3>1. Round(r, p, "group")
      BY <2>1, <2>4, AfterGoto DEF CheckDest, Ends, Pcs
    <3>2. req'[r].pc \in {"check", "group"} /\ Keeps(r)
      BY <1>3, <1>8, <2>4, <3>1, AfterRound DEF At, Calls
    <3>3. QED
      BY <1>2, <1>6, <1>8, <2>2, <2>4, <3>2 DEF Keeps, At
  <2>5. QED
    BY <2>3, <2>4
<1>9. CASE At(r, "group")
  <2>1. PICK h \in Groups : SaveGroup(r, h)
    BY <1>9, NextCall DEF At
  <2>2. /\ req'[r].pc = "transit" /\ req'[r].group = h /\ req'[r].asked = A
        /\ req'[r].num = n /\ req'[r].status = S.tStatus /\ ~Ends(r)
    BY <1>0, <1>2, <1>9, <2>1, SaveGroupGoes DEF At, Ends
  <2>3. Created(r)' = {} /\ Marked(r)' = {}
    BY <2>2 DEF Created, Marked, At
  <2>4. dcStatus = [c \in Challans |-> S.dcStatus[c]]
    BY <1>2, <1>9, SettledFacts DEF GroupsAre, At
  <2>5. Made(S, h, T, {})' /\ S.sgStatus[h] = "none" /\ splitNumber' = S.splitNumber
    BY <1>2, <1>9, <2>1, <2>4 DEF GroupsAre, Made, SaveGroup, At
  <2>6. /\ tStatus' = S.tStatus /\ numSplit' = n /\ isSplit' = S.isSplit
        /\ splitGroup' = S.splitGroup
    BY <1>0, <1>2, <1>9, <2>1 DEF TransferIs, SaveGroup, destVars, At
  <2>7. \A p \in A : ~S.isSplit[p]
    BY <1>0, <1>2, <1>9 DEF SplitIsCurrent, TransferIs, At
  <2>8. /\ isSplit' = [p \in Places |-> IF p \in Marked(r)' THEN TRUE ELSE S.isSplit[p]]
        /\ splitGroup' = [p \in Places |-> IF p \in Marked(r)' THEN h ELSE S.splitGroup[p]]
    BY <2>3, <2>6, SettledFacts
  <2>9. SplitSoFar(S, r)'
    BY <1>0, <1>2, <2>2, <2>3, <2>5, <2>6, <2>7, <2>8 DEF SplitSoFar
  <2>10. QED
    BY <2>2, <2>9
<1>10. CASE req[r].pc \in {"transit", "official"}
  <2>1. SaveTransit(r) \/ \E p \in Places : SaveOfficial(r, p)
    BY <1>10, NextCall DEF At
  <2>2. S.sgStatus[g] = "none" /\ Made(S, g, T, Created(r)) /\ g \in Groups
    BY <1>1, <1>2, <1>10
  <2>3. /\ UNCHANGED <<splitNumber, tStatus, isSplit, splitGroup, numSplit>>
        /\ req'[r].pc \in {"official", "row"} /\ req'[r].group = g /\ (~Ends(r) => Keeps(r))
        /\ Made(S, g, T, IF At(r, "official") THEN Created(r) ELSE {Transit} \cup A)'
    BY <1>0, <1>1, <2>1, <2>2, ChallansMade DEF AfterOfficials
  <2>4. ~Ends(r) /\ req'[r].asked = A /\ req'[r].num = n /\ req'[r].status = S.tStatus
    BY <1>0, <1>2, <1>10, <2>3 DEF Ends, Keeps
  <2>5. Made(S, g, T, Created(r))' /\ Marked(r)' = {} /\ Marked(r) = {}
    <3>1. Created(r)' = IF At(r, "official")' THEN Created(r)' ELSE {Transit} \cup A
      BY <2>3, <2>4 DEF Created, At
    <3>2. QED
      BY <1>10, <2>3, <3>1 DEF Marked
  <2>6. SplitSoFar(S, r)'
    BY <1>0, <1>2, <1>10, <2>2, <2>3, <2>4, <2>5 DEF SplitSoFar
  <2>7. QED
    BY <2>4, <2>6
<1>11. CASE At(r, "row")
  <2>1. SaveSplitRow(r)
    BY <1>11, NextCall DEF At
  <2>2. GroupExists(req[r].group)
    BY <1>0, <1>1, <1>2, <1>11, SettledFacts DEF Made, GroupExists, At
  <2>3. /\ splitNumber' = [S.splitNumber EXCEPT ![g] = n + 1] /\ Goto(r, "link")
        /\ UNCHANGED <<sgStatus, sgTransfer, dcStatus, tStatus, isSplit, splitGroup, numSplit>>
    BY <1>0, <1>2, <1>11, <2>1, <2>2 DEF SaveSplitRow, sgVars, destVars, At
  <2>4. req'[r].pc = "link" /\ req'[r].group = g /\ (~Ends(r) => Keeps(r))
    BY <1>0, <1>3, <2>3, AfterGoto DEF Calls
  <2>5. ~Ends(r) /\ req'[r].asked = A /\ req'[r].num = n /\ req'[r].status = S.tStatus
    BY <1>0, <1>2, <1>11, <2>4 DEF Ends, Keeps, At
  <2>6. Created(r)' = Created(r) /\ Marked(r)' = {} /\ Marked(r) = {}
    BY <1>0, <1>11, <2>4, <2>5 DEF Created, Marked, At
  <2>7. Made(S, g, T, Created(r))'
    BY <1>2, <1>11, <2>3, <2>6 DEF Made, At
  <2>8. SplitSoFar(S, r)'
    BY <1>0, <1>2, <1>11, <2>3, <2>4, <2>5, <2>6, <2>7 DEF SplitSoFar, At
  <2>9. QED
    BY <2>5, <2>8
<1>12. ASSUME Made(S, g, T, {Transit} \cup A)', S.sgStatus[g] = "none",
              \A p \in A : ~S.isSplit[p], splitNumber' = [S.splitNumber EXCEPT ![g] = n + 1],
              tStatus' = S.tStatus, req'[r].pc \in {"read", "mark", "count", "status"},
              req'[r].group = g, req'[r].asked = A, req'[r].num = n, req'[r].status = S.tStatus,
              numSplit' = (IF req'[r].pc = "status" THEN n + 1 ELSE n),
              isSplit' = [p \in Places |-> IF p \in Marked(r)' THEN TRUE ELSE S.isSplit[p]],
              splitGroup' = [p \in Places |-> IF p \in Marked(r)' THEN g ELSE S.splitGroup[p]]
       PROVE  ~Ends(r) /\ SplitSoFar(S, r)'
  <2>1. Created(r)' = {Transit} \cup A /\ ~Ends(r)
    BY <1>12 DEF Created, At, Ends
  <2>2. QED
    BY <1>0, <1>2, <1>12, <2>1 DEF SplitSoFar
<1>13. ASSUME req[r].pc \in {"link", "read", "mark", "count", "status"}
       PROVE  /\ Made(S, g, T, {Transit} \cup A) /\ S.sgStatus[g] = "none" /\ g \in Groups
              /\ req[r].num = n /\ req[r].status = S.tStatus
              /\ \A p \in A : ~S.isSplit[p]
              /\ splitNumber = [S.splitNumber EXCEPT ![g] = n + 1]
  <2>1. Created(r) = {Transit} \cup A
    BY <1>0, <1>13 DEF Created, At
  <2>2. QED
    BY <1>1, <1>2, <1>13, <2>1
<1>14. CASE At(r, "link")
  <2>1. LinkSplit(r, TRUE)
    BY <1>14, NextCall DEF At
  <2>2. /\ Loop(r, A, "read", "count")
        /\ UNCHANGED <<sgStatus, sgTransfer, dcStatus, splitNumber, tStatus, isSplit, splitGroup,
                       numSplit>>
    BY <1>0, <2>1 DEF LinkSplit, destVars
  <2>3. req'[r].pc = "read" /\ req'[r].group = g /\ (~Ends(r) => Keeps(r) /\ req'[r].todo = A)
    BY <1>0, <1>1, <1>3, <2>2, AfterLoop DEF Calls
  <2>4. /\ req'[r].asked = A /\ req'[r].num = n /\ req'[r].status = S.tStatus
        /\ Marked(r)' = {} /\ Marked(r) = {}
    BY <1>0, <1>13, <1>14, <2>3 DEF Ends, Keeps, Marked, At
  <2>5. Made(S, g, T, {Transit} \cup A)'
    BY <1>13, <1>14, <2>2 DEF Made, At
  <2>6. /\ isSplit' = [p \in Places |-> IF p \in Marked(r)' THEN TRUE ELSE S.isSplit[p]]
        /\ splitGroup' = [p \in Places |-> IF p \in Marked(r)' THEN g ELSE S.splitGroup[p]]
    BY <1>2, <2>2, <2>4
  <2>7. QED
    BY <1>2, <1>12, <1>13, <1>14, <2>2, <2>3, <2>4, <2>5, <2>6 DEF At
<1>15. CASE At(r, "read")
  <2>1. PICK x \in Places : ReadDest(r, x, TRUE)
    BY <1>15, NextCall DEF At
  <2>2. UNCHANGED <<sgStatus, sgTransfer, dcStatus, splitNumber, tStatus, isSplit, splitGroup,
                    numSplit>>
    BY <1>4, <2>1 DEF ReadDest
  <2>3. /\ req'[r].pc = "mark" /\ req'[r].group = g /\ req'[r].asked = A /\ req'[r].todo = L
        /\ req'[r].num = n /\ req'[r].status = S.tStatus
    BY <1>0, <1>13, <1>15, <2>1, ReadDestGoes DEF At
  <2>4. Marked(r)' = Marked(r)
    BY <1>0, <1>15, <2>3 DEF Marked, At
  <2>5. Made(S, g, T, {Transit} \cup A)'
    BY <1>13, <1>15, <2>2 DEF Made, At
  <2>6. /\ isSplit' = [p \in Places |-> IF p \in Marked(r)' THEN TRUE ELSE S.isSplit[p]]
        /\ splitGroup' = [p \in Places |-> IF p \in Marked(r)' THEN g ELSE S.splitGroup[p]]
    BY <1>2, <2>2, <2>4
  <2>7. QED
    BY <1>2, <1>12, <1>13, <1>15, <2>2, <2>3, <2>5, <2>6 DEF At
<1>16. CASE At(r, "mark")
  <2>1. MarkDest(r, TRUE)
    BY <1>16, NextCall DEF At
  <2>2. PICK d : d = req[r].dest
    OBVIOUS
  <2>3. /\ d \in L /\ d \in Places /\ isSplit' = [isSplit EXCEPT ![d] = TRUE]
        /\ splitGroup' = [splitGroup EXCEPT ![d] = g] /\ UNCHANGED <<splitNumber, numSplit>>
    BY <1>0, <1>3, <2>1, <2>2, MarkShape
  <2>4. UNCHANGED <<sgStatus, sgTransfer, dcStatus, tStatus>>
    BY <2>1 DEF MarkDest, sgVars
  <2>5. /\ req'[r].pc \in {"count", "read"} /\ req'[r].group = g /\ req'[r].asked = A
        /\ req'[r].todo = L \ {d} /\ req'[r].num = n /\ req'[r].status = S.tStatus
        /\ req'[r].pc = "count" => L = {d}
    BY <1>0, <1>13, <1>16, <2>1, <2>2, MarkDestGoes DEF At
  <2>6. Marked(r)' = Marked(r) \cup {d}
    <3>1. Marked(r) = A \ L /\ L \subseteq A
      BY <1>0, <1>1, <1>16 DEF Marked, At, InHand
    <3>2. Marked(r)' = A \ (L \ {d})
      BY <2>5 DEF Marked
    <3>3. QED
      BY <2>3, <3>1, <3>2
  <2>7. Made(S, g, T, {Transit} \cup A)'
    BY <1>13, <1>16, <2>4 DEF Made, At
  <2>8. /\ isSplit' = [p \in Places |-> IF p \in Marked(r)' THEN TRUE ELSE S.isSplit[p]]
        /\ splitGroup' = [p \in Places |-> IF p \in Marked(r)' THEN g ELSE S.splitGroup[p]]
    BY <1>2, <2>3, <2>6
  <2>9. QED
    BY <1>2, <1>12, <1>13, <1>16, <2>3, <2>4, <2>5, <2>7, <2>8 DEF At
<1>17. CASE At(r, "count")
  <2>1. SaveCount(r, TRUE)
    BY <1>17, NextCall DEF At
  <2>2. /\ numSplit' = n + 1 /\ Goto(r, "status")
        /\ UNCHANGED <<sgStatus, sgTransfer, dcStatus, splitNumber, tStatus, isSplit, splitGroup>>
    <3>1. NewCount(req[r]) = n + 1 /\ numSplit = n /\ req[r].num = n
      BY <1>2, <1>13, <1>17, NewCountIsNat DEF At
    <3>2. QED
      BY <1>1, <2>1, <3>1 DEF SaveCount, Saved, sgVars, destVars
  <2>3. /\ req'[r].pc = "status" /\ req'[r].group = g /\ req'[r].asked = A
        /\ req'[r].num = n /\ req'[r].status = S.tStatus
    BY <1>0, <1>3, <1>13, <1>17, <2>2, AfterGoto DEF Keeps, Ends, Calls, At
  <2>4. Marked(r)' = Marked(r)
    BY <1>0, <1>17, <2>3 DEF Marked, At
  <2>5. Made(S, g, T, {Transit} \cup A)'
    BY <1>13, <1>17, <2>2 DEF Made, At
  <2>6. /\ isSplit' = [p \in Places |-> IF p \in Marked(r)' THEN TRUE ELSE S.isSplit[p]]
        /\ splitGroup' = [p \in Places |-> IF p \in Marked(r)' THEN g ELSE S.splitGroup[p]]
    BY <1>2, <2>2, <2>4
  <2>7. QED
    BY <1>2, <1>12, <1>13, <1>17, <2>2, <2>3, <2>5, <2>6 DEF At
<1>18. CASE At(r, "status")
  <2>1. SaveStatus(r, TRUE)
    BY <1>18, NextCall DEF At
  <2>2. /\ tStatus' = (IF n + 1 >= NumDest THEN "split" ELSE "splitting")
        /\ UNCHANGED <<sgStatus, sgTransfer, dcStatus, splitNumber, isSplit, splitGroup, numSplit>>
    <3>1. NewCount(req[r]) = n + 1 /\ req[r].status = tStatus
      BY <1>2, <1>13, <1>18, NewCountIsNat DEF At
    <3>2. NewStatus(req[r]) = IF n + 1 >= NumDest THEN "split" ELSE "splitting"
      BY <3>1 DEF NewStatus
    <3>3. QED
      BY <2>1, <3>1, <3>2 DEF SaveStatus, Saved, sgVars, destVars
  <2>3. Marked(r) = A
    BY <1>0, <1>18 DEF Marked, At
  <2>4. Made(S, g, T, {Transit} \cup A)'
    BY <1>13, <1>18, <2>2 DEF Made, At
  <2>5. SplitDone(S, g, A)'
    BY <1>0, <1>1, <1>2, <1>13, <1>18, <2>2, <2>3, <2>4 DEF SplitDone, At
  <2>6. Ends(r)
    BY <1>3, <1>18, StatusIsLast DEF Ends
  <2>7. QED
    BY <1>1, <1>13, <1>18, <2>5, <2>6 DEF At
<1>19. req[r].pc \in {"meta", "check", "group", "transit", "official", "row", "link", "read",
                      "mark", "count", "status"}
  BY <1>1 DEF InHand, CallsOf
<1>20. QED
  BY <1>7, <1>8, <1>9, <1>10, <1>11, <1>14, <1>15, <1>16, <1>17, <1>18, <1>19 DEF At

LEMMA SplitIsOneStep ==
    ASSUME NEW S \in SettledRows, settled = S, settled' = Rows', SplitsHaveParent,
           NEW g \in Groups, NEW A \in SUBSET Places, SplitDone(S, g, A)'
    PROVE  Lifecycle!CreateSplit(T, A, g) /\ SplitsHaveParent'
<1>1. /\ settled'.sgStatus = [S.sgStatus EXCEPT ![g] = "draft"]
      /\ settled'.sgTransfer = [S.sgTransfer EXCEPT ![g] = T]
      /\ settled'.dcStatus = [c \in Challans |->
            IF c[1] = g /\ c[2] \in A \cup {Transit} THEN "draft" ELSE S.dcStatus[c]]
  BY DEF SplitDone, Made, Rows
<1>2. /\ settled'.splitNumber = [S.splitNumber EXCEPT ![g] = S.numSplit + 1]
      /\ settled'.tStatus = (IF S.numSplit + 1 >= NumDest THEN "split" ELSE "splitting")
      /\ settled'.isSplit = [p \in Places |-> IF p \in A THEN TRUE ELSE S.isSplit[p]]
      /\ settled'.splitGroup = [p \in Places |-> IF p \in A THEN g ELSE S.splitGroup[p]]
      /\ settled'.numSplit = S.numSplit + 1
  BY DEF SplitDone, Rows
<1>3. /\ S.sgStatus[g] = "none" /\ A # {} /\ \A p \in A : ~S.isSplit[p]
      /\ S.tStatus \in {"issued", "splitting"}
  BY DEF SplitDone
<1>4. Lifecycle!SaveGroup(g, A, T)
  BY <1>1, <1>3 DEF Lifecycle!SaveGroup, Lifecycle!Challans, Challans
<1>5. Lifecycle!Splittable(T, A)
  BY <1>3 DEF Lifecycle!Splittable
<1>6. /\ [d \in {T} \X Places |-> settled'.isSplit[d[2]]] =
            [d \in {T} \X Places |-> IF d[1] = T /\ d[2] \in A THEN TRUE ELSE S.isSplit[d[2]]]
      /\ [d \in {T} \X Places |-> settled'.splitGroup[d[2]]] =
            [d \in {T} \X Places |-> IF d[1] = T /\ d[2] \in A THEN g ELSE S.splitGroup[d[2]]]
  BY <1>2
<1>7. /\ [t \in {T} |-> settled'.numSplit] =
            [[t \in {T} |-> S.numSplit] EXCEPT ![T] = S.numSplit + 1]
      /\ [t \in {T} |-> settled'.tStatus] = [[t \in {T} |-> S.tStatus] EXCEPT ![T] =
            IF S.numSplit + 1 >= NumDest THEN "split" ELSE "splitting"]
  BY <1>2
<1>8. SplitsHaveParent'
  BY <1>1, <1>2, SettledFacts DEF SplitsHaveParent
<1>9. QED
  BY <1>2, <1>3, <1>4, <1>5, <1>6, <1>7, <1>8
  DEF Lifecycle!CreateSplit, Lifecycle!StatusAfterSplit, Lifecycle!Destinations

\* The calls that remove the challans of a group, and its row.
LEMMA ChallansGo ==
    ASSUME Types, NEW S \in SettledRows, NEW r \in Requests, NEW g \in Groups,
           req[r].group = g, req[r].pc \in Calls,
           ChallansTurned(S, Removed(S, r), "deleted"),
           At(r, "remove") => req[r].todo \subseteq Theirs(S, g),
           FindChallans(r, TRUE) \/ \E c \in Challans : RemoveChallan(r, c, TRUE)
    PROVE  /\ UNCHANGED <<sgStatus, sgTransfer, splitNumber, tStatus, isSplit, splitGroup, numSplit>>
           /\ req'[r].pc \in {"remove", AfterChallans(r)} /\ req'[r].group = g
           /\ req'[r].kind = req[r].kind
           /\ ~Ends(r) /\ Keeps(r)
           /\ ChallansTurned(S, Removed(S, r), "deleted")'
           /\ At(r, "remove")' => req'[r].todo \subseteq Theirs(S, g)
<1>0. PICK L : L = req[r].todo
  OBVIOUS
<1>1. /\ "remove" \in Pcs /\ AfterChallans(r) \in Pcs /\ AfterChallans(r) \in {"unrow", "ungroup"}
  BY DEF Pcs, Calls, AfterChallans
<1>2. CASE FindChallans(r, TRUE)
  <2>1. /\ req[r].pc = "find" /\ Loop(r, {c \in ChallansOf(g) : TRUE}, "remove", AfterChallans(r))
        /\ UNCHANGED <<sgStatus, sgTransfer, dcStatus, splitNumber, tStatus, isSplit, splitGroup,
                       numSplit>>
    BY <1>2 DEF FindChallans, At, db, sgVars, destVars
  <2>2. {c \in ChallansOf(g) : TRUE} = Theirs(S, g) /\ Theirs(S, g) \in Todos
    <3>1. Removed(S, r) = {}
      BY <2>1 DEF Removed, At
    <3>2. \A c \in Challans : dcStatus[c] = S.dcStatus[c]
      BY <3>1 DEF ChallansTurned
    <3>3. QED
      BY <3>2, TodosHold DEF ChallansOf, Exists, Theirs
  <2>3. /\ req'[r].pc = (IF Theirs(S, g) = {} THEN AfterChallans(r) ELSE "remove")
        /\ req'[r].group = g /\ req'[r].kind = req[r].kind
        /\ ~Ends(r) => Keeps(r) /\ req'[r].todo = Theirs(S, g)
    <3>1. Loop(r, Theirs(S, g), "remove", AfterChallans(r))
      BY <2>1, <2>2
    <3>2. QED
      BY <1>1, <2>2, <3>1, AfterLoop
  <2>4. ~Ends(r)
    BY <1>1, <2>3 DEF Ends
  <2>5. Removed(S, r)' = {} /\ Removed(S, r) = {}
    BY <1>1, <2>1, <2>3, <2>4 DEF Removed, At
  <2>6. ChallansTurned(S, Removed(S, r), "deleted")'
    BY <2>1, <2>5 DEF ChallansTurned
  <2>7. QED
    BY <2>1, <2>3, <2>4, <2>6 DEF At
<1>3. ASSUME NEW c \in Challans, RemoveChallan(r, c, TRUE)
      PROVE  /\ UNCHANGED <<sgStatus, sgTransfer, splitNumber, tStatus, isSplit, splitGroup,
                            numSplit>>
             /\ req'[r].pc \in {"remove", AfterChallans(r)} /\ req'[r].group = g
             /\ req'[r].kind = req[r].kind
             /\ ~Ends(r) /\ Keeps(r)
             /\ ChallansTurned(S, Removed(S, r), "deleted")'
             /\ At(r, "remove")' => req'[r].todo \subseteq Theirs(S, g)
  <2>1. /\ req[r].pc = "remove" /\ c \in L /\ Round(r, c, AfterChallans(r))
        /\ dcStatus' = [dcStatus EXCEPT ![c] = "deleted"]
        /\ UNCHANGED <<sgStatus, sgTransfer, splitNumber, tStatus, isSplit, splitGroup, numSplit>>
    BY <1>0, <1>3 DEF RemoveChallan, At, sgVars, destVars
  <2>2. /\ req'[r].pc = (IF L \ {c} = {} THEN AfterChallans(r) ELSE "remove")
        /\ req'[r].group = g /\ req'[r].kind = req[r].kind
        /\ ~Ends(r) => Keeps(r) /\ req'[r].todo = L \ {c}
    BY <1>0, <1>1, <2>1, AfterRound
  <2>3. ~Ends(r)
    BY <1>1, <2>2 DEF Ends
  <2>4. L \subseteq Theirs(S, g) /\ Removed(S, r) = Theirs(S, g) \ L
    BY <1>0, <2>1 DEF Removed, At
  <2>5. Removed(S, r)' = Removed(S, r) \cup {c}
    <3>1. Removed(S, r)' = Theirs(S, g) \ (L \ {c})
      BY <1>1, <2>2, <2>3 DEF Removed, At
    <3>2. QED
      BY <2>1, <2>4, <3>1
  <2>6. ChallansTurned(S, Removed(S, r), "deleted")'
    <3> DEFINE R == Removed(S, r)
    <3>1. dcStatus = [d \in Challans |-> IF d \in R THEN "deleted" ELSE S.dcStatus[d]]
      BY DEF ChallansTurned
    <3> HIDE DEF R
    <3>2. dcStatus' = [d \in Challans |-> IF d \in R \cup {c} THEN "deleted" ELSE S.dcStatus[d]]
      BY <2>1, <3>1
    <3>3. QED
      BY <2>5, <3>2 DEF ChallansTurned, R
  <2>7. QED
    BY <2>1, <2>2, <2>3, <2>4, <2>6 DEF At
<1>4. QED
  BY <1>2, <1>3

GroupGone(S, g) ==
    /\ sgStatus = [S.sgStatus EXCEPT ![g] = "deleted"]
    /\ sgTransfer = [S.sgTransfer EXCEPT ![g] = NoTransfer]
    /\ splitNumber = [S.splitNumber EXCEPT ![g] = 0]
    /\ ChallansTurned(S, Theirs(S, g), "deleted")

LEMMA GroupGoes ==
    ASSUME Types, NEW S \in SettledRows, NEW g \in Groups, DeleteGroupRow(g),
           ChallansTurned(S, Theirs(S, g), "deleted"),
           sgStatus = S.sgStatus, sgTransfer = S.sgTransfer,
           splitNumber \in {S.splitNumber, [S.splitNumber EXCEPT ![g] = 0]}
    PROVE  GroupGone(S, g)'
<1>1. ChallansOf(g) = {}
  BY DEF ChallansOf, Exists, ChallansTurned, Theirs
<1>2. dcStatus' = dcStatus
  BY <1>1 DEF DeleteGroupRow, Types
<1>3. ChallansTurned(S, Theirs(S, g), "deleted")'
  BY <1>2 DEF ChallansTurned
<1>4. splitNumber' = [S.splitNumber EXCEPT ![g] = 0]
  BY SettledFacts DEF DeleteGroupRow
<1>5. QED
  BY <1>3, <1>4 DEF GroupGone, DeleteGroupRow

LEMMA GoneIsOneStep ==
    ASSUME NEW S \in SettledRows, settled = S, settled' = Rows', SplitsHaveParent,
           NEW g \in Groups, GroupGone(S, g)'
    PROVE  Lifecycle!DeleteGroup(g) /\ SplitsHaveParent'
<1>1. /\ settled'.sgStatus = [S.sgStatus EXCEPT ![g] = "deleted"]
      /\ settled'.sgTransfer = [S.sgTransfer EXCEPT ![g] = NoTransfer]
      /\ settled'.splitNumber = [S.splitNumber EXCEPT ![g] = 0]
      /\ settled'.dcStatus = [c \in Challans |-> IF c \in Theirs(S, g) THEN "deleted"
                                                 ELSE S.dcStatus[c]]
  BY DEF GroupGone, ChallansTurned, Rows
<1>2. Lifecycle!ChallansOf(g) = Theirs(S, g)
  BY DEF Lifecycle!ChallansOf, Lifecycle!Exists, Lifecycle!Challans, Challans, Theirs
<1>3. Lifecycle!DeleteGroup(g)
  BY <1>1, <1>2 DEF Lifecycle!DeleteGroup, Lifecycle!Challans, Challans
<1>4. SplitsHaveParent'
  BY <1>1, SettledFacts DEF SplitsHaveParent
<1>5. QED
  BY <1>3, <1>4

\* HandleShipmentGroupDelete and HandleDCDelete, call by call.
LEMMA DeleteCall ==
    ASSUME Types, NEW S \in SettledRows, NEW r \in Requests, Call(r) \/ LooseCall(r, TRUE),
           req[r].kind \in {"groupDelete", "dcDelete"}, DeleteSoFar(S, r)
    PROVE  /\ ~Ends(r) => DeleteSoFar(S, r)'
           /\ Ends(r) => \E g \in Groups :
                 S.sgStatus[g] = "draft" /\ GroupGone(S, g)' /\ TransferIs(S)'
<1>0. PICK g : g = req[r].group
  OBVIOUS
<1>1. /\ req[r].pc \in Calls /\ req[r] \in Held /\ InHand(req[r])
  BY CallHolds, CallsAreHeld
<1>2. req[r].pc \in {"find", "remove", "ungroup"} /\ g \in Groups
  BY <1>0, <1>1 DEF InHand, CallsOf
<1>3. /\ S.sgStatus[g] = "draft" /\ sgStatus = S.sgStatus /\ sgTransfer = S.sgTransfer
      /\ ChallansTurned(S, Removed(S, r), "deleted") /\ TransferIs(S)
      /\ splitNumber = S.splitNumber
      /\ At(r, "remove") => req[r].todo \subseteq Theirs(S, g)
  BY <1>0 DEF DeleteSoFar
<1>4. CASE req[r].pc \in {"find", "remove"}
  <2>1. FindChallans(r, TRUE) \/ \E c \in Challans : RemoveChallan(r, c, TRUE)
    BY <1>4, NextCall DEF At
  <2>2. /\ UNCHANGED <<sgStatus, sgTransfer, splitNumber, tStatus, isSplit, splitGroup, numSplit>>
        /\ req'[r].group = g /\ ~Ends(r)
        /\ ChallansTurned(S, Removed(S, r), "deleted")'
        /\ At(r, "remove")' => req'[r].todo \subseteq Theirs(S, g)
    BY <1>0, <1>1, <1>2, <1>3, <2>1, ChallansGo
  <2>3. DeleteSoFar(S, r)'
    BY <1>3, <2>2 DEF DeleteSoFar, TransferIs
  <2>4. QED
    BY <2>2, <2>3
<1>5. CASE At(r, "ungroup")
  <2>1. RemoveGroup(r, TRUE)
    BY <1>5, NextCall DEF At
  <2>2. /\ DeleteGroupRow(g) /\ UNCHANGED <<tStatus, isSplit, splitGroup, numSplit>>
        /\ Goto(r, "done")
    BY <1>0, <2>1 DEF RemoveGroup, destVars
  <2>3. Ends(r)
    BY <2>2, AfterGoto DEF Pcs, Ends
  <2>4. ChallansTurned(S, Theirs(S, g), "deleted")
    BY <1>0, <1>3, <1>5 DEF Removed, At
  <2>5. GroupGone(S, g)'
    BY <1>2, <1>3, <2>2, <2>4, GroupGoes
  <2>6. TransferIs(S)'
    BY <1>3, <2>2 DEF TransferIs
  <2>7. QED
    BY <1>2, <1>3, <2>3, <2>5, <2>6
<1>6. QED
  BY <1>2, <1>4, <1>5 DEF At

\* IssueShipmentGroup, call by call.
IssueDone(S, g) ==
    /\ S.sgStatus[g] = "draft" /\ \A c \in Theirs(S, g) : S.dcStatus[c] = "draft"
    /\ sgStatus = [S.sgStatus EXCEPT ![g] = "issued"] /\ sgTransfer = S.sgTransfer
    /\ splitNumber = S.splitNumber /\ TransferIs(S)
    /\ ChallansTurned(S, Theirs(S, g), "issued")

LEMMA IssueCall ==
    ASSUME Types, NEW S \in SettledRows, NEW r \in Requests, Call(r) \/ LooseCall(r, TRUE),
           req[r].kind = "issue", IssueSoFar(S, r)
    PROVE  /\ ~Ends(r) => IssueSoFar(S, r)'
           /\ Ends(r) => Rows' = S \/ \E g \in Groups : IssueDone(S, g)'
<1>0. PICK g, L : g = req[r].group /\ L = req[r].todo
  OBVIOUS
<1>1. /\ req[r].pc \in Calls /\ req[r] \in Held /\ InHand(req[r])
  BY CallHolds, CallsAreHeld
<1>2. req[r].pc \in {"load", "issue", "close"} /\ g \in Groups
  BY <1>0, <1>1 DEF InHand, CallsOf
<1>3. /\ S.sgStatus[g] = "draft" /\ sgStatus = S.sgStatus /\ sgTransfer = S.sgTransfer
      /\ TransferIs(S) /\ splitNumber = S.splitNumber
      /\ ChallansTurned(S, Issued(S, r), "issued")
      /\ req[r].linked => S.splitNumber[g] # 0
      /\ ~At(r, "load") => \A c \in Theirs(S, g) : S.dcStatus[c] = "draft"
      /\ At(r, "issue") => L \subseteq Theirs(S, g)
  BY <1>0 DEF IssueSoFar
<1>4. GroupExists(g)
  BY <1>3 DEF GroupExists
<1>5. "issue" \in Pcs /\ "close" \in Pcs /\ "done" \in Pcs /\ "failed" \in Pcs
  BY DEF Pcs, Calls
<1>6. CASE At(r, "load")
  <2>1. PICK valid \in BOOLEAN : LoadChallans(r, valid)
    BY <1>6, NextCall DEF At
  <2>2. UNCHANGED <<sgStatus, sgTransfer, dcStatus, splitNumber, tStatus, isSplit, splitGroup,
                    numSplit>>
    BY <2>1 DEF LoadChallans, db, sgVars, destVars
  <2>3. Issued(S, r) = {} /\ \A c \in Challans : dcStatus[c] = S.dcStatus[c]
    <3>1. Issued(S, r) = {}
      BY <1>6 DEF Issued, At
    <3>2. QED
      BY <1>3, <3>1 DEF ChallansTurned
  <2>4. ChallansOf(g) = Theirs(S, g) /\ Theirs(S, g) \in Todos
    BY <2>3, TodosHold DEF ChallansOf, Exists, Theirs
  <2>5. CASE Goto(r, "failed")
    <3>1. Ends(r)
      BY <1>5, <2>5, AfterGoto DEF Ends
    <3>2. dcStatus = S.dcStatus
      BY <1>3, <2>3, SettledFacts DEF ChallansTurned
    <3>3. Rows' = Rows
      BY <2>2 DEF Rows
    <3>4. Rows = S
      BY <1>3, <3>2, SettledFacts DEF GroupsAre
    <3>5. QED
      BY <3>1, <3>3, <3>4
  <2>6. CASE /\ \A c \in ChallansOf(g) : dcStatus[c] = "draft"
             /\ Loop(r, ChallansOf(g), "issue", "close")
    <3>1. Loop(r, Theirs(S, g), "issue", "close")
      BY <2>4, <2>6
    <3>2. /\ req'[r].pc = (IF Theirs(S, g) = {} THEN "close" ELSE "issue")
          /\ req'[r].group = g /\ ~Ends(r) /\ Keeps(r) /\ req'[r].todo = Theirs(S, g)
      <4>1. /\ req'[r].pc = (IF Theirs(S, g) = {} THEN "close" ELSE "issue")
            /\ req'[r].group = g
            /\ ~Ends(r) => Keeps(r) /\ req'[r].todo = Theirs(S, g)
        BY <1>0, <1>5, <2>4, <3>1, AfterLoop
      <4>2. QED
        BY <4>1 DEF Ends
    <3>3. Issued(S, r)' = {}
      BY <3>2 DEF Issued, At
    <3>4. ChallansTurned(S, Issued(S, r), "issued")'
      BY <1>3, <2>2, <2>3, <3>3 DEF ChallansTurned
    <3>5. \A c \in Theirs(S, g) : S.dcStatus[c] = "draft"
      BY <2>3, <2>4, <2>6 DEF Theirs
    <3>6. req'[r].linked = req[r].linked
      BY <3>2 DEF Keeps
    <3>7. IssueSoFar(S, r)'
      BY <1>3, <2>2, <3>2, <3>4, <3>5, <3>6 DEF IssueSoFar, TransferIs
    <3>8. QED
      BY <3>2, <3>7
  <2>7. QED
    BY <1>0, <2>1, <2>5, <2>6 DEF LoadChallans
<1>7. CASE At(r, "issue")
  <2>1. PICK c \in Challans : IssueChallan(r, c)
    BY <1>7, NextCall DEF At
  <2>2. c \in L /\ Round(r, c, "close")
    BY <1>0, <1>4, <2>1 DEF IssueChallan
  <2>3. Issued(S, r) = Theirs(S, g) \ L /\ L \subseteq Theirs(S, g) /\ c \in Theirs(S, g)
    BY <1>0, <1>3, <1>7, <2>2 DEF Issued
  <2>4. dcStatus' = [dcStatus EXCEPT ![c] = "issued"]
    <3>1. c \notin Issued(S, r)
      BY <2>2, <2>3
    <3>2. dcStatus[c] = S.dcStatus[c]
      BY <1>3, <3>1 DEF ChallansTurned
    <3>3. Exists(c)
      BY <2>3, <3>2 DEF Theirs, Exists
    <3>4. QED
      BY <1>0, <1>4, <2>1, <3>3 DEF IssueChallan
  <2>5. UNCHANGED <<sgStatus, sgTransfer, splitNumber, tStatus, isSplit, splitGroup, numSplit>>
    BY <2>1 DEF IssueChallan, sgVars, destVars
  <2>6. /\ req'[r].pc = (IF L \ {c} = {} THEN "close" ELSE "issue")
        /\ req'[r].group = g /\ ~Ends(r) /\ Keeps(r) /\ req'[r].todo = L \ {c}
    <3>1. /\ req'[r].pc = (IF L \ {c} = {} THEN "close" ELSE req[r].pc)
          /\ req'[r].group = g
          /\ ~Ends(r) => Keeps(r) /\ req'[r].todo = L \ {c}
      BY <1>0, <1>5, <2>2, AfterRound
    <3>2. QED
      BY <1>7, <3>1 DEF Ends, At
  <2>7. Issued(S, r)' = Issued(S, r) \cup {c}
    <3>1. Issued(S, r)' = Theirs(S, g) \ (L \ {c})
      BY <2>6 DEF Issued, At
    <3>2. QED
      BY <2>2, <2>3, <3>1
  <2>8. ChallansTurned(S, Issued(S, r), "issued")'
    <3> DEFINE R == Issued(S, r)
    <3>1. dcStatus = [d \in Challans |-> IF d \in R THEN "issued" ELSE S.dcStatus[d]]
      BY <1>3 DEF ChallansTurned
    <3> HIDE DEF R
    <3>2. dcStatus' = [d \in Challans |-> IF d \in R \cup {c} THEN "issued" ELSE S.dcStatus[d]]
      BY <2>4, <3>1
    <3>3. QED
      BY <2>7, <3>2 DEF ChallansTurned, R
  <2>9. req'[r].linked = req[r].linked /\ L \ {c} \subseteq Theirs(S, g)
    BY <2>3, <2>6 DEF Keeps
  <2>10. IssueSoFar(S, r)'
    BY <1>3, <1>7, <2>5, <2>6, <2>8, <2>9 DEF IssueSoFar, TransferIs, At
  <2>11. QED
    BY <2>6, <2>10
<1>8. CASE At(r, "close")
  <2>1. CloseGroup(r)
    BY <1>8, NextCall DEF At
  <2>2. ~(req[r].linked /\ splitNumber[g] = 0)
    BY <1>3
  <2>3. /\ sgStatus' = [S.sgStatus EXCEPT ![g] = "issued"] /\ Goto(r, "done")
        /\ UNCHANGED <<sgTransfer, dcStatus, splitNumber, tStatus, isSplit, splitGroup, numSplit>>
    BY <1>0, <1>3, <1>4, <2>1, <2>2 DEF CloseGroup, destVars
  <2>4. Ends(r)
    BY <1>5, <2>3, AfterGoto DEF Ends
  <2>5. Issued(S, r) = Theirs(S, g)
    BY <1>0, <1>8 DEF Issued, At
  <2>6. ChallansTurned(S, Theirs(S, g), "issued")'
    BY <1>3, <2>3, <2>5 DEF ChallansTurned
  <2>7. IssueDone(S, g)'
    BY <1>3, <1>8, <2>3, <2>6 DEF IssueDone, TransferIs, At
  <2>8. QED
    BY <1>2, <2>4, <2>7
<1>9. QED
  BY <1>2, <1>6, <1>7, <1>8 DEF At

LEMMA IssueIsOneStep ==
    ASSUME NEW S \in SettledRows, settled = S, settled' = Rows', SplitsHaveParent,
           NEW g \in Groups, IssueDone(S, g)'
    PROVE  Lifecycle!IssueShipmentGroup(g) /\ SplitsHaveParent'
<1>1. /\ settled'.sgStatus = [S.sgStatus EXCEPT ![g] = "issued"]
      /\ settled'.dcStatus = [c \in Challans |-> IF c \in Theirs(S, g) THEN "issued"
                                                 ELSE S.dcStatus[c]]
      /\ settled'.sgTransfer = S.sgTransfer /\ settled'.splitNumber = S.splitNumber
  BY DEF IssueDone, ChallansTurned, Rows
<1>2. /\ settled'.tStatus = S.tStatus /\ settled'.isSplit = S.isSplit
      /\ settled'.splitGroup = S.splitGroup /\ settled'.numSplit = S.numSplit
  BY DEF IssueDone, TransferIs, Rows
<1>3. S.sgStatus[g] = "draft" /\ \A c \in Theirs(S, g) : S.dcStatus[c] = "draft"
  BY DEF IssueDone
<1>4. Lifecycle!ChallansOf(g) = Theirs(S, g) /\ Lifecycle!Challans = Challans
  BY DEF Lifecycle!ChallansOf, Lifecycle!Exists, Lifecycle!Challans, Challans, Theirs
<1>5. UNCHANGED Lifecycle!transferVars
  BY <1>2 DEF Lifecycle!transferVars
<1>6. Lifecycle!IssueShipmentGroup(g)
  BY <1>1, <1>3, <1>4, <1>5 DEF Lifecycle!IssueShipmentGroup
<1>7. SplitsHaveParent'
  BY <1>1, SettledFacts DEF SplitsHaveParent
<1>8. QED
  BY <1>6, <1>7

LEMMA DeleteIsOneStep ==
    ASSUME NEW S \in SettledRows, settled = S, settled' = Rows', SplitsHaveParent,
           NEW g \in Groups, S.sgStatus[g] = "draft", GroupGone(S, g)', TransferIs(S)'
    PROVE  Lifecycle!HandleShipmentGroupDelete(g) /\ SplitsHaveParent'
<1>1. /\ settled'.tStatus = S.tStatus /\ settled'.isSplit = S.isSplit
      /\ settled'.splitGroup = S.splitGroup /\ settled'.numSplit = S.numSplit
  BY DEF TransferIs, Rows
<1>2. UNCHANGED Lifecycle!transferVars
  BY <1>1 DEF Lifecycle!transferVars
<1>3. QED
  BY <1>2, GoneIsOneStep DEF Lifecycle!HandleShipmentGroupDelete

\* UndoSplit, call by call.
UndoneCountOf(S) == IF S.numSplit > 0 THEN S.numSplit - 1 ELSE 0

UndoDone(S, g) ==
    /\ S.splitNumber[g] # 0 /\ S.sgStatus[g] = "draft" /\ GroupGone(S, g)
    /\ isSplit = [p \in Places |-> IF p \in UndoneOf(S, g) THEN FALSE ELSE S.isSplit[p]]
    /\ splitGroup = [p \in Places |-> IF p \in UndoneOf(S, g) THEN NoGroup ELSE S.splitGroup[p]]
    /\ numSplit = UndoneCountOf(S)
    /\ tStatus = IF UndoneCountOf(S) = 0 THEN "issued"
                 ELSE IF UndoneCountOf(S) >= NumDest THEN "split" ELSE "splitting"

LEMMA UndoCall ==
    ASSUME Types, NEW S \in SettledRows, NEW r \in Requests, Call(r) \/ LooseCall(r, TRUE),
           req[r].kind = "undo", UndoSoFar(S, r), UndoIsCurrent(r), Flags
    PROVE  /\ ~Ends(r) => UndoSoFar(S, r)'
           /\ Ends(r) => Rows' = S \/ \E g \in Groups : UndoDone(S, g)'
<1>0. PICK g, L, n : g = req[r].group /\ L = req[r].todo /\ n = S.numSplit
  OBVIOUS
<1>1. /\ req[r].pc \in Calls /\ req[r] \in Held /\ InHand(req[r]) /\ g \in Groups /\ n \in Nat
  BY <1>0, CallHolds, CallsAreHeld, SettledFacts DEF InHand
<1>2. /\ S.splitNumber[g] # 0 /\ tStatus = S.tStatus
      /\ req[r].pc # "meta" => req[r].num = n
      /\ req[r].pc \notin {"meta", "parent"} => req[r].status = S.tStatus
      /\ req[r].pc \notin {"meta", "parent", "draft"} => S.sgStatus[g] = "draft"
      /\ At(r, "reset") => L \subseteq UndoneOf(S, g)
      /\ At(r, "remove") => L \subseteq Theirs(S, g)
      /\ isSplit = [p \in Places |-> IF p \in Reset(S, r) THEN FALSE ELSE S.isSplit[p]]
      /\ splitGroup = [p \in Places |-> IF p \in Reset(S, r) THEN NoGroup ELSE S.splitGroup[p]]
      /\ ChallansTurned(S, Removed(S, r), "deleted")
      /\ req[r].pc \notin {"count", "status"} => sgStatus = S.sgStatus /\ sgTransfer = S.sgTransfer
      /\ req[r].pc \in {"count", "status"} =>
            /\ sgStatus = [S.sgStatus EXCEPT ![g] = "deleted"]
            /\ sgTransfer = [S.sgTransfer EXCEPT ![g] = NoTransfer]
      /\ splitNumber = IF req[r].pc \in {"ungroup", "count", "status"}
                       THEN [S.splitNumber EXCEPT ![g] = 0] ELSE S.splitNumber
      /\ req[r].pc # "status" => numSplit = n
      /\ req[r].pc = "status" => numSplit = NewCount(req[r])
  BY <1>0 DEF UndoSoFar
<1>3. Calling(r, TRUE) /\ \A pc \in Calls : pc \in Pcs /\ pc \notin {"done", "failed"}
  BY DEF Calling, Pcs, Calls
<1>4. UNCHANGED db => UNCHANGED <<sgStatus, sgTransfer, dcStatus, splitNumber, tStatus, isSplit,
                                  splitGroup, numSplit>>
  BY DEF db, sgVars, destVars
<1>5. ASSUME UNCHANGED db, req[r].pc \in {"meta", "parent", "draft"},
             req'[r].group = g, req'[r].pc \in {"parent", "draft", "dests"}, req'[r].num = n,
             req'[r].pc # "parent" => req'[r].status = S.tStatus,
             req'[r].pc = "dests" => S.sgStatus[g] = "draft"
      PROVE  ~Ends(r) /\ UndoSoFar(S, r)'
  <2>1. Reset(S, r)' = {} /\ Reset(S, r) = {} /\ Removed(S, r)' = {} /\ Removed(S, r) = {}
    BY <1>5 DEF Reset, Removed, At
  <2>2. /\ isSplit' = [p \in Places |-> IF p \in Reset(S, r)' THEN FALSE ELSE S.isSplit[p]]
        /\ splitGroup' = [p \in Places |-> IF p \in Reset(S, r)' THEN NoGroup
                                           ELSE S.splitGroup[p]]
        /\ ChallansTurned(S, Removed(S, r), "deleted")'
    BY <1>2, <1>4, <1>5, <2>1 DEF ChallansTurned
  <2>3. UndoSoFar(S, r)'
    BY <1>2, <1>4, <1>5, <2>2 DEF UndoSoFar, At
  <2>4. QED
    BY <1>5, <2>3 DEF Ends
<1>6. CASE At(r, "meta")
  <2>1. ReadMeta(r)
    BY <1>6, NextCall DEF At
  <2>2. req'[r].pc = "parent" /\ req'[r].num = n /\ req'[r].group = g
    BY <1>0, <1>2, <1>6, <2>1, ReadMetaGoes DEF At
  <2>3. UNCHANGED db
    BY <2>1 DEF ReadMeta
  <2>4. QED
    BY <1>5, <1>6, <2>2, <2>3 DEF At
<1>7. CASE At(r, "parent")
  <2>1. ReadParent(r)
    BY <1>7, NextCall DEF At
  <2>2. /\ req'[r].pc = "draft" /\ req'[r].num = n /\ req'[r].group = g
        /\ req'[r].status = S.tStatus
    BY <1>0, <1>2, <1>7, <2>1, ReadParentGoes DEF At
  <2>3. UNCHANGED db
    BY <2>1 DEF ReadParent
  <2>4. QED
    BY <1>5, <1>7, <2>2, <2>3 DEF At
<1>8. CASE At(r, "draft")
  <2>1. ReadGroup(r)
    BY <1>8, NextCall DEF At
  <2>2. UNCHANGED db
    BY <2>1 DEF ReadGroup
  <2>3. CASE sgStatus[req[r].group] = "draft"
    <3>1. Goto(r, "dests")
      BY <2>1, <2>3 DEF ReadGroup
    <3>2. req'[r].pc = "dests" /\ req'[r].group = g /\ Keeps(r)
      BY <1>0, <1>3, <3>1, AfterGoto DEF Ends, Calls
    <3>3. /\ req'[r].num = n /\ req'[r].status = S.tStatus
          /\ S.sgStatus[g] = "draft"
      BY <1>0, <1>2, <1>8, <2>3, <3>2 DEF Keeps, At
    <3>4. QED
      BY <1>5, <1>8, <2>2, <3>2, <3>3 DEF At
  <2>4. CASE sgStatus[req[r].group] # "draft"
    <3>1. Goto(r, "failed")
      BY <2>1, <2>4 DEF ReadGroup
    <3>2. Ends(r)
      BY <3>1, AfterGoto DEF Ends, Pcs
    <3>3. Reset(S, r) = {} /\ Removed(S, r) = {}
      BY <1>8 DEF Reset, Removed, At
    <3>4. GroupsAre(S) /\ TransferIs(S)
      BY <1>0, <1>2, <1>8, <3>3, SettledFacts DEF ChallansTurned, GroupsAre, TransferIs, At
    <3>5. Rows' = Rows
      BY <1>4, <2>2 DEF Rows
    <3>6. QED
      BY <3>2, <3>4, <3>5, SettledFacts
  <2>5. QED
    BY <2>3, <2>4
<1>9. ASSUME req[r].pc \notin {"meta", "parent", "draft"},
             req'[r].pc \in {"reset", "find", "remove", "unrow", "ungroup", "count", "status"},
             req'[r].group = g, req'[r].num = n, req'[r].status = req[r].status,
             At(r, "reset")' => req'[r].todo \subseteq UndoneOf(S, g),
             At(r, "remove")' => req'[r].todo \subseteq Theirs(S, g),
             isSplit' = [p \in Places |-> IF p \in Reset(S, r)' THEN FALSE ELSE S.isSplit[p]],
             splitGroup' = [p \in Places |-> IF p \in Reset(S, r)' THEN NoGroup
                                             ELSE S.splitGroup[p]],
             ChallansTurned(S, Removed(S, r), "deleted")',
             sgStatus' = (IF req'[r].pc \in {"count", "status"}
                          THEN [S.sgStatus EXCEPT ![g] = "deleted"] ELSE S.sgStatus),
             sgTransfer' = (IF req'[r].pc \in {"count", "status"}
                            THEN [S.sgTransfer EXCEPT ![g] = NoTransfer] ELSE S.sgTransfer),
             splitNumber' = (IF req'[r].pc \in {"ungroup", "count", "status"}
                             THEN [S.splitNumber EXCEPT ![g] = 0] ELSE S.splitNumber),
             numSplit' = (IF req'[r].pc = "status" THEN NewCount(req[r]) ELSE n),
             NewCount(req'[r]) = NewCount(req[r]), tStatus' = S.tStatus
      PROVE  ~Ends(r) /\ UndoSoFar(S, r)'
  <2>1. S.sgStatus[g] = "draft" /\ req'[r].status = S.tStatus
    BY <1>2, <1>9
  <2>2. QED
    BY <1>0, <1>2, <1>9, <2>1 DEF UndoSoFar, Ends
<1>10. ASSUME req'[r].kind = "undo", req'[r].num = req[r].num
       PROVE  NewCount(req'[r]) = NewCount(req[r])
  BY <1>10 DEF NewCount
<1>11. CASE At(r, "dests")
  <2>1. FindDests(r, TRUE)
    BY <1>11, NextCall DEF At
  <2>2. UNCHANGED <<sgStatus, sgTransfer, dcStatus, splitNumber, tStatus, isSplit, splitGroup,
                    numSplit>>
    BY <1>4, <2>1 DEF FindDests
  <2>3. Reset(S, r) = {} /\ Removed(S, r) = {}
    BY <1>11 DEF Reset, Removed, At
  <2>4. Found(r, TRUE) = UndoneOf(S, g)
    BY <1>0, <1>2, <2>3 DEF Found, UndoneOf
  <2>5. /\ req'[r].pc = (IF UndoneOf(S, g) = {} THEN "find" ELSE "reset")
        /\ req'[r].group = g /\ req'[r].num = n /\ req'[r].status = req[r].status
        /\ req'[r].todo = UndoneOf(S, g) /\ req'[r].kind = "undo"
    BY <1>0, <1>2, <1>11, <2>1, <2>4, FindDestsGoes DEF At, Goes
  <2>6. Reset(S, r)' = {} /\ Removed(S, r)' = {}
    BY <2>5 DEF Reset, Removed, At
  <2>7. /\ isSplit' = [p \in Places |-> IF p \in Reset(S, r)' THEN FALSE ELSE S.isSplit[p]]
        /\ splitGroup' = [p \in Places |-> IF p \in Reset(S, r)' THEN NoGroup
                                           ELSE S.splitGroup[p]]
        /\ ChallansTurned(S, Removed(S, r), "deleted")'
    BY <1>2, <2>2, <2>3, <2>6 DEF ChallansTurned
  <2>8. NewCount(req'[r]) = NewCount(req[r])
    BY <1>2, <1>10, <1>11, <2>5 DEF At
  <2>9. QED
    BY <1>2, <1>9, <1>11, <2>2, <2>5, <2>7, <2>8 DEF At
<1>12. CASE At(r, "reset")
  <2>1. PICK p \in Places : ResetDest(r, p, TRUE)
    BY <1>12, NextCall DEF At
  <2>2. /\ p \in L /\ isSplit' = [isSplit EXCEPT ![p] = FALSE]
        /\ splitGroup' = [splitGroup EXCEPT ![p] = NoGroup] /\ UNCHANGED <<splitNumber, numSplit>>
    BY <1>0, <1>3, <2>1, ResetShape
  <2>3. UNCHANGED <<sgStatus, sgTransfer, dcStatus, tStatus>> /\ Round(r, p, "find")
    BY <2>1 DEF ResetDest, sgVars
  <2>4. /\ req'[r].pc = (IF L \ {p} = {} THEN "find" ELSE "reset") /\ req'[r].kind = "undo"
        /\ req'[r].group = g /\ ~Ends(r) /\ Keeps(r) /\ req'[r].todo = L \ {p}
    <3>1. /\ req'[r].pc = (IF L \ {p} = {} THEN "find" ELSE "reset") /\ req'[r].kind = "undo"
          /\ req'[r].group = g /\ (~Ends(r) => Keeps(r) /\ req'[r].todo = L \ {p})
      BY <1>0, <1>3, <1>12, <2>3, AfterRound DEF At, Calls
    <3>2. QED
      BY <3>1 DEF Ends
  <2>5. req'[r].num = n /\ req'[r].status = req[r].status /\ NewCount(req'[r]) = NewCount(req[r])
    BY <1>2, <1>10, <1>12, <2>4 DEF Keeps, At
  <2>6. Reset(S, r)' = Reset(S, r) \cup {p} /\ L \subseteq UndoneOf(S, g)
    <3>1. Reset(S, r) = UndoneOf(S, g) \ L /\ L \subseteq UndoneOf(S, g)
      BY <1>0, <1>2, <1>12 DEF Reset, At
    <3>2. Reset(S, r)' = UndoneOf(S, g) \ (L \ {p})
      BY <2>4 DEF Reset, At
    <3>3. QED
      BY <2>2, <3>1, <3>2
  <2>7. Removed(S, r) = {} /\ Removed(S, r)' = {}
    BY <1>12, <2>4 DEF Removed, At
  <2>8. /\ isSplit' = [q \in Places |-> IF q \in Reset(S, r)' THEN FALSE ELSE S.isSplit[q]]
        /\ splitGroup' = [q \in Places |-> IF q \in Reset(S, r)' THEN NoGroup
                                           ELSE S.splitGroup[q]]
    BY <1>2, <2>2, <2>6
  <2>9. ChallansTurned(S, Removed(S, r), "deleted")'
    BY <1>2, <2>3, <2>7 DEF ChallansTurned
  <2>10. L \ {p} \subseteq UndoneOf(S, g)
    BY <2>6
  <2>11. QED
    BY <1>2, <1>9, <1>12, <2>2, <2>3, <2>4, <2>5, <2>8, <2>9, <2>10 DEF At
<1>13. ASSUME req[r].pc \in {"find", "remove", "unrow", "ungroup", "count", "status"},
              req'[r].pc \in {"find", "remove", "unrow", "ungroup", "count", "status"},
              req'[r].group = g, isSplit' = isSplit, splitGroup' = splitGroup
       PROVE  /\ isSplit' = [p \in Places |-> IF p \in Reset(S, r)' THEN FALSE ELSE S.isSplit[p]]
              /\ splitGroup' = [p \in Places |-> IF p \in Reset(S, r)' THEN NoGroup
                                                 ELSE S.splitGroup[p]]
  <2>1. Reset(S, r)' = UndoneOf(S, g) /\ Reset(S, r) = UndoneOf(S, g)
    BY <1>0, <1>13 DEF Reset, At
  <2>2. QED
    BY <1>2, <1>13, <2>1
<1>14. CASE req[r].pc \in {"find", "remove"}
  <2>1. FindChallans(r, TRUE) \/ \E c \in Challans : RemoveChallan(r, c, TRUE)
    BY <1>14, NextCall DEF At
  <2>2. /\ UNCHANGED <<sgStatus, sgTransfer, splitNumber, tStatus, isSplit, splitGroup, numSplit>>
        /\ req'[r].pc \in {"remove", "unrow"} /\ req'[r].group = g /\ req'[r].kind = "undo"
        /\ ~Ends(r) /\ Keeps(r)
        /\ ChallansTurned(S, Removed(S, r), "deleted")'
        /\ At(r, "remove")' => req'[r].todo \subseteq Theirs(S, g)
    BY <1>0, <1>1, <1>2, <2>1, ChallansGo, ZenonT(40) DEF AfterChallans
  <2>3. req'[r].num = n /\ req'[r].status = req[r].status /\ NewCount(req'[r]) = NewCount(req[r])
    BY <1>2, <1>10, <1>14, <2>2 DEF Keeps
  <2>4. QED
    BY <1>2, <1>9, <1>13, <1>14, <2>2, <2>3 DEF At
<1>15. ASSUME req[r].pc \in {"unrow", "ungroup", "count"}, dcStatus' = dcStatus,
              req'[r].pc \in {"ungroup", "count", "status"}, req'[r].group = g
       PROVE  /\ ChallansTurned(S, Theirs(S, g), "deleted")
              /\ ChallansTurned(S, Removed(S, r), "deleted")'
  <2>1. Removed(S, r)' = Theirs(S, g) /\ Removed(S, r) = Theirs(S, g)
    BY <1>0, <1>15 DEF Removed, At
  <2>2. QED
    BY <1>2, <1>15, <2>1 DEF ChallansTurned
<1>16. CASE At(r, "unrow")
  <2>1. RemoveSplitRow(r, TRUE)
    BY <1>16, NextCall DEF At
  <2>2. /\ Goto(r, "ungroup") /\ splitNumber' = [S.splitNumber EXCEPT ![g] = 0]
        /\ UNCHANGED <<sgStatus, sgTransfer, dcStatus, tStatus, isSplit, splitGroup, numSplit>>
    BY <1>0, <1>2, <1>16, <2>1 DEF RemoveSplitRow, destVars, At
  <2>3. req'[r].pc = "ungroup" /\ req'[r].group = g /\ req'[r].kind = "undo" /\ Keeps(r)
    BY <1>0, <1>3, <2>2, AfterGoto DEF Ends, Calls
  <2>4. req'[r].num = n /\ req'[r].status = req[r].status /\ NewCount(req'[r]) = NewCount(req[r])
    BY <1>2, <1>10, <1>16, <2>3 DEF Keeps, At
  <2>5. ChallansTurned(S, Removed(S, r), "deleted")'
    BY <1>15, <1>16, <2>2, <2>3 DEF At
  <2>6. QED
    BY <1>2, <1>9, <1>13, <1>16, <2>2, <2>3, <2>4, <2>5 DEF At
<1>17. CASE At(r, "ungroup")
  <2>1. RemoveGroup(r, TRUE)
    BY <1>17, NextCall DEF At
  <2>2. /\ DeleteGroupRow(g) /\ UNCHANGED <<tStatus, isSplit, splitGroup, numSplit>>
        /\ Goto(r, "count")
    BY <1>0, <2>1 DEF RemoveGroup, destVars
  <2>3. req'[r].pc = "count" /\ req'[r].group = g /\ req'[r].kind = "undo" /\ Keeps(r)
    BY <1>0, <1>3, <2>2, AfterGoto DEF Ends, Calls
  <2>4. req'[r].num = n /\ req'[r].status = req[r].status /\ NewCount(req'[r]) = NewCount(req[r])
    BY <1>2, <1>10, <1>17, <2>3 DEF Keeps, At
  <2>5. ChallansTurned(S, Theirs(S, g), "deleted")
    <3>1. Removed(S, r) = Theirs(S, g)
      BY <1>0, <1>17 DEF Removed, At
    <3>2. QED
      BY <1>2, <3>1
  <2>6. GroupGone(S, g)'
    BY <1>1, <1>2, <1>17, <2>2, <2>5, GroupGoes DEF At
  <2>7. ChallansTurned(S, Removed(S, r), "deleted")'
    <3>1. Removed(S, r)' = Theirs(S, g)
      BY <2>3 DEF Removed, At
    <3>2. QED
      BY <2>6, <3>1 DEF GroupGone, ChallansTurned
  <2>8. QED
    BY <1>2, <1>9, <1>13, <1>17, <2>2, <2>3, <2>4, <2>6, <2>7 DEF GroupGone, At
<1>18. CASE At(r, "count")
  <2>1. SaveCount(r, TRUE)
    BY <1>18, NextCall DEF At
  <2>2. /\ numSplit' = NewCount(req[r]) /\ Goto(r, "status")
        /\ UNCHANGED <<sgStatus, sgTransfer, dcStatus, splitNumber, tStatus, isSplit, splitGroup>>
    <3>1. numSplit = n /\ req[r].num = n
      BY <1>2, <1>18 DEF At
    <3>2. QED
      BY <2>1, <3>1 DEF SaveCount, Saved, sgVars, destVars
  <2>3. req'[r].pc = "status" /\ req'[r].group = g /\ req'[r].kind = "undo" /\ Keeps(r)
    BY <1>0, <1>3, <2>2, AfterGoto DEF Ends, Calls
  <2>4. req'[r].num = n /\ req'[r].status = req[r].status /\ NewCount(req'[r]) = NewCount(req[r])
    BY <1>2, <1>10, <1>18, <2>3 DEF Keeps, At
  <2>5. ChallansTurned(S, Removed(S, r), "deleted")'
    BY <1>15, <1>18, <2>2, <2>3 DEF At
  <2>6. QED
    BY <1>2, <1>9, <1>13, <1>18, <2>2, <2>3, <2>4, <2>5 DEF At
<1>19. CASE At(r, "status")
  <2>1. SaveStatus(r, TRUE)
    BY <1>19, NextCall DEF At
  <2>2. NewCount(req[r]) = UndoneCountOf(S)
    BY <1>0, <1>2, <1>19, NewCountIsNat DEF UndoneCountOf, At
  <2>3. /\ tStatus' = (IF UndoneCountOf(S) = 0 THEN "issued"
                       ELSE IF UndoneCountOf(S) >= NumDest THEN "split" ELSE "splitting")
        /\ UNCHANGED <<sgStatus, sgTransfer, dcStatus, splitNumber, isSplit, splitGroup, numSplit>>
    <3>1. NewStatus(req[r]) = (IF UndoneCountOf(S) = 0 THEN "issued"
                       ELSE IF UndoneCountOf(S) >= NumDest THEN "split" ELSE "splitting")
      <4>1. NumDest \in Nat /\ NumDest # 0
        BY StoreAssumption, FS_CardinalityType, FS_EmptySet DEF NumDest
      <4>2. PICK c : c = UndoneCountOf(S)
        OBVIOUS
      <4>3. c \in Nat /\ NewCount(req[r]) = c
        BY <1>19, <2>2, <4>2, NewCountIsNat DEF At
      <4> HIDE DEF NumDest
      <4>4. QED
        BY <4>1, <4>2, <4>3 DEF NewStatus
    <3>2. req[r].status = tStatus
      BY <1>2, <1>19 DEF At
    <3>3. QED
      BY <2>1, <3>1, <3>2 DEF SaveStatus, Saved, sgVars, destVars
  <2>4. Reset(S, r) = UndoneOf(S, g) /\ Removed(S, r) = Theirs(S, g)
    BY <1>0, <1>19 DEF Reset, Removed, At
  <2>5. GroupGone(S, g)'
    BY <1>2, <1>19, <2>3, <2>4 DEF GroupGone, ChallansTurned, At
  <2>6. UndoDone(S, g)'
    BY <1>2, <1>19, <2>2, <2>3, <2>4, <2>5 DEF UndoDone, At
  <2>7. Ends(r)
    BY <1>3, <1>19, StatusIsLast DEF Ends
  <2>8. QED
    BY <1>1, <2>6, <2>7
<1>20. req[r].pc \in {"meta", "parent", "draft", "dests", "reset", "find", "remove", "unrow",
                      "ungroup", "count", "status"}
  BY <1>1 DEF InHand, CallsOf
<1>21. QED
  BY <1>6, <1>7, <1>8, <1>11, <1>12, <1>14, <1>16, <1>17, <1>18, <1>19, <1>20 DEF At

LEMMA UndoIsOneStep ==
    ASSUME NEW S \in SettledRows, settled = S, settled' = Rows', SplitsHaveParent,
           NEW g \in Groups, UndoDone(S, g)'
    PROVE  Lifecycle!UndoSplit(g) /\ SplitsHaveParent'
<1> DEFINE n == UndoneCountOf(S)
           status == IF n = 0 THEN "issued" ELSE IF n >= NumDest THEN "split" ELSE "splitting"
<1>1. S.splitNumber[g] # 0 /\ S.sgStatus[g] = "draft" /\ GroupGone(S, g)'
  BY DEF UndoDone
<1>2. /\ settled'.isSplit = [p \in Places |-> IF p \in UndoneOf(S, g) THEN FALSE ELSE S.isSplit[p]]
      /\ settled'.splitGroup = [p \in Places |-> IF p \in UndoneOf(S, g) THEN NoGroup
                                                 ELSE S.splitGroup[p]]
      /\ settled'.numSplit = n /\ settled'.tStatus = status
  BY DEF UndoDone, Rows
<1>3. S.sgTransfer[g] = T
  BY <1>1 DEF SplitsHaveParent
<1>4. Lifecycle!DeleteGroup(g) /\ SplitsHaveParent'
  BY <1>1, GoneIsOneStep
<1> DEFINE reset == Lifecycle!UndoneDests(T, g)
<1>5. \A d \in {T} \X Places : d \in reset <=> d[2] \in UndoneOf(S, g)
  BY DEF Lifecycle!UndoneDests, Lifecycle!Destinations, UndoneOf
<1>6. Lifecycle!UndoneCount(T) = n /\ Lifecycle!StatusAfterUndo(T, n) = status
  BY DEF Lifecycle!UndoneCount, Lifecycle!StatusAfterUndo, Lifecycle!StatusAfterSplit,
     UndoneCountOf
<1>7. /\ [d \in {T} \X Places |-> settled'.isSplit[d[2]]] =
            [d \in {T} \X Places |-> d \notin reset /\ S.isSplit[d[2]]]
      /\ [d \in {T} \X Places |-> settled'.splitGroup[d[2]]] =
            [d \in {T} \X Places |-> IF d \in reset THEN NoGroup ELSE S.splitGroup[d[2]]]
  <2> HIDE DEF reset
  <2>1. \A d \in {T} \X Places : d[2] \in Places /\ S.isSplit[d[2]] \in BOOLEAN
    BY SettledFacts
  <2>2. \A d \in {T} \X Places : settled'.isSplit[d[2]] = (d \notin reset /\ S.isSplit[d[2]])
    BY <1>2, <1>5, <2>1
  <2>3. \A d \in {T} \X Places : settled'.splitGroup[d[2]] =
                                    IF d \in reset THEN NoGroup ELSE S.splitGroup[d[2]]
    BY <1>2, <1>5, <2>1
  <2>4. QED
    BY <2>2, <2>3
<1>8. /\ [t \in {T} |-> settled'.numSplit] = [[t \in {T} |-> S.numSplit] EXCEPT ![T] = n]
      /\ [t \in {T} |-> settled'.tStatus] = [[t \in {T} |-> S.tStatus] EXCEPT ![T] = status]
  <2> HIDE DEF n, status
  <2>1. QED
    BY <1>2
<1>9. QED
  <2> HIDE DEF n, status, reset
  <2>1. /\ Lifecycle!UndoneDests(T, g) = reset
    BY DEF reset
  <2>2. QED
    BY <1>1, <1>3, <1>4, <1>6, <1>7, <1>8, <2>1 DEF Lifecycle!UndoSplit, Lifecycle!Destinations

\* A group keeps its split row as long as it names it.
LEMMA LinksStep ==
    ASSUME Types, LinksHaveRows, [Next]_vars
    PROVE  LinksHaveRows'
<1>1. ASSUME UNCHANGED <<sgSplit, splitNumber>> PROVE LinksHaveRows'
  BY <1>1 DEF LinksHaveRows
<1>2. ASSUME NEW r \in Requests, NEW ok \in BOOLEAN, Calling(r, ok) PROVE LinksHaveRows'
  <2>0. PICK g : g = req[r].group
    OBVIOUS
  <2>1. CASE LinkSplit(r, ok)
    <3>1. /\ sgSplit' = [sgSplit EXCEPT ![g] = @ \/ (ok /\ splitNumber[g] # 0)]
          /\ splitNumber' = splitNumber
      BY <2>0, <2>1 DEF LinkSplit
    <3>2. \A h \in Groups : sgSplit'[h] => sgSplit[h] \/ splitNumber[h] # 0
      BY <3>1 DEF Types
    <3>3. QED
      BY <3>1, <3>2 DEF LinksHaveRows
  <2>2. CASE RemoveSplitRow(r, ok)
    <3>1. /\ sgSplit' = [sgSplit EXCEPT ![g] = @ /\ ~ok]
          /\ splitNumber' = [splitNumber EXCEPT ![g] = IF ok THEN 0 ELSE @]
      BY <2>0, <2>2 DEF RemoveSplitRow
    <3>2. \A h \in Groups : sgSplit'[h] => sgSplit[h] /\ splitNumber'[h] = splitNumber[h]
      BY <3>1 DEF Types
    <3>3. QED
      BY <3>2 DEF LinksHaveRows
  <2>3. CASE SaveSplitRow(r)
    <3>1. PICK n : n = req[r].num
      OBVIOUS
    <3>2. n \in Nat
      BY <3>1 DEF Types, Held
    <3>3. /\ sgSplit' = sgSplit
          /\ splitNumber' \in {splitNumber, [splitNumber EXCEPT ![g] = n + 1]}
      BY <2>0, <2>3, <3>1 DEF SaveSplitRow, sgVars
    <3>4. \A h \in Groups : splitNumber[h] # 0 => splitNumber'[h] # 0
      BY <3>2, <3>3 DEF Types
    <3>5. QED
      BY <3>3, <3>4 DEF LinksHaveRows
  <2>4. CASE RemoveGroup(r, ok)
    <3>1. \/ UNCHANGED <<sgSplit, splitNumber>>
          \/ /\ sgSplit' = [sgSplit EXCEPT ![g] = FALSE]
             /\ splitNumber' = [splitNumber EXCEPT ![g] = 0]
      BY <2>0, <2>4 DEF RemoveGroup, DeleteGroupRow, sgVars
    <3>2. \A h \in Groups : sgSplit'[h] => sgSplit[h] /\ splitNumber'[h] = splitNumber[h]
      BY <3>1 DEF Types
    <3>3. QED
      BY <3>2 DEF LinksHaveRows
  <2>5. CallFails(r) \/ (\E p \in Places : SkipOfficial(r, p)) =>
           UNCHANGED <<sgSplit, splitNumber>>
    BY DEF CallFails, SkipOfficial, db, sgVars
  <2>6. Call(r) => SaveSplitRow(r) \/ UNCHANGED <<sgSplit, splitNumber>>
    BY DEF Call, ReadMeta, ReadParent, ReadGroup, CheckDest, SaveOfficial, SaveGroup, SaveTransit,
       SaveChallan, LoadChallans, IssueChallan, CloseGroup, db, sgVars
  <2>7. LooseCall(r, ok) => \/ LinkSplit(r, ok) \/ RemoveSplitRow(r, ok) \/ RemoveGroup(r, ok)
                            \/ UNCHANGED <<sgSplit, splitNumber>>
    BY DEF LooseCall, MarkDest, SaveCount, SaveStatus, FindDests, FindChallans, ReadDest,
       ResetDest, RemoveChallan, db, sgVars
  <2>8. QED
    BY <1>1, <1>2, <2>1, <2>2, <2>3, <2>4, <2>5, <2>6, <2>7 DEF Calling
<1>3. (\E r \in Requests : Begin(r)) \/ Crash \/ UNCHANGED vars => LinksHaveRows'
  BY <1>1 DEF Begin, Crash, vars, db, sgVars
<1>4. QED
  BY <1>2, <1>3, StepKinds DEF Calling

LEMMA SettledStep ==
    ASSUME Types, Types', settled \in SettledRows, [Next]_vars
    PROVE  settled' \in SettledRows
<1>1. Rows' \in SettledRows
  BY DEF Types, Rows, SettledRows
<1>2. settled' \in {settled, Rows'}
  BY DEF Next, vars
<1>3. QED
  BY <1>1, <1>2

\* The first read of a request leaves the rows to its first call.
LEMMA BeginsSoFar ==
    ASSUME Types, NEW S \in SettledRows, Rows = S, LinksHaveRows,
           NEW r \in Requests, Begin(r)
    PROVE  SoFar(S, r)'
<1>1. /\ sgStatus' = S.sgStatus /\ sgTransfer' = S.sgTransfer /\ dcStatus' = S.dcStatus
      /\ splitNumber' = S.splitNumber /\ tStatus' = S.tStatus /\ isSplit' = S.isSplit
      /\ splitGroup' = S.splitGroup /\ numSplit' = S.numSplit
      /\ tStatus = S.tStatus /\ splitNumber = S.splitNumber /\ sgStatus = S.sgStatus
  BY BeginShape DEF db, sgVars, destVars, Rows
<1>2. /\ dcStatus' = [c \in Challans |-> S.dcStatus[c]]
      /\ isSplit' = [p \in Places |-> S.isSplit[p]]
      /\ splitGroup' = [p \in Places |-> S.splitGroup[p]]
  BY <1>1, SettledFacts
<1>3. GroupsAre(S)' /\ TransferIs(S)'
  BY <1>1 DEF GroupsAre, TransferIs
<1>4. CASE req'[r].kind = "direct" /\ req'[r].pc = "group"
  BY <1>1, <1>3, <1>4 DEF SoFar, DirectSoFar, At
<1>5. CASE /\ req'[r].kind = "split" /\ req'[r].pc = "meta" /\ req'[r].status = tStatus
           /\ tStatus \in {"issued", "splitting"}
  <2>1. Marked(r)' = {}
    BY <1>5 DEF Marked
  <2>2. SplitSoFar(S, r)'
    BY <1>1, <1>2, <1>3, <1>5, <2>1 DEF SplitSoFar
  <2>3. QED
    BY <1>5, <2>2 DEF SoFar
<1>6. CASE /\ req'[r].kind = "undo" /\ req'[r].pc = "meta" /\ req'[r].group \in Groups
           /\ splitNumber[req'[r].group] # 0
  <2>1. Reset(S, r)' = {} /\ Removed(S, r)' = {}
    BY <1>6 DEF Reset, Removed, At
  <2>2. ChallansTurned(S, Removed(S, r), "deleted")'
    BY <1>2, <2>1 DEF ChallansTurned
  <2>3. UndoSoFar(S, r)'
    BY <1>1, <1>2, <1>6, <2>1, <2>2 DEF UndoSoFar, At
  <2>4. QED
    BY <1>6, <2>3 DEF SoFar
<1>7. CASE /\ req'[r].kind = "issue" /\ req'[r].pc = "load" /\ req'[r].group \in Groups
           /\ sgStatus[req'[r].group] = "draft" /\ req'[r].linked = sgSplit[req'[r].group]
  <2>1. Issued(S, r)' = {}
    BY <1>7 DEF Issued, At
  <2>2. ChallansTurned(S, Issued(S, r), "issued")'
    BY <1>2, <2>1 DEF ChallansTurned
  <2>3. req'[r].linked => S.splitNumber[req'[r].group] # 0
    BY <1>1, <1>7 DEF LinksHaveRows
  <2>4. IssueSoFar(S, r)'
    BY <1>1, <1>3, <1>7, <2>2, <2>3 DEF IssueSoFar, At
  <2>5. QED
    BY <1>7, <2>4 DEF SoFar
<1>8. CASE /\ req'[r].kind \in {"groupDelete", "dcDelete"} /\ req'[r].pc = "find"
           /\ req'[r].group \in Groups /\ sgStatus[req'[r].group] = "draft"
  <2>1. Removed(S, r)' = {}
    BY <1>8 DEF Removed, At
  <2>2. ChallansTurned(S, Removed(S, r), "deleted")'
    BY <1>2, <2>1 DEF ChallansTurned
  <2>3. DeleteSoFar(S, r)'
    BY <1>1, <1>3, <1>8, <2>2 DEF DeleteSoFar, At
  <2>4. QED
    BY <1>8, <2>3 DEF SoFar
<1>9. QED
  BY <1>4, <1>5, <1>6, <1>7, <1>8, BeginShape

\* One more call of a request that is alone.
LEMMA CallSoFar ==
    ASSUME Types, NEW S \in SettledRows, NEW r \in Requests, Call(r) \/ LooseCall(r, TRUE),
           SoFar(S, r), SplitIsCurrent(r), UndoIsCurrent(r), Flags,
           settled = S, settled' = IF Ends(r) THEN Rows' ELSE S, SplitsHaveParent
    PROVE  /\ ~Ends(r) => SoFar(S, r)'
           /\ settled' = settled \/ Lifecycle!Next
           /\ SplitsHaveParent'
<1>1. /\ req[r].pc \in Calls /\ InHand(req[r]) /\ req'[r].kind = req[r].kind
  BY CallHolds, CallsAreHeld DEF Goes
<1>2. settled' = S => SplitsHaveParent'
  BY DEF SplitsHaveParent
<1>3. CASE req[r].kind = "direct"
  <2>1. /\ ~Ends(r) => DirectSoFar(S, r)'
        /\ Ends(r) => \E g \in Groups, A \in SUBSET Places : DirectDone(S, g, A)'
    BY <1>3, DirectCall DEF SoFar
  <2>2. Ends(r) => Lifecycle!Next /\ SplitsHaveParent'
    BY <2>1, DirectIsOneStep DEF Lifecycle!Next
  <2>3. QED
    BY <1>1, <1>2, <1>3, <2>1, <2>2 DEF SoFar
<1>4. CASE req[r].kind = "split"
  <2>1. /\ ~Ends(r) => SplitSoFar(S, r)'
        /\ Ends(r) => \/ Rows' = S
                      \/ \E g \in Groups, A \in SUBSET Places : SplitDone(S, g, A)'
    BY <1>4, SplitCall DEF SoFar
  <2>2. (\E g \in Groups, A \in SUBSET Places : SplitDone(S, g, A)') /\ Ends(r)
            => Lifecycle!Next /\ SplitsHaveParent'
    BY SplitIsOneStep DEF Lifecycle!Next
  <2>3. QED
    BY <1>1, <1>2, <1>4, <2>1, <2>2 DEF SoFar
<1>5. CASE req[r].kind = "undo"
  <2>1. /\ ~Ends(r) => UndoSoFar(S, r)'
        /\ Ends(r) => Rows' = S \/ \E g \in Groups : UndoDone(S, g)'
    BY <1>5, UndoCall DEF SoFar
  <2>2. (\E g \in Groups : UndoDone(S, g)') /\ Ends(r) => Lifecycle!Next /\ SplitsHaveParent'
    BY UndoIsOneStep DEF Lifecycle!Next
  <2>3. QED
    BY <1>1, <1>2, <1>5, <2>1, <2>2 DEF SoFar
<1>6. CASE req[r].kind = "issue"
  <2>1. /\ ~Ends(r) => IssueSoFar(S, r)'
        /\ Ends(r) => Rows' = S \/ \E g \in Groups : IssueDone(S, g)'
    BY <1>6, IssueCall DEF SoFar
  <2>2. (\E g \in Groups : IssueDone(S, g)') /\ Ends(r) => Lifecycle!Next /\ SplitsHaveParent'
    BY IssueIsOneStep DEF Lifecycle!Next
  <2>3. QED
    BY <1>1, <1>2, <1>6, <2>1, <2>2 DEF SoFar
<1>7. CASE req[r].kind \in {"groupDelete", "dcDelete"}
  <2>1. /\ ~Ends(r) => DeleteSoFar(S, r)'
        /\ Ends(r) => \E g \in Groups :
              S.sgStatus[g] = "draft" /\ GroupGone(S, g)' /\ TransferIs(S)'
    BY <1>7, DeleteCall DEF SoFar
  <2>2. Ends(r) => Lifecycle!Next /\ SplitsHaveParent'
    BY <2>1, DeleteIsOneStep DEF Lifecycle!Next
  <2>3. QED
    BY <1>1, <1>2, <1>7, <2>1, <2>2 DEF SoFar
<1>8. QED
  BY <1>1, <1>3, <1>4, <1>5, <1>6, <1>7 DEF InHand, CallsOf

\* What RunsAsLifecycle says of a step, and what the next one needs of it.
LEMMA CleanStep ==
    ASSUME IInv, IInv', InStep, Next, Clean'
    PROVE  /\ settled' = settled \/ Lifecycle!Next
           /\ SplitsHaveParent'
           /\ Idle' => settled' = Rows'
           /\ \A r \in Requests : InFlight(r)' => SoFar(settled, r)'
<1>1. Types /\ Types' /\ OneAtATime /\ OneAtATime'
  BY DEF IInv
<1>2. /\ crashes = 0 /\ errors = 0 /\ ~overlapped /\ ~overlapped'
      /\ \E r \in Requests : Begin(r) \/ Call(r) \/ LooseCall(r, TRUE)
  <2>1. ~overlapped /\ ~overlapped' /\ crashes' = 0 /\ errors' = 0
    BY <1>1, OverlapStays DEF Clean
  <2>2. crashes \in Nat /\ errors \in Nat
    BY <1>1, StoreAssumption DEF Types
  <2>3. ~Crash
    BY <1>1, <2>1, <2>2, CrashShape
  <2>4. ASSUME NEW r \in Requests, Fault(r) PROVE FALSE
    <3>1. errors' = errors + 1
      BY <2>4 DEF Fault
    <3>2. QED
      BY <2>1, <2>2, <3>1
  <2>5. PICK r \in Requests : Step(r)
    BY <2>3, <2>4 DEF Next
  <2>6. QED
    BY <2>1, <2>5 DEF Step
<1>3. PICK r \in Requests : Begin(r) \/ Call(r) \/ LooseCall(r, TRUE)
  BY <1>2
<1>4. PICK S \in SettledRows : S = settled
  BY DEF InStep
<1>5. /\ LinksHaveRows /\ SplitsHaveParent
      /\ Idle => S = Rows
      /\ \A x \in Requests : InFlight(x) => SoFar(S, x)
  BY <1>2, <1>4 DEF InStep, Clean
<1>6. settled' = IF Idle' THEN Rows' ELSE S
  BY <1>4 DEF Next
<1>7. CASE Begin(r)
  <2>1. /\ ~InFlight(r) /\ InFlight(r)' /\ UNCHANGED db
        /\ \A x \in Requests : x # r => req'[x] = req[x]
    BY <1>1, <1>7, BeginShape DEF InFlight
  <2>2. \A x \in Requests : x # r => ~InFlight(x) /\ ~InFlight(x)'
    BY <1>1, <1>2, <2>1 DEF OneAtATime, InFlight
  <2>3. Idle /\ ~Idle'
    BY <2>1, <2>2 DEF Idle
  <2>4. SoFar(S, r)' /\ settled' = S
    BY <1>1, <1>5, <1>6, <1>7, <2>3, BeginsSoFar
  <2>5. \A x \in Requests : InFlight(x)' => x = r
    BY <2>2
  <2>6. SoFar(settled, r)'
    BY <2>4 DEF SoFar
  <2>7. SplitsHaveParent'
    BY <1>4, <1>5, <2>4 DEF SplitsHaveParent
  <2>8. QED
    BY <1>4, <2>3, <2>4, <2>5, <2>6, <2>7
<1>8. CASE Call(r) \/ LooseCall(r, TRUE)
  <2>1. /\ req[r].pc \in Calls /\ req'[r].pc # "idle" /\ req' \in [Requests -> Held]
        /\ \A x \in Requests : x # r => req'[x] = req[x]
    BY <1>1, <1>8, CallHolds DEF Goes
  <2>2. InFlight(r) /\ (Ends(r) <=> ~InFlight(r)')
    BY <2>1 DEF InFlight, Calls, Ends
  <2>3. \A x \in Requests : x # r => ~InFlight(x) /\ ~InFlight(x)'
    BY <1>1, <1>2, <2>1, <2>2 DEF OneAtATime, InFlight
  <2>4. Idle' <=> Ends(r)
    BY <2>2, <2>3 DEF Idle
  <2>5. SplitIsCurrent(r) /\ UndoIsCurrent(r) /\ Flags
    BY <1>2 DEF IInv, ReadsAreCurrent
  <2>6. /\ ~Ends(r) => SoFar(S, r)'
        /\ settled' = settled \/ Lifecycle!Next
        /\ SplitsHaveParent'
    BY <1>1, <1>4, <1>5, <1>6, <1>8, <2>2, <2>4, <2>5, CallSoFar
  <2>7. \A x \in Requests : InFlight(x)' => x = r /\ ~Ends(r) /\ settled' = S
    BY <1>6, <2>2, <2>3, <2>4
  <2>8. InFlight(r)' => SoFar(settled, r)'
    BY <2>6, <2>7 DEF SoFar
  <2>9. QED
    BY <1>6, <2>4, <2>6, <2>7, <2>8
<1>9. QED
  BY <1>3, <1>7, <1>8

LEMMA InStepAtFirst == Init => InStep
<1> SUFFICES ASSUME Init PROVE InStep
  OBVIOUS
<1>1. Types /\ \A r \in Requests : ~InFlight(r)
  BY InitShape
<1>2. settled = Rows /\ settled \in SettledRows
  BY <1>1, RowsAreSettled DEF Init
<1>3. LinksHaveRows
  BY DEF Init, LinksHaveRows
<1>4. settled.splitNumber = [g \in Groups |-> 0]
  BY <1>2 DEF Init, Rows
<1>5. SplitsHaveParent
  BY <1>4 DEF SplitsHaveParent
<1>6. QED
  BY <1>1, <1>2, <1>3, <1>5 DEF InStep

LEMMA InStepStep == IInv /\ IInv' /\ InStep /\ [Next]_vars => InStep'
<1> SUFFICES ASSUME IInv, IInv', InStep, [Next]_vars PROVE InStep'
  OBVIOUS
<1>1. settled' \in SettledRows /\ LinksHaveRows'
  BY LinksStep, SettledStep DEF IInv, InStep
<1>2. ASSUME Next, Clean' PROVE InStep'
  BY <1>1, <1>2, CleanStep DEF InStep
<1>3. CASE UNCHANGED vars
  <2>1. /\ UNCHANGED <<sgStatus, sgTransfer, sgSplit, dcStatus, splitNumber, tStatus, isSplit>>
        /\ UNCHANGED <<splitGroup, numSplit, req, crashes, errors, settled, overlapped>>
    BY <1>3 DEF vars, db, sgVars, destVars
  <2>2. ASSUME NEW r \in Requests PROVE SoFar(settled, r)' <=> SoFar(settled, r)
    <3>1. DirectSoFar(settled, r)' <=> DirectSoFar(settled, r)
      BY <2>1 DEF DirectSoFar, TransferIs, GroupsAre, Made, Created, At
    <3>2. SplitSoFar(settled, r)' <=> SplitSoFar(settled, r)
      BY <2>1 DEF SplitSoFar, GroupsAre, Made, Created, Marked, At
    <3>3. UndoSoFar(settled, r)' <=> UndoSoFar(settled, r)
      BY <2>1 DEF UndoSoFar, Reset, UndoneOf, Removed, Theirs, ChallansTurned, At
    <3>4. DeleteSoFar(settled, r)' <=> DeleteSoFar(settled, r)
      BY <2>1 DEF DeleteSoFar, TransferIs, Removed, Theirs, ChallansTurned, At
    <3>5. IssueSoFar(settled, r)' <=> IssueSoFar(settled, r)
      BY <2>1 DEF IssueSoFar, TransferIs, Issued, Theirs, ChallansTurned, At
    <3>6. QED
      BY <2>1, <3>1, <3>2, <3>3, <3>4, <3>5 DEF SoFar
  <2>3. Clean' => Clean /\ (Idle' <=> Idle) /\ Rows' = Rows
    BY <2>1 DEF Clean, Idle, InFlight, Rows
  <2>4. QED
    BY <1>1, <2>1, <2>2, <2>3 DEF InStep, SplitsHaveParent, InFlight
<1>4. QED
  BY <1>1, <1>2, <1>3 DEF InStep

\* When no fault has happened and no request overlapped another, every step of
\* the split, undo, creation, issue and deletion calls either leaves the rows
\* between requests alone or completes one whole step of DCLifecycle
\* (RunsAsLifecycle): the dozen calls of a request amount to one step, for any
\* number of requests, groups and destinations.
THEOREM CallsAmountToLifecycle == Spec => RunsAsLifecycle
<1> DEFINE OneStep == crashes' = 0 /\ errors' = 0 /\ ~overlapped' => Lifecycle!Next
<1>1. IInv /\ IInv' /\ InStep /\ [Next]_vars => [OneStep]_(Lifecycle!vars)
  <2> SUFFICES ASSUME IInv, IInv', InStep, [Next]_vars PROVE [OneStep]_(Lifecycle!vars)
    OBVIOUS
  <2>1. settled' = settled => UNCHANGED Lifecycle!vars
    BY DEF Lifecycle!vars, Lifecycle!groupVars, Lifecycle!transferVars
  <2>2. CASE Next
    BY <2>1, <2>2, CleanStep DEF Clean
  <2>3. CASE UNCHANGED vars
    BY <2>1, <2>3 DEF vars
  <2>4. QED
    BY <2>2, <2>3
<1>2. Spec => []InStep
  BY InStepAtFirst, InStepStep, Inductive, PTL DEF Spec
<1>3. QED
  BY <1>1, <1>2, Inductive, PTL DEF Spec, RunsAsLifecycle
=============================================================================
