-------------------------- MODULE AddressBookProofs --------------------------
(* Proofs about AddressBook, for any number of addresses, requests and rows   *)
(* of a file, and whatever the bounds.                                        *)
EXTENDS AddressBook, FiniteSetTheorems, TLAPS

\* What a request may be in the middle of.
SaveJob == [op : {"save"}, type : Type, new : Address, old : BOOLEAN]
UpdateJob ==
    [op : {"update"}, type : Type, id : Ids, row : Address, new : Address, old : BOOLEAN]
DeleteJob ==
    [op : Deleting, bulk : BOOLEAN, todo : SUBSET Ids, id : Ids \cup {None},
     left : UNION {[kids -> Address] : kids \in SUBSET Ids}]
LookupJob == [op : {"lookup"}, type : Type, rows : Seq(FileRow), old : BOOLEAN]
ChunkJob ==
    [op : {"chunk"}, type : Type, rows : Seq(FileRow), old : BOOLEAN,
     lookup : UNION {[names -> Ids] : names \in SUBSET Names},
     next : Nat \ {0}, imported : Nat, failed : Nat, entered : SUBSET Nat]
SettingsJob ==
    [op : Settings, req : [Type -> BOOLEAN], todo : {Types, <<"install_at">>},
     read : BOOLEAN, alone : BOOLEAN]
Jobs == {Idle} \cup SaveJob \cup UpdateJob \cup DeleteJob \cup LookupJob \cup ChunkJob
    \cup SettingsJob

Typed ==
    /\ address \in [Ids -> Address \cup {Gone}]
    /\ config \in [Type -> BOOLEAN] /\ legacy \in [Type -> BOOLEAN]
    /\ inUse \subseteq Ids /\ excused \subseteq Ids /\ older \subseteq Ids /\ drift \subseteq Type
    /\ meant \in [Ids -> Ids \cup {None}]
    /\ job \in [Workers -> Jobs]

ParentsLive ==
    /\ \A a \in Ids : Exists(address[a]) => address[a].parent \in OfType("ship_to") \cup {None}
    /\ inUse \subseteq OfType("ship_to")

\* An address that a request has read keeps its type for as long as it exists.
ReadsHold(v) ==
    /\ AtAny(v, {"save", "update"}) => /\ job[v].new.type = job[v].type
                                       /\ job[v].new.parent \notin OfType("install_at")
    /\ At(v, "update") /\ Exists(address[job[v].id]) => address[job[v].id].type = job[v].type
    /\ At(v, "chunk") => \A n \in DOMAIN job[v].lookup : job[v].lookup[n] \notin OfType("install_at")

\* A deletion unlinks those that were linked to the address it is at.
UnlinksOwn(v) ==
    At(v, "unlink") => /\ job[v].id \in Ids
                       /\ \A k \in DOMAIN job[v].left : job[v].left[k].parent = job[v].id

Unlinking(p) == \E w \in Workers : At(w, "unlink") /\ job[w].id = p

\* A link that is lost without excuse has been unset.
LinkedOrUnset ==
    \A a \in Ids : Exists(address[a]) =>
        \/ address[a].parent = meant[a] \/ a \in excused
        \/ address[a].parent = None /\ Unlinking(meant[a])

\* What a request is about to store was checked against the rule, or is older.
Checked(v) ==
    /\ AtAny(v, {"save", "update"}) =>
          job[v].new.filled \/ ~legacy[job[v].type] \/ job[v].old
    /\ AtAny(v, {"lookup", "chunk"}) =>
          \/ ~legacy[job[v].type] \/ job[v].old
          \/ \A i \in DOMAIN job[v].rows : job[v].rows[i].filled

RuleAt(v) == Head(job[v].todo)

\* A save of the settings that is alone finds what it has stored.
SettingsKnown(v) ==
    AtAny(v, Settings) =>
        IF ~job[v].alone THEN drift = Type
        ELSE /\ \A u \in Workers : AtAny(u, Settings) => u = v
             /\ At(v, "saveConfig") => job[v].read = config[RuleAt(v)]
             /\ AtAny(v, {"readLegacy", "saveLegacy"}) => config[RuleAt(v)] = job[v].req[RuleAt(v)]
             /\ At(v, "saveLegacy") => job[v].read = legacy[RuleAt(v)]

\* Every row before the next chunk has been counted once.
RowsCounted(v) ==
    At(v, "chunk") =>
        /\ job[v].entered \subseteq DOMAIN job[v].rows
        /\ \A i \in job[v].entered : i < job[v].next
        /\ job[v].imported = Cardinality(job[v].entered)
        /\ job[v].imported + job[v].failed =
              IF job[v].next <= Len(job[v].rows) THEN job[v].next - 1 ELSE Len(job[v].rows)

IInv ==
    /\ Typed /\ ParentsLive /\ LinkedOrUnset /\ RequiredAtEntry /\ RulesAgree
    /\ \A v \in Workers : /\ ReadsHold(v) /\ UnlinksOwn(v) /\ Checked(v)
                          /\ SettingsKnown(v) /\ RowsCounted(v)

-----------------------------------------------------------------------------
\* What a request holds is told by what it is at.
LEMMA HeldByOp ==
    ASSUME Typed, NEW w \in Workers
    PROVE  /\ job[w] \in Jobs
           /\ At(w, "idle") => job[w] = Idle
           /\ At(w, "save") => job[w] \in SaveJob
           /\ At(w, "update") => job[w] \in UpdateJob
           /\ AtAny(w, Deleting) => job[w] \in DeleteJob
           /\ At(w, "lookup") => job[w] \in LookupJob
           /\ At(w, "chunk") => job[w] \in ChunkJob
           /\ AtAny(w, Settings) => job[w] \in SettingsJob
<1>1. job[w] \in Jobs
  BY DEF Typed
<1>2. CASE job[w] = Idle
  BY <1>1, <1>2 DEF Idle, At, AtAny, Deleting, Settings
<1>3. CASE job[w] \in SaveJob
  BY <1>1, <1>3 DEF SaveJob, At, AtAny, Deleting, Settings
<1>4. CASE job[w] \in UpdateJob
  BY <1>1, <1>4 DEF UpdateJob, At, AtAny, Deleting, Settings
<1>5. CASE job[w] \in DeleteJob
  BY <1>1, <1>5 DEF DeleteJob, At, AtAny, Deleting, Settings
<1>6. CASE job[w] \in LookupJob
  BY <1>1, <1>6 DEF LookupJob, At, AtAny, Deleting, Settings
<1>7. CASE job[w] \in ChunkJob
  BY <1>1, <1>7 DEF ChunkJob, At, AtAny, Deleting, Settings
<1>8. CASE job[w] \in SettingsJob
  BY <1>1, <1>8 DEF SettingsJob, At, AtAny, Deleting, Settings
<1> QED
  BY <1>1, <1>2, <1>3, <1>4, <1>5, <1>6, <1>7, <1>8 DEF Jobs

\* The one request whose job changes.
LEMMA Becomes ==
    ASSUME Typed, NEW w \in Workers, NEW j \in Jobs, job' = [job EXCEPT ![w] = j]
    PROVE  /\ job' \in [Workers -> Jobs] /\ job'[w] = j
           /\ \A v \in Workers : v # w => job'[v] = job[v]
BY DEF Typed

\* Addresses appear under free ids only, and keep their type.
Evolves ==
    \A a \in Ids : Exists(address'[a]) =>
        IF Exists(address[a]) THEN address'[a].type = address[a].type ELSE a \in Free

\* What the other requests have read of the addresses holds on.
LEMMA ReadsHoldOn ==
    ASSUME Typed, Evolves, address' \in [Ids -> Address \cup {Gone}],
           NEW v \in Workers, ReadsHold(v),
           job'[v] = job[v]
    PROVE  ReadsHold(v)'
<1>1. ASSUME NEW p \in Ids, p \in Mentioned, p \notin OfType("install_at")
      PROVE  p \notin OfType("install_at")'
  BY <1>1 DEF OfType, Evolves, Exists, Free
<1>2. CASE AtAny(v, {"save", "update"})
  <2>1. job[v].new.parent \in Mentioned
    BY <1>2 DEF AtAny, At, Mentioned
  <2>2. job[v].new.parent \notin OfType("install_at")'
    BY <1>1, <1>2, <2>1 DEF ReadsHold, OfType
  <2>3. At(v, "update") => job[v].id \in Mentioned
    BY DEF At, Mentioned
  <2>4. At(v, "update") => job[v].id \in Ids
    BY HeldByOp DEF UpdateJob
  <2>5. At(v, "update") /\ Exists(address[job[v].id])' =>
            address'[job[v].id].type = job[v].type
    BY <2>3, <2>4 DEF ReadsHold, Evolves, Free, Exists, At
  <2> QED
    BY <1>2, <2>2, <2>5 DEF ReadsHold, AtAny, At, Exists
<1>3. CASE At(v, "chunk")
  <2>1. ASSUME NEW n \in DOMAIN job[v].lookup
        PROVE  job[v].lookup[n] \notin OfType("install_at")'
    <3>1. job[v].lookup[n] \in Mentioned
      BY <1>3, <2>1 DEF At, Mentioned
    <3> QED
      BY <1>1, <1>3, <2>1, <3>1 DEF ReadsHold, OfType
  <2> QED
    BY <1>3, <2>1 DEF ReadsHold, AtAny, At
<1> QED
  BY <1>2, <1>3 DEF ReadsHold, AtAny, At

\* What is known of one request.
Known(v) == ReadsHold(v) /\ UnlinksOwn(v) /\ Checked(v) /\ SettingsKnown(v) /\ RowsCounted(v)

\* A step of one request that leaves the rules alone takes nothing from the others.
LEMMA OthersKeep ==
    ASSUME IInv, NEW w \in Workers, NEW j \in Jobs, job' = [job EXCEPT ![w] = j],
           Evolves, address' \in [Ids -> Address \cup {Gone}],
           UNCHANGED <<config, legacy>>, drift \subseteq drift', drift' \subseteq Type,
           j.op \in Settings => AtAny(w, Settings)
    PROVE  \A v \in Workers : v # w => Known(v)'
<1> SUFFICES ASSUME NEW v \in Workers, v # w
             PROVE  Known(v)'
  OBVIOUS
<1>1. /\ job'[w] = j /\ job'[v] = job[v] /\ \A u \in Workers : u # w => job'[u] = job[u]
  BY Becomes DEF IInv
<1>2. ReadsHold(v)'
  BY <1>1, ReadsHoldOn DEF IInv
<1>3. UnlinksOwn(v)' /\ Checked(v)' /\ RowsCounted(v)'
  BY <1>1 DEF IInv, UnlinksOwn, Checked, RowsCounted, At, AtAny
<1>4. SettingsKnown(v)'
  <2>1. CASE ~AtAny(v, Settings)
    BY <1>1, <2>1 DEF SettingsKnown, AtAny
  <2>2. CASE AtAny(v, Settings) /\ ~job[v].alone
    <3>1. drift = Type
      BY <2>2 DEF IInv, SettingsKnown
    <3>2. drift' = Type
      BY <3>1
    <3>3. ~job'[v].alone
      BY <1>1, <2>2
    <3> QED
      BY <3>2, <3>3, Zenon DEF SettingsKnown
  <2>3. CASE AtAny(v, Settings) /\ job[v].alone
    <3>1. \A u \in Workers : AtAny(u, Settings)' => u = v
      BY <1>1, <2>3 DEF IInv, SettingsKnown, AtAny
    <3>2. /\ At(v, "saveConfig")' => job'[v].read = config'[RuleAt(v)']
          /\ AtAny(v, {"readLegacy", "saveLegacy"})' => config'[RuleAt(v)'] = job'[v].req[RuleAt(v)']
          /\ At(v, "saveLegacy")' => job'[v].read = legacy'[RuleAt(v)']
      BY <1>1, <2>3 DEF IInv, SettingsKnown, AtAny, At, RuleAt
    <3> QED
      BY <1>1, <2>3, <3>1, <3>2 DEF SettingsKnown
  <2> QED
    BY <2>1, <2>2, <2>3
<1> QED
  BY <1>2, <1>3, <1>4 DEF Known

\* The addresses and the rules that are stored agree, of a state.
Stands == ParentsLive /\ LinkedOrUnset /\ RequiredAtEntry /\ RulesAgree

\* A step of one request that stores nothing leaves what is stored as it was, if
\* an unlinking that it gives up and a rule it stops at are accounted for.
LEMMA NothingStored ==
    ASSUME IInv, NEW w \in Workers, NEW j \in Jobs, job' = [job EXCEPT ![w] = j],
           UNCHANGED <<db, meant, older>>, excused \subseteq excused', drift \subseteq drift',
           \/ LeftAlone(w) \subseteq excused'
           \/ j.op = "unlink" /\ j.id = job[w].id,
           AtAny(w, {"readLegacy", "saveLegacy"}) =>
              \/ RuleAt(w) \in drift'
              \/ j.op \in {"readLegacy", "saveLegacy"} /\ Head(j.todo) = RuleAt(w)
    PROVE  Stands'
<1>1. job'[w] = j /\ \A u \in Workers : u # w => job'[u] = job[u]
  BY Becomes DEF IInv
<1>2. ParentsLive' /\ RequiredAtEntry'
  BY DEF IInv, ParentsLive, RequiredAtEntry, OfType, Exists, db
<1>3. LinkedOrUnset'
  <2> SUFFICES ASSUME NEW a \in Ids, Exists(address[a]),
                      ~(address[a].parent = meant[a]), a \notin excused'
               PROVE  address[a].parent = None /\ Unlinking(meant[a])'
    BY DEF LinkedOrUnset, db, Exists
  <2>1. address[a].parent = None /\ Unlinking(meant[a])
    BY DEF IInv, LinkedOrUnset
  <2>2. PICK u \in Workers : At(u, "unlink") /\ job[u].id = meant[a]
    BY <2>1 DEF Unlinking
  <2>3. CASE u = w
    BY <1>1, <2>1, <2>2, <2>3 DEF Unlinking, At, LeftAlone
  <2>4. CASE u # w
    BY <1>1, <2>1, <2>2, <2>4 DEF Unlinking, At
  <2> QED
    BY <2>3, <2>4
<1>4. RulesAgree'
  <2> SUFFICES ASSUME NEW t \in Type, config[t] # legacy[t], t \notin drift'
               PROVE  \E u \in Workers :
                         AtAny(u, {"readLegacy", "saveLegacy"})' /\ Head(job'[u].todo) = t
    BY DEF RulesAgree, db
  <2>1. PICK u \in Workers : AtAny(u, {"readLegacy", "saveLegacy"}) /\ Head(job[u].todo) = t
    BY DEF IInv, RulesAgree
  <2>2. CASE u = w
    BY <1>1, <2>1, <2>2 DEF AtAny, RuleAt
  <2>3. CASE u # w
    BY <1>1, <2>1, <2>3 DEF AtAny
  <2> QED
    BY <2>2, <2>3
<1> QED
  BY <1>2, <1>3, <1>4 DEF Stands

\* Such a step, of a request that goes on to something it knows.
LEMMA GoesOn ==
    ASSUME IInv, NEW w \in Workers, NEW j \in Jobs, job' = [job EXCEPT ![w] = j],
           UNCHANGED <<db, meant, older>>, excused \subseteq excused', excused' \subseteq Ids,
           drift \subseteq drift', drift' \subseteq Type,
           \/ LeftAlone(w) \subseteq excused'
           \/ j.op = "unlink" /\ j.id = job[w].id,
           AtAny(w, {"readLegacy", "saveLegacy"}) =>
              \/ RuleAt(w) \in drift'
              \/ j.op \in {"readLegacy", "saveLegacy"} /\ Head(j.todo) = RuleAt(w),
           j.op \in Settings => AtAny(w, Settings),
           Known(w)'
    PROVE  IInv'
<1>1. Typed'
  BY Becomes DEF IInv, Typed, db
<1>2. Evolves
  BY DEF Evolves, db
<1>3. \A v \in Workers : v # w => Known(v)'
  BY <1>1, <1>2, OthersKeep DEF Typed, db
<1>4. Stands'
  BY NothingStored
<1> QED
  BY <1>1, <1>3, <1>4 DEF IInv, Stands, Known

-----------------------------------------------------------------------------
\* Requests that store nothing in their step.
LEMMA IdleIsKnown ==
    ASSUME NEW w \in Workers, job'[w] = Idle
    PROVE  Known(w)'
BY DEF Known, ReadsHold, UnlinksOwn, Checked, SettingsKnown, RowsCounted, Idle, At, AtAny, Settings

LEMMA IdleIsJob == Idle \in Jobs
BY DEF Jobs

\* A request that begins has nothing of its own to give up.
LEMMA BeginsKnown ==
    ASSUME IInv, NEW w \in Workers, NEW j \in Jobs, Begins(w, j), UNCHANGED drift,
           j.op \notin Settings, Known(w)'
    PROVE  IInv'
<1>1. At(w, "idle")
  BY DEF Begins
<1>2. LeftAlone(w) = {} /\ ~AtAny(w, {"readLegacy", "saveLegacy"})
  BY <1>1 DEF LeftAlone, At, AtAny
<1> QED
  BY <1>2, GoesOn DEF Begins, db, IInv, Typed

LEMMA FormShape ==
    ASSUME AddressBookAssumption, Typed, NEW t \in Type, NEW f \in Form(t)
    PROVE  /\ f \in Address /\ f.type = t /\ f.parent \notin OfType("install_at")
           /\ f.filled \/ ~legacy[t]
<1>1. f \in [type : {t}, name : Names, filled : BOOLEAN, parent : {None} \cup OfType("ship_to")]
  BY DEF Form
<1>2. f.filled \/ ~legacy[t]
  BY DEF Form, ValidateAddress
<1>3. f \in Address /\ f.type = t
  BY <1>1 DEF Address, OfType
<1>4. f.parent \notin OfType("install_at")
  BY <1>1, AddressBookAssumption DEF OfType, AddressBookAssumption
<1> QED
  BY <1>2, <1>3, <1>4

LEMMA CheckAddressStep ==
    ASSUME AddressBookAssumption, IInv, NEW w \in Workers, CheckAddress(w)
    PROVE  IInv'
<1>0. PICK t \in Type : \E f \in Form(t) :
         Begins(w, [op |-> "save", type |-> t, new |-> f, old |-> FALSE])
  BY DEF CheckAddress
<1>1. PICK f \in Form(t) : Begins(w, [op |-> "save", type |-> t, new |-> f, old |-> FALSE])
  BY <1>0
<1> DEFINE j == [op |-> "save", type |-> t, new |-> f, old |-> FALSE]
<1>2. /\ f \in Address /\ f.type = t /\ f.parent \notin OfType("install_at")
      /\ f.filled \/ ~legacy[t]
  BY FormShape DEF IInv
<1>3. j \in Jobs
  BY <1>2 DEF Jobs, SaveJob
<1>4. /\ j.op = "save" /\ j.type = t /\ j.new = f
  OBVIOUS
<1>5. Begins(w, j)
  BY <1>1
<1> HIDE DEF j
<1>6. job'[w] = j /\ legacy' = legacy /\ address' = address
  BY <1>3, <1>5, Becomes DEF IInv, Begins, db
<1>7. Known(w)'
  <2>1. ReadsHold(w)'
    BY <1>2, <1>4, <1>6 DEF ReadsHold, At, AtAny, OfType, Exists
  <2>2. Checked(w)'
    BY <1>2, <1>4, <1>6 DEF Checked, AtAny
  <2>3. UnlinksOwn(w)' /\ SettingsKnown(w)' /\ RowsCounted(w)'
    BY <1>4, <1>6 DEF UnlinksOwn, SettingsKnown, RowsCounted, At, AtAny, Settings
  <2> QED
    BY <2>1, <2>2, <2>3 DEF Known
<1> QED
  BY <1>3, <1>4, <1>5, <1>7, BeginsKnown DEF CheckAddress, Settings

LEMMA ReadAddressStep ==
    ASSUME AddressBookAssumption, IInv, NEW w \in Workers, ReadAddress(w)
    PROVE  IInv'
<1>0. PICK a \in Ids : Exists(address[a]) /\ \E f \in Form(address[a].type) :
         Begins(w, [op |-> "update", type |-> f.type, id |-> a, row |-> address[a],
                    new |-> f, old |-> FALSE])
  BY DEF ReadAddress
<1>1. PICK f \in Form(address[a].type) :
         Begins(w, [op |-> "update", type |-> f.type, id |-> a, row |-> address[a],
                    new |-> f, old |-> FALSE])
  BY <1>0
<1> DEFINE j == [op |-> "update", type |-> f.type, id |-> a, row |-> address[a],
                 new |-> f, old |-> FALSE]
<1>2. address[a] \in Address /\ address[a].type \in Type
  BY <1>0 DEF IInv, Typed, Exists, Address
<1>3. /\ f \in Address /\ f.type = address[a].type /\ f.parent \notin OfType("install_at")
      /\ f.filled \/ ~legacy[f.type]
  BY <1>2, FormShape DEF IInv
<1>4. j \in Jobs
  BY <1>2, <1>3 DEF Jobs, UpdateJob
<1>5. j.op = "update" /\ j.type = f.type /\ j.new = f /\ j.id = a
  OBVIOUS
<1>6. Begins(w, j)
  BY <1>1
<1> HIDE DEF j
<1>7. job'[w] = j /\ legacy' = legacy /\ address' = address
  BY <1>4, <1>6, Becomes DEF IInv, Begins, db
<1>8. Known(w)'
  <2>1. ReadsHold(w)'
    BY <1>3, <1>5, <1>7 DEF ReadsHold, At, AtAny, OfType, Exists
  <2>2. Checked(w)'
    BY <1>3, <1>5, <1>7 DEF Checked, AtAny
  <2>3. UnlinksOwn(w)' /\ SettingsKnown(w)' /\ RowsCounted(w)'
    BY <1>5, <1>7 DEF UnlinksOwn, SettingsKnown, RowsCounted, At, AtAny, Settings
  <2> QED
    BY <2>1, <2>2, <2>3 DEF Known
<1> QED
  BY <1>4, <1>5, <1>6, <1>8, BeginsKnown DEF ReadAddress, Settings

\* What a deletion begins with.
LEMMA DeleteBegins ==
    ASSUME IInv, NEW w \in Workers, NEW bulk \in BOOLEAN, NEW ids \in SUBSET Ids,
           Begins(w, Delete(bulk, ids)), UNCHANGED drift
    PROVE  IInv'
<1> DEFINE j == Delete(bulk, ids)
<1>1. << >> \in UNION {[kids -> Address] : kids \in SUBSET Ids}
  <2>1. << >> \in [{} -> Address]
    OBVIOUS
  <2> QED
    BY <2>1
<1>2. j \in Jobs
  BY <1>1 DEF Delete, Jobs, DeleteJob, Deleting
<1>3. j.op = "find"
  BY DEF Delete
<1> HIDE DEF j
<1>4. job'[w] = j
  BY <1>2, Becomes DEF IInv, Begins, j
<1>5. Known(w)'
  BY <1>3, <1>4 DEF Known, ReadsHold, UnlinksOwn, Checked, SettingsKnown, RowsCounted, At, AtAny, Settings
<1> QED
  BY <1>2, <1>3, <1>5, BeginsKnown DEF j, Settings

LEMMA DeletesBegin ==
    ASSUME IInv, NEW w \in Workers, HandleAddressDelete(w) \/ HandleAddressBulkDelete(w)
    PROVE  IInv'
<1>1. CASE HandleAddressDelete(w)
  BY <1>1, DeleteBegins DEF HandleAddressDelete
<1>2. CASE HandleAddressBulkDelete(w)
  <2>1. PICK t \in Type : \E ids \in SUBSET OfType(t) : Begins(w, Delete(TRUE, ids))
    BY <1>2 DEF HandleAddressBulkDelete
  <2>2. OfType(t) \subseteq Ids
    BY DEF OfType
  <2> QED
    BY <1>2, <2>1, <2>2, DeleteBegins DEF HandleAddressBulkDelete
<1> QED
  BY <1>1, <1>2

Links == UNION {[kids -> Address] : kids \in SUBSET Ids}

LEMMA NoLinks == << >> \in Links /\ DOMAIN << >> = {}
<1>1. << >> \in [{} -> Address]
  OBVIOUS
<1> QED
  BY <1>1 DEF Links

LEMMA FindAddressStep ==
    ASSUME IInv, NEW w \in Workers, FindAddress(w)
    PROVE  IInv'
<1>0. At(w, "find") /\ job[w] \in DeleteJob
  BY HeldByOp DEF IInv, FindAddress, At, AtAny, Deleting
<1>1. PICK a \in job[w].todo :
        Goes(w, [job[w] EXCEPT !.todo = @ \ {a},
            !.op = IF Exists(address[a]) THEN "unlink" ELSE "find",
            !.id = IF Exists(address[a]) THEN a ELSE None,
            !.left = IF a \in OfType("ship_to")
                     THEN [k \in linkedInstallAt(a) |-> address[k]] ELSE << >>])
  BY DEF FindAddress
<1> DEFINE left == IF a \in OfType("ship_to")
                   THEN [k \in linkedInstallAt(a) |-> address[k]] ELSE << >>
           j == [job[w] EXCEPT !.todo = @ \ {a},
                    !.op = IF Exists(address[a]) THEN "unlink" ELSE "find",
                    !.id = IF Exists(address[a]) THEN a ELSE None,
                    !.left = left]
<1>2. a \in Ids
  BY <1>0 DEF DeleteJob
<1>3. left \in Links /\ \A k \in DOMAIN left : left[k].parent = a
  <2>1. CASE a \in OfType("ship_to")
    <3>1. linkedInstallAt(a) \subseteq Ids
      BY DEF linkedInstallAt, OfType
    <3>2. \A k \in linkedInstallAt(a) : address[k] \in Address /\ address[k].parent = a
      BY DEF linkedInstallAt, OfType, IInv, Typed, Exists
    <3> QED
      BY <2>1, <3>1, <3>2 DEF Links
  <2>2. CASE a \notin OfType("ship_to")
    BY <2>2, NoLinks
  <2> QED
    BY <2>1, <2>2
<1> HIDE DEF left
<1>4. /\ j \in DeleteJob
      /\ j.op = (IF Exists(address[a]) THEN "unlink" ELSE "find")
      /\ j.op = "unlink" => j.id = a
      /\ j.left = left
  BY <1>0, <1>2, <1>3 DEF DeleteJob, Deleting, Links
<1>5. Goes(w, j)
  BY <1>1 DEF left
<1> HIDE DEF j
<1>6. j \in Jobs
  BY <1>4 DEF Jobs
<1>7. job'[w] = j
  BY <1>5, <1>6, Becomes DEF IInv, Goes
<1>8. Known(w)'
  BY <1>2, <1>3, <1>4, <1>7
     DEF Known, ReadsHold, UnlinksOwn, Checked, SettingsKnown, RowsCounted, At, AtAny, Settings
<1>9. LeftAlone(w) = {} /\ ~AtAny(w, {"readLegacy", "saveLegacy"}) /\ j.op \notin Settings
  BY <1>0, <1>4 DEF LeftAlone, At, AtAny, Settings
<1>10. /\ UNCHANGED <<db, meant, older, excused, drift>> /\ job' = [job EXCEPT ![w] = j]
  BY <1>5 DEF FindAddress, ghosts, Goes
<1>11. excused \subseteq Ids /\ drift \subseteq Type
  BY DEF IInv, Typed
<1> QED
  BY <1>6, <1>8, <1>9, <1>10, <1>11, GoesOn

\* Requests that end where nothing is left to be done.
LEMMA EndsStep ==
    ASSUME IInv, NEW w \in Workers, DeleteEnds(w) \/ ReportImport(w)
    PROVE  IInv'
<1>1. /\ job' = [job EXCEPT ![w] = Idle]
      /\ UNCHANGED <<db, meant, older, excused, drift>>
  BY DEF DeleteEnds, ReportImport, Goes, ghosts
<1>2. LeftAlone(w) = {} /\ ~AtAny(w, {"readLegacy", "saveLegacy"})
  BY DEF DeleteEnds, ReportImport, LeftAlone, At, AtAny
<1>3. Known(w)'
  BY <1>1, IdleIsKnown, IdleIsJob, Becomes DEF IInv
<1>4. Idle.op \notin Settings /\ excused \subseteq Ids /\ drift \subseteq Type
  BY DEF Idle, Settings, IInv, Typed
<1> QED
  BY <1>1, <1>2, <1>3, <1>4, IdleIsJob, GoesOn

LEMMA UnlinkFailsStep ==
    ASSUME IInv, NEW w \in Workers, UnlinkFails(w)
    PROVE  IInv'
<1>0. At(w, "unlink") /\ job[w] \in DeleteJob /\ job[w].id \in Ids
  BY HeldByOp DEF IInv, UnlinkFails, At, AtAny, Deleting, UnlinksOwn
<1> DEFINE j == IF job[w].bulk THEN [job[w] EXCEPT !.left = << >>] ELSE Idle
<1>1. j \in Jobs /\ (j = Idle \/ (j.op = "unlink" /\ j.id = job[w].id /\ j.left = << >>))
  <2>1. CASE job[w].bulk
    BY <1>0, <2>1, NoLinks DEF Jobs, DeleteJob, Links, At
  <2>2. CASE ~job[w].bulk
    BY <2>2, IdleIsJob
  <2> QED
    BY <2>1, <2>2
<1>2. /\ job' = [job EXCEPT ![w] = j] /\ UNCHANGED <<db, meant, older, drift>>
      /\ excused' = excused \cup LeftAlone(w)
  BY DEF UnlinkFails, Goes
<1> HIDE DEF j
<1>3. job'[w] = j
  BY <1>1, <1>2, Becomes DEF IInv
<1>4. Known(w)'
  <2>1. CASE j = Idle
    BY <1>3, <2>1, IdleIsKnown
  <2>2. CASE j.op = "unlink" /\ j.id = job[w].id /\ j.left = << >>
    BY <1>0, <1>3, <2>2, NoLinks
       DEF Known, ReadsHold, UnlinksOwn, Checked, SettingsKnown, RowsCounted, At, AtAny, Settings
  <2> QED
    BY <1>1, <2>1, <2>2
<1>5. excused' \subseteq Ids /\ drift' \subseteq Type /\ LeftAlone(w) \subseteq excused'
  BY <1>2 DEF LeftAlone, IInv, Typed
<1>6. ~AtAny(w, {"readLegacy", "saveLegacy"}) /\ j.op \notin Settings
  BY <1>0, <1>1 DEF At, AtAny, Settings, Idle
<1> QED
  BY <1>1, <1>2, <1>4, <1>5, <1>6, GoesOn

LEMMA CommitImportStep ==
    ASSUME AddressBookAssumption, IInv, NEW w \in Workers, CommitAddressImport(w)
    PROVE  IInv'
<1>1. PICK f \in Files :
        /\ \A i \in DOMAIN f.rows : RowIsValid(f.type, f.rows[i])
        /\ Begins(w, [op |-> "lookup", type |-> f.type, rows |-> f.rows, old |-> FALSE])
  BY DEF CommitAddressImport
<1> DEFINE j == [op |-> "lookup", type |-> f.type, rows |-> f.rows, old |-> FALSE]
<1>2. f.type \in Type /\ f.rows \in Seq(FileRow)
  BY AddressBookAssumption DEF AddressBookAssumption
<1>3. j \in Jobs
  BY <1>2 DEF Jobs, LookupJob
<1>4. j.op = "lookup" /\ j.type = f.type /\ j.rows = f.rows
  OBVIOUS
<1>5. Begins(w, j)
  BY <1>1
<1> HIDE DEF j
<1>6. job'[w] = j /\ legacy' = legacy
  BY <1>3, <1>5, Becomes DEF IInv, Begins, db
<1>7. ~legacy[f.type] \/ \A i \in DOMAIN f.rows : f.rows[i].filled
  BY <1>1 DEF RowIsValid, ValidateAddress
<1>8. Checked(w)'
  BY <1>4, <1>6, <1>7 DEF Checked, AtAny
<1>9. Known(w)'
  BY <1>4, <1>6, <1>8 DEF Known, ReadsHold, UnlinksOwn, SettingsKnown, RowsCounted, At, AtAny, Settings
<1> QED
  BY <1>3, <1>4, <1>5, <1>9, BeginsKnown DEF CommitAddressImport, Settings

\* A request that is in the middle of an import has no link or rule in hand.
LEMMA ImportGoesOn ==
    ASSUME IInv, NEW w \in Workers, AtAny(w, {"lookup", "chunk"}),
           NEW j \in Jobs, j.op = "chunk", Goes(w, j), UNCHANGED <<db, ghosts>>, Known(w)'
    PROVE  IInv'
<1>1. LeftAlone(w) = {} /\ ~AtAny(w, {"readLegacy", "saveLegacy"})
  BY DEF LeftAlone, At, AtAny
<1>2. j.op \notin Settings /\ excused \subseteq Ids /\ drift \subseteq Type
  BY DEF Settings, IInv, Typed
<1>3. job' = [job EXCEPT ![w] = j] /\ UNCHANGED <<db, meant, older, excused, drift>>
  BY DEF Goes, ghosts
<1> QED
  BY <1>1, <1>2, <1>3, GoesOn

LEMMA BuildLookupStep ==
    ASSUME IInv, NEW w \in Workers, BuildLookup(w)
    PROVE  IInv'
<1>0. At(w, "lookup") /\ job[w] \in LookupJob
  BY HeldByOp DEF IInv, BuildLookup
<1>1. PICK lookup \in [{n \in Names : Named(n) # {}} -> OfType("ship_to")] :
        Goes(w, [op |-> "chunk", type |-> job[w].type, rows |-> job[w].rows, old |-> job[w].old,
                    lookup |-> IF job[w].type = "install_at" THEN lookup ELSE << >>,
                    next |-> 1, imported |-> 0, failed |-> 0, entered |-> {}])
  BY DEF BuildLookup
<1> DEFINE known == IF job[w].type = "install_at" THEN lookup ELSE << >>
           j == [op |-> "chunk", type |-> job[w].type, rows |-> job[w].rows, old |-> job[w].old,
                 lookup |-> known, next |-> 1, imported |-> 0, failed |-> 0, entered |-> {}]
<1>2. /\ known \in UNION {[names -> Ids] : names \in SUBSET Names}
      /\ \A n \in DOMAIN known : known[n] \notin OfType("install_at")
  <2>1. CASE job[w].type = "install_at"
    <3> DEFINE names == {n \in Names : Named(n) # {}}
    <3>1. known = lookup /\ lookup \in [names -> OfType("ship_to")] /\ names \in SUBSET Names
      BY <2>1
    <3> HIDE DEF names, known
    <3>2. OfType("ship_to") \subseteq Ids /\ OfType("ship_to") \cap OfType("install_at") = {}
      BY DEF OfType
    <3>3. lookup \in [names -> Ids]
      BY <3>1, <3>2
    <3> QED
      BY <3>1, <3>2, <3>3
  <2>2. CASE job[w].type # "install_at"
    <3>1. << >> \in [{} -> Ids] /\ DOMAIN << >> = {}
      BY NoLinks
    <3> QED
      BY <2>2, <3>1
  <2> QED
    BY <2>1, <2>2
<1> HIDE DEF known
<1>3. j \in Jobs
  BY <1>0, <1>2 DEF Jobs, LookupJob, ChunkJob
<1>4. /\ j.op = "chunk" /\ j.type = job[w].type /\ j.rows = job[w].rows /\ j.old = job[w].old
      /\ j.lookup = known /\ j.next = 1 /\ j.imported = 0 /\ j.failed = 0 /\ j.entered = {}
  OBVIOUS
<1>5. Goes(w, j) /\ UNCHANGED <<db, ghosts>>
  BY <1>1 DEF known, BuildLookup
<1> HIDE DEF j
<1>6. job'[w] = j /\ legacy' = legacy /\ address' = address
  BY <1>3, <1>5, Becomes DEF IInv, Goes, db
<1>7. Known(w)'
  <2>1. ReadsHold(w)'
    BY <1>2, <1>4, <1>6 DEF ReadsHold, At, AtAny, OfType, Exists
  <2>2. Checked(w)'
    BY <1>0, <1>4, <1>6 DEF Checked, AtAny, At, IInv
  <2>3. RowsCounted(w)'
    <3>1. Len(job[w].rows) \in Nat
      BY <1>0 DEF LookupJob
    <3>2. 0 + 0 = IF 1 <= Len(job[w].rows) THEN 1 - 1 ELSE Len(job[w].rows)
      BY <3>1
    <3>3. Cardinality({}) = 0
      BY FS_EmptySet
    <3> QED
      BY <1>4, <1>6, <3>2, <3>3 DEF RowsCounted
  <2>4. UnlinksOwn(w)' /\ SettingsKnown(w)'
    BY <1>4, <1>6 DEF UnlinksOwn, SettingsKnown, At, AtAny, Settings
  <2> QED
    BY <2>1, <2>2, <2>3, <2>4 DEF Known
<1>8. AtAny(w, {"lookup", "chunk"})
  BY <1>0 DEF At, AtAny
<1> QED
  BY <1>3, <1>4, <1>5, <1>7, <1>8, ImportGoesOn

\* A chunk is the rows from next on that are left, batch size at the most.
LEMMA ChunkSize ==
    ASSUME AddressBookAssumption, NEW from \in Nat \ {0}, NEW rows \in Seq(FileRow),
           from <= Len(rows)
    PROVE  /\ Chunk(from, rows) \subseteq DOMAIN rows
           /\ IsFiniteSet(Chunk(from, rows))
           /\ \A i \in Chunk(from, rows) : i \in Nat /\ from <= i /\ i < from + importBatchSize
           /\ Cardinality(Chunk(from, rows)) =
                 IF from + importBatchSize <= Len(rows) THEN importBatchSize
                 ELSE Len(rows) - from + 1
<1> DEFINE to == IF from + importBatchSize <= Len(rows) THEN from + importBatchSize - 1
                 ELSE Len(rows)
<1>1. /\ importBatchSize \in Nat \ {0} /\ Len(rows) \in Nat /\ DOMAIN rows = 1..Len(rows)
      /\ to \in Int
  BY AddressBookAssumption DEF AddressBookAssumption
<1>2. Chunk(from, rows) = from..to
  BY <1>1 DEF Chunk
<1>3. IsFiniteSet(from..to) /\ Cardinality(from..to) = to - from + 1
  <2> HIDE DEF to
  <2>0. from \in Int /\ to \in Int
    BY <1>1
  <2>1. IsFiniteSet(from..to) /\ Cardinality(from..to) = IF from > to THEN 0 ELSE to - from + 1
    BY <2>0, FS_Interval
  <2> USE DEF to
  <2> QED
    BY <1>1, <2>1
<1> QED
  BY <1>1, <1>2, <1>3

\* The job of an import whose chunk went well or not.
Past(j, chunk, good) == [j EXCEPT
    !.next = @ + importBatchSize,
    !.imported = @ + (IF good THEN Cardinality(chunk) ELSE 0),
    !.failed = @ + (IF good THEN 0 ELSE Cardinality(chunk)),
    !.entered = @ \cup (IF good THEN chunk ELSE {})]

LEMMA ChunkCounted ==
    ASSUME AddressBookAssumption, IInv, NEW w \in Workers, At(w, "chunk"),
           job[w].next <= Len(job[w].rows), NEW good \in BOOLEAN,
           NEW chunk, chunk = Chunk(job[w].next, job[w].rows),
           NEW j, j = Past(job[w], chunk, good), job'[w] = j
    PROVE  /\ j \in Jobs /\ j.op = "chunk" /\ j.type = job[w].type
           /\ j.rows = job[w].rows /\ j.old = job[w].old /\ j.lookup = job[w].lookup
           /\ RowsCounted(w)'
<1> DEFINE n == job[w].next  rows == job[w].rows  len == Len(job[w].rows)
           size == Cardinality(chunk)
<1>1. job[w] \in ChunkJob /\ n \in Nat \ {0} /\ rows \in Seq(FileRow) /\ n <= len
  BY HeldByOp DEF IInv, ChunkJob
<1>2. importBatchSize \in Nat \ {0} /\ len \in Nat
  BY <1>1, AddressBookAssumption DEF AddressBookAssumption
<1>3. /\ chunk \subseteq DOMAIN rows /\ IsFiniteSet(chunk)
      /\ \A i \in chunk : i \in Nat /\ n <= i /\ i < n + importBatchSize
      /\ size = IF n + importBatchSize <= len THEN importBatchSize ELSE len - n + 1
  BY <1>1, ChunkSize
<1>4. size \in Nat
  BY <1>1, <1>2, <1>3
<1>5. /\ job[w].entered \subseteq DOMAIN rows
      /\ \A i \in job[w].entered : i < n
      /\ job[w].imported = Cardinality(job[w].entered)
      /\ job[w].imported + job[w].failed = n - 1
  BY <1>1 DEF IInv, RowsCounted
<1>6. /\ j \in ChunkJob
      /\ j.next = n + importBatchSize
      /\ j.imported = job[w].imported + (IF good THEN size ELSE 0)
      /\ j.failed = job[w].failed + (IF good THEN 0 ELSE size)
      /\ j.entered = job[w].entered \cup (IF good THEN chunk ELSE {})
      /\ j.type = job[w].type /\ j.rows = rows /\ j.old = job[w].old
      /\ j.lookup = job[w].lookup /\ j.op = "chunk"
  <2> HIDE DEF size, n
  <2>1. /\ job[w].imported + (IF good THEN size ELSE 0) \in Nat
        /\ job[w].failed + (IF good THEN 0 ELSE size) \in Nat
        /\ n + importBatchSize \in Nat \ {0}
    BY <1>1, <1>2, <1>4 DEF ChunkJob
  <2>2. job[w].entered \cup (IF good THEN chunk ELSE {}) \in SUBSET Nat
    BY <1>1, <1>3 DEF ChunkJob
  <2> DEFINE i1 == job[w].imported + (IF good THEN size ELSE 0)
             f1 == job[w].failed + (IF good THEN 0 ELSE size)
             n1 == n + importBatchSize
             e1 == job[w].entered \cup (IF good THEN chunk ELSE {})
  <2>3. j = [job[w] EXCEPT !.next = n1, !.imported = i1, !.failed = f1, !.entered = e1]
    BY DEF Past, size, n
  <2>4. i1 \in Nat /\ f1 \in Nat /\ n1 \in Nat \ {0} /\ e1 \in SUBSET Nat
    BY <2>1, <2>2
  <2> HIDE DEF i1, f1, n1, e1
  <2>5. /\ j \in ChunkJob /\ j.next = n1 /\ j.imported = i1 /\ j.failed = f1 /\ j.entered = e1
        /\ j.type = job[w].type /\ j.rows = job[w].rows /\ j.old = job[w].old
        /\ j.lookup = job[w].lookup /\ j.op = "chunk"
    BY <1>1, <2>3, <2>4 DEF ChunkJob
  <2> QED
    BY <2>5 DEF i1, f1, n1, e1
<1>7. IsFiniteSet(job[w].entered)
  <2>1. IsFiniteSet(1..len)
    BY <1>2, FS_Interval
  <2>2. job[w].entered \in SUBSET (1..len)
    BY <1>1, <1>5
  <2> QED
    BY <2>1, <2>2, FS_Subset
<1>8. Cardinality(j.entered) = j.imported
  <2>1. CASE good
    <3>1. job[w].entered \cap chunk = {}
      <4>1. \A i \in job[w].entered : i \in Nat /\ i < n
        BY <1>1, <1>5
      <4> QED
        BY <1>1, <1>3, <4>1
    <3>2. Cardinality({}) = 0
      BY FS_EmptySet
    <3>3. Cardinality(job[w].entered \cup chunk) =
             Cardinality(job[w].entered) + Cardinality(chunk) - Cardinality(job[w].entered \cap chunk)
      BY <1>3, <1>7, FS_Union
    <3>4. Cardinality(job[w].entered) \in Nat
      BY <1>7, FS_CardinalityType
    <3>5. j.entered = job[w].entered \cup chunk /\ j.imported = Cardinality(job[w].entered) + size
      BY <1>5, <1>6, <2>1
    <3>6. Cardinality(job[w].entered \cap chunk) = 0
      BY <3>1, <3>2
    <3>7. Cardinality(job[w].entered \cup chunk) = Cardinality(job[w].entered) + Cardinality(chunk)
      BY <1>4, <3>3, <3>4, <3>6
    <3> QED
      BY <3>5, <3>7
  <2>2. CASE ~good
    <3>1. job[w].imported \in Nat
      BY <1>1 DEF ChunkJob
    <3> QED
      BY <1>5, <1>6, <2>2, <3>1
  <2> QED
    BY <2>1, <2>2
<1>9. j.entered \subseteq DOMAIN j.rows /\ \A i \in j.entered : i < j.next
  <2>1. \A i \in job[w].entered : i \in Nat /\ i < n
    BY <1>1, <1>5
  <2> QED
    BY <1>1, <1>2, <1>3, <1>5, <1>6, <2>1
<1>10. j.imported + j.failed = IF j.next <= Len(j.rows) THEN j.next - 1 ELSE Len(j.rows)
  <2>1. job[w].imported \in Nat /\ job[w].failed \in Nat
    BY <1>1 DEF ChunkJob
  <2>2. j.imported + j.failed = job[w].imported + job[w].failed + size
    BY <1>4, <1>6, <2>1
  <2>3. job[w].imported + job[w].failed = n - 1 /\ j.next = n + importBatchSize /\ j.rows = rows
    BY <1>5, <1>6
  <2>4. j.imported + j.failed = n - 1 + size
    BY <2>2, <2>3
  <2>5. size = IF j.next <= len THEN importBatchSize ELSE len - n + 1
    BY <1>3, <2>3
  <2> HIDE DEF n, size, len
  <2>6. n \in Nat /\ importBatchSize \in Nat /\ len \in Nat /\ size \in Nat /\ j.next = n + importBatchSize
    BY <1>1, <1>2, <1>4, <2>3 DEF n
  <2>7. j.imported + j.failed = IF j.next <= len THEN j.next - 1 ELSE len
    BY <2>4, <2>5, <2>6
  <2> QED
    BY <2>3, <2>7 DEF len
<1>11. RowsCounted(w)'
  BY <1>8, <1>9, <1>10 DEF RowsCounted
<1> QED
  BY <1>6, <1>11 DEF Jobs

LEMMA RollBackStep ==
    ASSUME AddressBookAssumption, IInv, NEW w \in Workers, RollBackChunk(w)
    PROVE  IInv'
<1> DEFINE chunk == Chunk(job[w].next, job[w].rows)
           j == Past(job[w], chunk, FALSE)
<1>1. At(w, "chunk") /\ job[w].next <= Len(job[w].rows)
  BY DEF RollBackChunk
<1>2. Goes(w, j) /\ UNCHANGED <<db, ghosts>>
  BY DEF RollBackChunk, Counts, Past
<1> HIDE DEF j
<1>3. job'[w] = j /\ address' = address /\ legacy' = legacy
  <2>1. w \in DOMAIN job
    BY DEF IInv, Typed
  <2> QED
    BY <1>2, <2>1 DEF Goes, db
<1>4. /\ j \in Jobs /\ j.op = "chunk" /\ j.type = job[w].type
      /\ j.rows = job[w].rows /\ j.old = job[w].old /\ j.lookup = job[w].lookup
      /\ RowsCounted(w)'
  BY <1>1, <1>3, ChunkCounted DEF j
<1>5. Known(w)'
  <2>1. ReadsHold(w)'
    BY <1>1, <1>3, <1>4 DEF IInv, ReadsHold, At, AtAny, OfType, Exists
  <2>2. Checked(w)'
    BY <1>1, <1>3, <1>4 DEF IInv, Checked, At, AtAny
  <2>3. UnlinksOwn(w)' /\ SettingsKnown(w)'
    BY <1>3, <1>4 DEF UnlinksOwn, SettingsKnown, At, AtAny, Settings
  <2> QED
    BY <1>4, <2>1, <2>2, <2>3 DEF Known
<1>6. AtAny(w, {"lookup", "chunk"})
  BY <1>1 DEF At, AtAny
<1> QED
  BY <1>2, <1>4, <1>5, <1>6, ImportGoesOn

-----------------------------------------------------------------------------
\* The settings.
LEMMA TypesHead ==
    /\ Types \in Seq(Type) /\ Head(Types) = "ship_to" /\ Tail(Types) = <<"install_at">>
    /\ Len(Types) = 2 /\ Len(<<"install_at">>) = 1 /\ Head(<<"install_at">>) = "install_at"
BY DEF Types, Type

LEMMA RuleIsType ==
    ASSUME Typed, NEW w \in Workers, AtAny(w, Settings)
    PROVE  RuleAt(w) \in Type
BY HeldByOp, TypesHead DEF RuleAt, SettingsJob, Type

LEMMA ReadRuleStep ==
    ASSUME IInv, NEW w \in Workers, ReadConfig(w) \/ ReadLegacy(w)
    PROVE  IInv'
<1>0. AtAny(w, Settings) /\ job[w] \in SettingsJob
  BY HeldByOp DEF IInv, ReadConfig, ReadLegacy, ReadRule, At, AtAny, Settings
<1>1. RuleAt(w) \in Type
  BY <1>0, RuleIsType DEF IInv
<1>2. PICK next \in {"saveConfig", "saveLegacy"}, read \in BOOLEAN :
        /\ job' = [job EXCEPT ![w] = [job[w] EXCEPT !.op = next, !.read = read]]
        /\ \/ At(w, "readConfig") /\ next = "saveConfig" /\ read = config[RuleAt(w)]
           \/ At(w, "readLegacy") /\ next = "saveLegacy" /\ read = legacy[RuleAt(w)]
  <2>1. config[RuleAt(w)] \in BOOLEAN /\ legacy[RuleAt(w)] \in BOOLEAN
    BY <1>1 DEF IInv, Typed
  <2> QED
    BY <2>1 DEF ReadConfig, ReadLegacy, ReadRule, Goes, RuleAt
<1> DEFINE j == [job[w] EXCEPT !.op = next, !.read = read]
<1>3. /\ j \in SettingsJob /\ j.op = next /\ j.read = read /\ j.todo = job[w].todo
      /\ j.req = job[w].req /\ j.alone = job[w].alone
  BY <1>0 DEF SettingsJob, Settings
<1>4. job' = [job EXCEPT ![w] = j]
  BY <1>2
<1> HIDE DEF j
<1>5. j \in Jobs
  BY <1>3 DEF Jobs
<1>6. job'[w] = j /\ \A u \in Workers : u # w => job'[u] = job[u]
  BY <1>4, <1>5, Becomes DEF IInv
<1>7. UNCHANGED <<db, meant, older, excused, drift>> /\ excused \subseteq Ids /\ drift \subseteq Type
  BY DEF ReadConfig, ReadLegacy, ReadRule, ghosts, IInv, Typed
<1>8. SettingsKnown(w)'
  <2>1. CASE ~job[w].alone
    <3>1. drift' = Type
      BY <1>0, <1>7, <2>1 DEF IInv, SettingsKnown
    <3>2. ~job'[w].alone
      BY <1>3, <1>6, <2>1
    <3> QED
      BY <3>1, <3>2, Zenon DEF SettingsKnown
  <2>2. CASE job[w].alone
    <3>1. \A u \in Workers : AtAny(u, Settings)' => u = w
      BY <1>0, <1>6, <2>2 DEF IInv, SettingsKnown, AtAny
    <3>2. RuleAt(w)' = RuleAt(w) /\ config' = config /\ legacy' = legacy
      BY <1>3, <1>6, <1>7 DEF RuleAt, db
    <3>3. At(w, "saveConfig")' => job'[w].read = config'[RuleAt(w)']
      BY <1>2, <1>3, <1>6, <3>2 DEF At
    <3>4. AtAny(w, {"readLegacy", "saveLegacy"})' => config'[RuleAt(w)'] = job'[w].req[RuleAt(w)']
      <4>1. AtAny(w, {"readLegacy", "saveLegacy"})' => At(w, "readLegacy")
        BY <1>2, <1>3, <1>6 DEF At, AtAny
      <4>2. At(w, "readLegacy") => config[RuleAt(w)] = job[w].req[RuleAt(w)]
        BY <1>0, <2>2 DEF IInv, SettingsKnown, At, AtAny
      <4> QED
        BY <1>3, <1>6, <3>2, <4>1, <4>2
    <3>5. At(w, "saveLegacy")' => job'[w].read = legacy'[RuleAt(w)']
      BY <1>2, <1>3, <1>6, <3>2 DEF At
    <3>6. job'[w].alone
      BY <1>3, <1>6, <2>2
    <3> QED
      BY <3>1, <3>3, <3>4, <3>5, <3>6, Zenon DEF SettingsKnown
  <2> QED
    BY <2>1, <2>2
<1>9. Known(w)'
  BY <1>3, <1>6, <1>8 DEF Known, ReadsHold, UnlinksOwn, Checked, RowsCounted, At, AtAny, Settings
<1>10. LeftAlone(w) = {}
  BY <1>0 DEF LeftAlone, At, AtAny, Settings
<1>11. AtAny(w, {"readLegacy", "saveLegacy"}) =>
          j.op \in {"readLegacy", "saveLegacy"} /\ Head(j.todo) = RuleAt(w)
  BY <1>2, <1>3 DEF At, AtAny, RuleAt
<1> QED
  BY <1>0, <1>4, <1>5, <1>7, <1>9, <1>10, <1>11, GoesOn

\* What a save of the settings goes on with: the next type, if there is one.
LEMMA NextRule ==
    ASSUME IInv, NEW w \in Workers, AtAny(w, Settings)
    PROVE  /\ SettingsNext(w) \in Jobs
           /\ \/ SettingsNext(w) = Idle
              \/ /\ SettingsNext(w).op = "readConfig"
                 /\ SettingsNext(w).alone = job[w].alone
<1>1. job[w] \in SettingsJob
  BY HeldByOp DEF IInv
<1>2. CASE Len(job[w].todo) = 1
  BY <1>2, IdleIsJob DEF SettingsNext
<1>3. CASE Len(job[w].todo) # 1
  <2>1. job[w].todo = Types /\ Tail(job[w].todo) = <<"install_at">>
    BY <1>1, <1>3, TypesHead DEF SettingsJob
  <2>2. SettingsNext(w) = [job[w] EXCEPT !.op = "readConfig", !.todo = <<"install_at">>]
    BY <1>3, <2>1 DEF SettingsNext
  <2>3. [job[w] EXCEPT !.op = "readConfig", !.todo = <<"install_at">>] \in SettingsJob
    BY <1>1 DEF SettingsJob, Settings
  <2> QED
    BY <1>1, <2>2, <2>3 DEF Jobs, SettingsJob
<1> QED
  BY <1>2, <1>3

\* Whoever saved the settings last knows nothing of the next type yet.
LEMMA NextRuleKnown ==
    ASSUME IInv, NEW w \in Workers, AtAny(w, Settings), job'[w] = SettingsNext(w),
           \A u \in Workers : u # w => job'[u].op = job[u].op,
           ~job[w].alone => drift' = Type
    PROVE  Known(w)'
<1>1. CASE SettingsNext(w) = Idle
  BY <1>1, IdleIsKnown
<1>2. CASE SettingsNext(w).op = "readConfig" /\ SettingsNext(w).alone = job[w].alone
  <2>1. SettingsKnown(w)'
    <3>1. CASE ~job[w].alone
      <4>1. drift' = Type /\ ~job'[w].alone
        BY <1>2, <3>1
      <4> QED
        BY <4>1, Zenon DEF SettingsKnown
    <3>2. CASE job[w].alone
      <4>1. \A u \in Workers : AtAny(u, Settings)' => u = w
        BY <3>2 DEF IInv, SettingsKnown, AtAny
      <4>2. ~At(w, "saveConfig")' /\ ~At(w, "saveLegacy")' /\ ~AtAny(w, {"readLegacy", "saveLegacy"})'
        BY <1>2 DEF At, AtAny
      <4> QED
        BY <1>2, <3>2, <4>1, <4>2 DEF SettingsKnown
    <3> QED
      BY <3>1, <3>2
  <2> QED
    BY <1>2, <2>1 DEF Known, ReadsHold, UnlinksOwn, Checked, RowsCounted, At, AtAny, Settings
<1> QED
  BY <1>1, <1>2, NextRule

LEMMA SyncFailsStep ==
    ASSUME IInv, NEW w \in Workers, SyncFails(w)
    PROVE  IInv'
<1>0. At(w, "saveLegacy") /\ AtAny(w, Settings)
  BY DEF SyncFails, At, AtAny, Settings
<1>1. RuleAt(w) \in Type
  BY <1>0, RuleIsType DEF IInv
<1>2. /\ job' = [job EXCEPT ![w] = SettingsNext(w)]
      /\ drift' = drift \cup {RuleAt(w)} /\ UNCHANGED <<db, meant, excused, older>>
  BY DEF SyncFails, Goes, RuleAt
<1>3. SettingsNext(w) \in Jobs
  BY <1>0, NextRule
<1>4. job'[w] = SettingsNext(w) /\ \A u \in Workers : u # w => job'[u] = job[u]
  BY <1>2, <1>3, Becomes DEF IInv
<1>5. drift \subseteq Type /\ excused \subseteq Ids /\ LeftAlone(w) = {}
  BY <1>0 DEF IInv, Typed, LeftAlone, At
<1>6. ~job[w].alone => drift' = Type
  BY <1>0, <1>1, <1>2 DEF IInv, SettingsKnown
<1>7. Known(w)'
  BY <1>0, <1>4, <1>6, NextRuleKnown
<1> QED
  BY <1>0, <1>1, <1>2, <1>3, <1>5, <1>7, GoesOn

LEMMA SettingsSaveStep ==
    ASSUME IInv, NEW w \in Workers, HandleProjectSettingsSave(w)
    PROVE  IInv'
<1> DEFINE others == {v \in Workers : AtAny(v, Settings)}
<1>1. PICK req \in [Type -> BOOLEAN] :
        job' = [v \in Workers |->
            IF v = w THEN [op |-> "readConfig", req |-> req, todo |-> Types, read |-> FALSE,
                           alone |-> others = {}]
            ELSE IF v \in others THEN [job[v] EXCEPT !.alone = FALSE] ELSE job[v]]
  BY DEF HandleProjectSettingsSave
<1>2. /\ At(w, "idle") /\ w \notin others
      /\ drift' = (IF others = {} THEN drift ELSE Type)
      /\ UNCHANGED <<db, meant, excused, older>>
  BY DEF HandleProjectSettingsSave, At, AtAny, Settings
<1> HIDE DEF others
<1>3. /\ job'[w] \in SettingsJob /\ job'[w].op = "readConfig" /\ (job'[w].alone <=> others = {})
  BY <1>1 DEF SettingsJob, Settings
<1>4. ASSUME NEW v \in Workers, v \in others
      PROVE  /\ job'[v] \in SettingsJob /\ job'[v].op = job[v].op /\ job'[v].todo = job[v].todo
             /\ ~job'[v].alone
  <2>1. job[v] \in SettingsJob
    BY <1>4, HeldByOp DEF IInv, others
  <2>2. job'[v] = [job[v] EXCEPT !.alone = FALSE]
    BY <1>1, <1>2, <1>4
  <2>3. [job[v] EXCEPT !.alone = FALSE] \in SettingsJob
    BY <2>1 DEF SettingsJob
  <2> QED
    BY <2>1, <2>2, <2>3 DEF SettingsJob
<1>5. \A v \in Workers : v # w /\ v \notin others => job'[v] = job[v]
  BY <1>1
<1>6. Typed'
  <2>1. job' = [v \in Workers |-> job'[v]]
    BY <1>1
  <2>2. \A v \in Workers : job'[v] \in Jobs
    BY <1>3, <1>4, <1>5 DEF IInv, Typed, Jobs
  <2>3. job' \in [Workers -> Jobs]
    BY <2>1, <2>2
  <2> QED
    BY <1>2, <2>3 DEF IInv, Typed, db
<1>7. ParentsLive' /\ RequiredAtEntry'
  BY <1>2 DEF IInv, ParentsLive, RequiredAtEntry, OfType, Exists, db
<1>8. \A v \in Workers : v # w => job'[v].op = job[v].op /\ (v \in others \/ job'[v] = job[v])
  BY <1>4, <1>5
<1>9. LinkedOrUnset'
  <2>1. \A p : Unlinking(p) => Unlinking(p)'
    BY <1>2, <1>8 DEF Unlinking, At, AtAny, Settings, others
  <2> QED
    BY <1>2, <2>1 DEF IInv, LinkedOrUnset, Exists, db
<1>10. RulesAgree'
  <2> SUFFICES ASSUME NEW t \in Type, config[t] # legacy[t], t \notin drift'
               PROVE  \E u \in Workers :
                         AtAny(u, {"readLegacy", "saveLegacy"})' /\ Head(job'[u].todo) = t
    BY <1>2 DEF RulesAgree, db
  <2>1. PICK u \in Workers : AtAny(u, {"readLegacy", "saveLegacy"}) /\ Head(job[u].todo) = t
    BY <1>2 DEF IInv, RulesAgree, Typed
  <2>2. u # w /\ u \in others
    BY <1>2, <2>1 DEF At, AtAny, Settings, others
  <2> QED
    BY <1>4, <2>1, <2>2 DEF AtAny
<1>11. ASSUME NEW v \in Workers PROVE Known(v)'
  <2>1. CASE v = w
    <3>1. SettingsKnown(w)'
      <4>1. CASE others = {}
        <5>1. \A u \in Workers : AtAny(u, Settings)' => u = w
          BY <1>8, <4>1 DEF AtAny, others
        <5> QED
          BY <1>3, <4>1, <5>1 DEF SettingsKnown, At, AtAny
      <4>2. CASE others # {}
        <5>1. drift' = Type /\ ~job'[w].alone
          BY <1>2, <1>3, <4>2
        <5> QED
          BY <5>1, Zenon DEF SettingsKnown
      <4> QED
        BY <4>1, <4>2
    <3> QED
      BY <1>3, <2>1, <3>1 DEF Known, ReadsHold, UnlinksOwn, Checked, RowsCounted, At, AtAny, Settings
  <2>2. CASE v # w /\ v \in others
    <3>1. drift' = Type /\ ~job'[v].alone
      BY <1>2, <1>4, <2>2
    <3>2. SettingsKnown(v)'
      BY <3>1, Zenon DEF SettingsKnown
    <3>3. job'[v].op \in Settings
      BY <1>4, <2>2 DEF others, AtAny
    <3> QED
      BY <3>2, <3>3 DEF Known, ReadsHold, UnlinksOwn, Checked, RowsCounted, At, AtAny, Settings
  <2>3. CASE v # w /\ v \notin others
    <3>1. job'[v] = job[v] /\ ~AtAny(v, Settings)
      BY <1>5, <2>3 DEF others
    <3>2. address' = address /\ legacy' = legacy
      BY <1>2 DEF db
    <3> QED
      BY <3>1, <3>2 DEF IInv, Known, ReadsHold, UnlinksOwn, Checked, SettingsKnown, RowsCounted,
                        OfType, Exists, At, AtAny
  <2> QED
    BY <2>1, <2>2, <2>3
<1> QED
  BY <1>6, <1>7, <1>9, <1>10, <1>11 DEF IInv, Known

LEMMA SaveConfigStep ==
    ASSUME IInv, NEW w \in Workers, SaveConfig(w)
    PROVE  IInv'
<1> DEFINE t == RuleAt(w)
<1>0. At(w, "saveConfig") /\ AtAny(w, Settings) /\ job[w] \in SettingsJob /\ t \in Type
  BY HeldByOp, RuleIsType DEF IInv, SaveConfig, At, AtAny, Settings
<1>1. UNCHANGED <<address, legacy, inUse, meant, excused, older, drift>>
  BY DEF SaveConfig, ghosts
<1>2. LeftAlone(w) = {} /\ excused \subseteq Ids /\ drift \subseteq Type
  BY <1>0 DEF LeftAlone, At, IInv, Typed
<1>3. CASE job' = [job EXCEPT ![w] = Idle] /\ UNCHANGED config
  <2>1. Known(w)'
    BY <1>3, IdleIsKnown, IdleIsJob, Becomes DEF IInv
  <2>2. ~AtAny(w, {"readLegacy", "saveLegacy"}) /\ Idle.op \notin Settings
    BY <1>0 DEF At, AtAny, Idle, Settings
  <2> QED
    BY <1>1, <1>2, <1>3, <2>1, <2>2, IdleIsJob, GoesOn DEF db
<1>4. CASE /\ config' = [config EXCEPT ![t] = Saves(t, job[w].read, job[w].req[t], config)]
           /\ job' = [job EXCEPT ![w] = [job[w] EXCEPT !.op = "readLegacy"]]
  <2> DEFINE j == [job[w] EXCEPT !.op = "readLegacy"]
  <2>1. /\ j \in SettingsJob /\ j.op = "readLegacy" /\ j.todo = job[w].todo
        /\ j.req = job[w].req /\ j.alone = job[w].alone
    BY <1>0 DEF SettingsJob, Settings
  <2>2. j \in Jobs /\ job' = [job EXCEPT ![w] = j]
    BY <1>4, <2>1 DEF Jobs
  <2> HIDE DEF j
  <2>3. job'[w] = j /\ \A u \in Workers : u # w => job'[u] = job[u]
    BY <2>2, Becomes DEF IInv
  <2>4. /\ config' \in [Type -> BOOLEAN] /\ \A s \in Type : s # t => config'[s] = config[s]
        /\ config'[t] = IF job[w].read = job[w].req[t] THEN config[t] ELSE job[w].req[t]
    <3>1. config \in [Type -> BOOLEAN] /\ job[w].req[t] \in BOOLEAN
      BY <1>0 DEF IInv, Typed, SettingsJob
    <3> HIDE DEF t
    <3> QED
      BY <1>0, <1>4, <3>1 DEF Saves
  <2>5. Typed'
    BY <1>1, <2>2, <2>4, Becomes DEF IInv, Typed
  <2>6. ParentsLive' /\ RequiredAtEntry'
    BY <1>1 DEF IInv, ParentsLive, RequiredAtEntry, OfType, Exists
  <2>7. LinkedOrUnset'
    <3>1. \A p : Unlinking(p) => Unlinking(p)'
      BY <1>0, <2>3 DEF Unlinking, At
    <3> QED
      BY <1>1, <3>1 DEF IInv, LinkedOrUnset, Exists
  <2>8. RulesAgree'
    <3> SUFFICES ASSUME NEW s \in Type, config'[s] # legacy[s], s \notin drift
                 PROVE  \E u \in Workers :
                           AtAny(u, {"readLegacy", "saveLegacy"})' /\ Head(job'[u].todo) = s
      BY <1>1 DEF RulesAgree
    <3>1. CASE s = t
      BY <2>1, <2>3, <3>1 DEF AtAny, RuleAt
    <3>2. CASE s # t
      <4>1. config[s] # legacy[s]
        BY <2>4, <3>2
      <4>2. PICK u \in Workers : AtAny(u, {"readLegacy", "saveLegacy"}) /\ Head(job[u].todo) = s
        BY <4>1 DEF IInv, RulesAgree
      <4>3. u # w
        BY <1>0, <4>2 DEF At, AtAny
      <4> QED
        BY <2>3, <4>2, <4>3 DEF AtAny
    <3> QED
      BY <3>1, <3>2
  <2>9. ASSUME NEW v \in Workers PROVE SettingsKnown(v)'
    <3>1. CASE ~AtAny(v, Settings)
      <4>1. v # w
        BY <1>0, <3>1
      <4> QED
        BY <2>3, <3>1, <4>1 DEF SettingsKnown, AtAny
    <3>2. CASE AtAny(v, Settings) /\ ~job[v].alone
      <4>1. drift' = Type /\ ~job'[v].alone
        BY <1>1, <2>1, <2>3, <3>2 DEF IInv, SettingsKnown
      <4> QED
        BY <4>1, Zenon DEF SettingsKnown
    <3>3. CASE AtAny(v, Settings) /\ job[v].alone
      <4>1. v = w /\ \A u \in Workers : AtAny(u, Settings) => u = v
        BY <1>0, <3>3 DEF IInv, SettingsKnown
      <4>2. \A u \in Workers : AtAny(u, Settings)' => u = v
        BY <2>3, <4>1 DEF AtAny
      <4>3. job[w].read = config[t]
        BY <1>0, <3>3, <4>1 DEF IInv, SettingsKnown
      <4>4. config'[t] = job[w].req[t]
        BY <2>4, <4>3
      <4>5. RuleAt(v)' = t
        BY <2>1, <2>3, <4>1 DEF RuleAt
      <4>6. AtAny(v, {"readLegacy", "saveLegacy"})' => config'[RuleAt(v)'] = job'[v].req[RuleAt(v)']
        BY <2>1, <2>3, <4>1, <4>4, <4>5
      <4>7. ~At(v, "saveConfig")' /\ ~At(v, "saveLegacy")' /\ job'[v].alone
        BY <2>1, <2>3, <3>3, <4>1 DEF At
      <4> QED
        BY <4>2, <4>6, <4>7, Zenon DEF SettingsKnown
    <3> QED
      BY <3>1, <3>2, <3>3
  <2>10. ASSUME NEW v \in Workers PROVE Known(v)'
    <3>1. CASE v = w
      BY <2>1, <2>3, <2>9, <3>1
         DEF Known, ReadsHold, UnlinksOwn, Checked, RowsCounted, At, AtAny, Settings
    <3>2. CASE v # w
      BY <1>1, <2>3, <2>9, <3>2
         DEF IInv, Known, ReadsHold, UnlinksOwn, Checked, RowsCounted, OfType, Exists, At, AtAny
    <3> QED
      BY <3>1, <3>2
  <2> QED
    BY <2>5, <2>6, <2>7, <2>8, <2>10 DEF IInv, Known
<1> QED
  BY <1>3, <1>4 DEF SaveConfig, Goes, RuleAt

\* A form or file that the tighter rule finds checked is only marked so.
LEMMA OlderJob ==
    ASSUME IInv, NEW v \in Workers, AtAny(v, Saving),
           job'[v] = [job[v] EXCEPT !.old = TRUE],
           address' = address
    PROVE  /\ job'[v] \in Jobs /\ job'[v].op = job[v].op /\ job'[v].old
           /\ ReadsHold(v)' /\ RowsCounted(v)'
<1> DEFINE j == [job[v] EXCEPT !.old = TRUE]
<1>1. CASE At(v, "save")
  <2>1. job[v] \in SaveJob
    BY <1>1, HeldByOp DEF IInv
  <2>2. j \in SaveJob /\ j.op = "save" /\ j.old /\ j.new = job[v].new /\ j.type = job[v].type
    BY <2>1 DEF SaveJob
  <2> HIDE DEF j
  <2>3. job'[v] = j
    BY DEF j
  <2> QED
    BY <1>1, <2>2, <2>3 DEF IInv, Jobs, ReadsHold, RowsCounted, At, AtAny, OfType, Exists
<1>2. CASE At(v, "update")
  <2>1. job[v] \in UpdateJob
    BY <1>2, HeldByOp DEF IInv
  <2>2. /\ j \in UpdateJob /\ j.op = "update" /\ j.old /\ j.new = job[v].new
        /\ j.type = job[v].type /\ j.id = job[v].id
    BY <2>1 DEF UpdateJob
  <2> HIDE DEF j
  <2>3. job'[v] = j
    BY DEF j
  <2> QED
    BY <1>2, <2>2, <2>3 DEF IInv, Jobs, ReadsHold, RowsCounted, At, AtAny, OfType, Exists
<1>3. CASE At(v, "lookup")
  <2>1. job[v] \in LookupJob
    BY <1>3, HeldByOp DEF IInv
  <2>2. j \in LookupJob /\ j.op = "lookup" /\ j.old
    BY <2>1 DEF LookupJob
  <2> HIDE DEF j
  <2>3. job'[v] = j
    BY DEF j
  <2> QED
    BY <1>3, <2>2, <2>3 DEF IInv, Jobs, ReadsHold, RowsCounted, At, AtAny
<1>4. CASE At(v, "chunk")
  <2>1. job[v] \in ChunkJob
    BY <1>4, HeldByOp DEF IInv
  <2>2. /\ j \in ChunkJob /\ j.op = "chunk" /\ j.old /\ j.lookup = job[v].lookup
        /\ j.rows = job[v].rows /\ j.next = job[v].next /\ j.imported = job[v].imported
        /\ j.failed = job[v].failed /\ j.entered = job[v].entered
    BY <2>1 DEF ChunkJob
  <2> HIDE DEF j
  <2>3. job'[v] = j
    BY DEF j
  <2> QED
    BY <1>4, <2>2, <2>3 DEF IInv, Jobs, ReadsHold, RowsCounted, At, AtAny, OfType, Exists
<1> QED
  BY <1>1, <1>2, <1>3, <1>4 DEF AtAny, At, Saving

LEMMA SaveLegacyStep ==
    ASSUME IInv, NEW w \in Workers, SaveLegacy(w)
    PROVE  IInv'
<1> DEFINE t == RuleAt(w)
           new == Saves(t, job[w].read, job[w].req[t], legacy)
           tighter == new /\ ~legacy[t]
           marks(v) == tighter /\ AtAny(v, Saving) /\ job[v].type = t
<1>0. At(w, "saveLegacy") /\ AtAny(w, Settings) /\ job[w] \in SettingsJob /\ t \in Type
  BY HeldByOp, RuleIsType DEF IInv, SaveLegacy, At, AtAny, Settings
<1>1. /\ legacy' = [legacy EXCEPT ![t] = new]
      /\ job' = [v \in Workers |->
           IF v = w THEN SettingsNext(w)
           ELSE IF tighter /\ AtAny(v, Saving) /\ job[v].type = t THEN [job[v] EXCEPT !.old = TRUE]
           ELSE job[v]]
      /\ older' = (IF tighter THEN older \cup OfType(t) ELSE older)
      /\ drift' = (IF job[w].alone THEN drift \ {t} ELSE drift)
      /\ UNCHANGED <<address, config, inUse, meant, excused>>
  BY DEF SaveLegacy, RuleAt
<1>2. new \in BOOLEAN /\ (job[w].read = legacy[t] => new = job[w].req[t])
  BY <1>0 DEF IInv, Typed, SettingsJob, Saves
<1> HIDE DEF t, new
<1>3. legacy' \in [Type -> BOOLEAN] /\ legacy'[t] = new /\ \A s \in Type : s # t => legacy'[s] = legacy[s]
  BY <1>0, <1>1, <1>2 DEF IInv, Typed
<1>4. job'[w] = SettingsNext(w)
  BY <1>1
<1>5. ASSUME NEW v \in Workers, v # w
      PROVE  job'[v] = IF marks(v) THEN [job[v] EXCEPT !.old = TRUE] ELSE job[v]
  BY <1>1, <1>5
<1> HIDE DEF marks
<1>6. ASSUME NEW v \in Workers, v # w, marks(v)
      PROVE  /\ job'[v] \in Jobs /\ job'[v].op = job[v].op /\ job'[v].old
             /\ ReadsHold(v)' /\ RowsCounted(v)'
             /\ AtAny(v, Saving) /\ job[v].type = t
  <2>1. AtAny(v, Saving) /\ job[v].type = t
    BY <1>6 DEF marks
  <2>2. job'[v] = [job[v] EXCEPT !.old = TRUE]
    BY <1>5, <1>6
  <2> QED
    BY <1>1, <2>1, <2>2, OlderJob
<1>7. \A v \in Workers : v # w => job'[v].op = job[v].op
  BY <1>5, <1>6
<1>8. \A v \in Workers : v # w /\ ~AtAny(v, Saving) => job'[v] = job[v]
  BY <1>5 DEF marks
<1>9. Typed'
  <2>1. \A v \in Workers : job'[v] \in Jobs
    BY <1>0, <1>4, <1>5, <1>6, NextRule DEF IInv, Typed
  <2>2. job' = [v \in Workers |-> job'[v]]
    BY <1>1
  <2>3. job' \in [Workers -> Jobs]
    BY <2>1, <2>2
  <2> QED
    BY <1>1, <1>3, <2>3 DEF IInv, Typed, OfType
<1>10. ParentsLive'
  BY <1>1 DEF IInv, ParentsLive, OfType, Exists
<1>11. LinkedOrUnset'
  <2>1. \A p : Unlinking(p) => Unlinking(p)'
    BY <1>0, <1>8 DEF Unlinking, At, AtAny, Saving
  <2> QED
    BY <1>1, <2>1 DEF IInv, LinkedOrUnset, Exists
<1>12. RequiredAtEntry'
  <2> SUFFICES ASSUME NEW a \in Ids, Exists(address[a]), ~address[a].filled,
                      legacy'[address[a].type]
               PROVE  a \in older'
    BY <1>1 DEF RequiredAtEntry, Exists
  <2>1. address[a].type \in Type
    BY DEF IInv, Typed, Exists, Address
  <2>2. CASE legacy[address[a].type]
    BY <1>1, <2>2 DEF IInv, RequiredAtEntry
  <2>3. CASE ~legacy[address[a].type]
    <3>1. address[a].type = t /\ tighter
      BY <1>3, <2>1, <2>3
    <3> QED
      BY <1>1, <3>1 DEF OfType
  <2> QED
    BY <2>2, <2>3
<1>13. RulesAgree'
  <2> SUFFICES ASSUME NEW s \in Type, config[s] # legacy'[s], s \notin drift'
               PROVE  \E u \in Workers :
                         AtAny(u, {"readLegacy", "saveLegacy"})' /\ Head(job'[u].todo) = s
    BY <1>1 DEF RulesAgree
  <2>1. CASE s = t
    <3>1. job[w].alone
      BY <1>0, <1>1, <2>1 DEF IInv, SettingsKnown
    <3>2. config[t] = job[w].req[t] /\ job[w].read = legacy[t]
      BY <1>0, <3>1 DEF IInv, SettingsKnown, At, AtAny, t
    <3> QED
      BY <1>2, <1>3, <2>1, <3>2
  <2>2. CASE s # t
    <3>1. config[s] # legacy[s] /\ s \notin drift
      BY <1>1, <1>3, <2>2
    <3>2. PICK u \in Workers : AtAny(u, {"readLegacy", "saveLegacy"}) /\ Head(job[u].todo) = s
      BY <3>1 DEF IInv, RulesAgree
    <3>3. u # w /\ ~AtAny(u, Saving)
      BY <2>2, <3>2 DEF t, RuleAt, AtAny, Saving
    <3> QED
      BY <1>8, <3>2, <3>3 DEF AtAny
  <2> QED
    BY <2>1, <2>2
<1>14. Known(w)'
  <2>1. ~job[w].alone => drift' = Type
    BY <1>0, <1>1 DEF IInv, SettingsKnown
  <2> QED
    BY <1>0, <1>4, <1>7, <2>1, NextRuleKnown
<1>15. ASSUME NEW v \in Workers, v # w PROVE Known(v)'
  <2>1. SettingsKnown(v)'
    <3>1. CASE ~AtAny(v, Settings)
      BY <1>7, <1>15, <3>1 DEF SettingsKnown, AtAny
    <3>2. CASE AtAny(v, Settings)
      <4>1. ~job[v].alone /\ ~job[w].alone
        BY <1>0, <1>15, <3>2 DEF IInv, SettingsKnown
      <4>2. drift' = Type
        BY <1>1, <3>2, <4>1 DEF IInv, SettingsKnown
      <4>3. job'[v] = job[v]
        BY <1>8, <1>15, <3>2 DEF AtAny, Settings, Saving
      <4>4. ~job'[v].alone
        BY <4>1, <4>3
      <4> QED
        BY <4>2, <4>4, Zenon DEF SettingsKnown
    <3> QED
      BY <3>1, <3>2
  <2>2. UnlinksOwn(v)'
    <3>1. At(v, "unlink")' => job'[v] = job[v]
      BY <1>7, <1>8, <1>15 DEF At, AtAny, Saving
    <3> QED
      BY <3>1 DEF IInv, UnlinksOwn, At
  <2>3. CASE marks(v)
    <3>1. Checked(v)'
      BY <1>6, <1>15, <2>3 DEF Checked
    <3> QED
      BY <1>6, <1>15, <2>1, <2>2, <2>3, <3>1 DEF Known
  <2>4. CASE ~marks(v)
    <3>1. job'[v] = job[v]
      BY <1>5, <1>15, <2>4
    <3>2. ReadsHold(v)' /\ RowsCounted(v)'
      BY <1>1, <3>1 DEF IInv, ReadsHold, RowsCounted, OfType, Exists, At, AtAny
    <3>3. AtAny(v, Saving) => (legacy'[job[v].type] => legacy[job[v].type])
      <4> SUFFICES ASSUME AtAny(v, Saving), legacy'[job[v].type]
                   PROVE  legacy[job[v].type]
        OBVIOUS
      <4>1. job[v].type \in Type
        BY HeldByOp DEF IInv, AtAny, At, Saving, SaveJob, UpdateJob, LookupJob, ChunkJob
      <4>2. CASE job[v].type = t
        BY <1>3, <2>4, <4>2 DEF marks
      <4>3. CASE job[v].type # t
        BY <1>3, <4>1, <4>3
      <4> QED
        BY <4>2, <4>3
    <3>4. Checked(v)'
      <4>1. Checked(v)
        BY DEF IInv
      <4> QED
        BY <3>1, <3>3, <4>1 DEF Checked, AtAny, Saving
    <3> QED
      BY <2>1, <2>2, <3>2, <3>4 DEF Known
  <2> QED
    BY <2>3, <2>4
<1>16. \A v \in Workers : Known(v)'
  BY <1>14, <1>15
<1> QED
  BY <1>9, <1>10, <1>11, <1>12, <1>13, <1>16 DEF IInv, Known

-----------------------------------------------------------------------------
\* Requests that store addresses, and what happens beside the requests.
LEMMA UseAddressStep ==
    ASSUME IInv, UseAddress
    PROVE  IInv'
<1>1. UNCHANGED <<address, config, legacy, job, meant, excused, older, drift>>
  BY DEF UseAddress, ghosts
<1>2. inUse' \subseteq OfType("ship_to") /\ OfType("ship_to") \subseteq Ids
  BY DEF UseAddress, IInv, ParentsLive, OfType
<1>3. Typed' /\ ParentsLive'
  BY <1>1, <1>2 DEF IInv, Typed, ParentsLive, OfType, Exists
<1>4. LinkedOrUnset' /\ RequiredAtEntry' /\ RulesAgree'
  BY <1>1 DEF IInv, LinkedOrUnset, Unlinking, RequiredAtEntry, RulesAgree, Exists, At, AtAny
<1>5. \A v \in Workers : Known(v)'
  BY <1>1 DEF IInv, Known, ReadsHold, UnlinksOwn, Checked, SettingsKnown, RowsCounted,
              OfType, Exists, At, AtAny, RuleAt
<1> QED
  BY <1>3, <1>4, <1>5 DEF IInv, Known

LEMMA StutterStep ==
    ASSUME IInv, UNCHANGED vars
    PROVE  IInv'
<1>1. UNCHANGED <<address, config, legacy, inUse, job, meant, excused, older, drift>>
  BY DEF vars, db, ghosts
<1>2. Typed' /\ ParentsLive'
  BY <1>1 DEF IInv, Typed, ParentsLive, OfType, Exists
<1>3. LinkedOrUnset' /\ RequiredAtEntry' /\ RulesAgree'
  BY <1>1 DEF IInv, LinkedOrUnset, Unlinking, RequiredAtEntry, RulesAgree, Exists, At, AtAny
<1>4. \A v \in Workers : Known(v)'
  BY <1>1 DEF IInv, Known, ReadsHold, UnlinksOwn, Checked, SettingsKnown, RowsCounted,
              OfType, Exists, At, AtAny, RuleAt
<1> QED
  BY <1>2, <1>3, <1>4 DEF IInv, Known

LEMMA CrashStep ==
    ASSUME IInv, Crash
    PROVE  IInv'
<1>1. /\ job' = [w \in Workers |-> Idle]
      /\ excused' = excused \cup UNION {LeftAlone(w) : w \in Workers}
      /\ drift' = drift \cup {Head(job[w].todo) : w \in {v \in Workers : AtAny(v, {"readLegacy", "saveLegacy"})}}
      /\ UNCHANGED <<db, meant, older>>
  BY DEF Crash
<1>2. \A w \in Workers : AtAny(w, {"readLegacy", "saveLegacy"}) => Head(job[w].todo) \in Type
  BY RuleIsType DEF IInv, RuleAt, AtAny, Settings
<1>3. UNION {LeftAlone(w) : w \in Workers} \subseteq Ids
  BY DEF LeftAlone
<1>4. Typed'
  <2>1. excused' \subseteq Ids /\ drift' \subseteq Type
    BY <1>1, <1>2, <1>3 DEF IInv, Typed
  <2>2. job' \in [Workers -> Jobs]
    BY <1>1, IdleIsJob
  <2> QED
    BY <1>1, <2>1, <2>2 DEF IInv, Typed, db
<1>5. ParentsLive' /\ RequiredAtEntry'
  BY <1>1 DEF IInv, ParentsLive, RequiredAtEntry, OfType, Exists, db
<1>6. LinkedOrUnset'
  <2> SUFFICES ASSUME NEW a \in Ids, Exists(address[a]),
                      ~(address[a].parent = meant[a]), a \notin excused'
               PROVE  FALSE
    BY <1>1 DEF LinkedOrUnset, db, Exists
  <2>1. PICK u \in Workers : At(u, "unlink") /\ job[u].id = meant[a]
    BY <1>1 DEF IInv, LinkedOrUnset, Unlinking
  <2>2. a \in LeftAlone(u)
    BY <2>1 DEF LeftAlone
  <2> QED
    BY <1>1, <2>2
<1>7. RulesAgree'
  <2> SUFFICES ASSUME NEW t \in Type, config[t] # legacy[t], t \notin drift'
               PROVE  FALSE
    BY <1>1 DEF RulesAgree, db
  <2>1. PICK u \in Workers : AtAny(u, {"readLegacy", "saveLegacy"}) /\ Head(job[u].todo) = t
    BY <1>1 DEF IInv, RulesAgree
  <2> QED
    BY <1>1, <2>1
<1>8. \A v \in Workers : Known(v)'
  BY <1>1, IdleIsKnown
<1> QED
  BY <1>4, <1>5, <1>6, <1>7, <1>8 DEF IInv, Known

\* A request other than a save of the settings changes the addresses.
LEMMA Stores ==
    ASSUME IInv, NEW w \in Workers, NEW j \in Jobs, Goes(w, j), Evolves,
           ~AtAny(w, Settings), j.op \notin Settings,
           address' \in [Ids -> Address \cup {Gone}], meant' \in [Ids -> Ids \cup {None}],
           excused' \subseteq Ids, older' \subseteq Ids, UNCHANGED <<config, legacy, inUse, drift>>,
           ParentsLive', LinkedOrUnset', RequiredAtEntry', Known(w)'
    PROVE  IInv'
<1>1. job' = [job EXCEPT ![w] = j]
  BY DEF Goes
<1>2. /\ job' \in [Workers -> Jobs] /\ job'[w] = j
      /\ \A u \in Workers : u # w => job'[u] = job[u]
  BY <1>1, Becomes DEF IInv
<1>3. Typed'
  BY <1>2 DEF IInv, Typed
<1>4. drift \subseteq drift' /\ drift' \subseteq Type
  BY DEF IInv, Typed
<1>5. \A v \in Workers : v # w => Known(v)'
  BY <1>1, <1>4, OthersKeep
<1>6. RulesAgree'
  <2> SUFFICES ASSUME NEW t \in Type, config[t] # legacy[t], t \notin drift
               PROVE  \E u \in Workers :
                         AtAny(u, {"readLegacy", "saveLegacy"})' /\ Head(job'[u].todo) = t
    BY DEF RulesAgree
  <2>1. PICK u \in Workers : AtAny(u, {"readLegacy", "saveLegacy"}) /\ Head(job[u].todo) = t
    BY DEF IInv, RulesAgree
  <2>2. u # w
    BY <2>1 DEF AtAny, Settings
  <2> QED
    BY <1>2, <2>1, <2>2 DEF AtAny
<1> QED
  BY <1>3, <1>5, <1>6 DEF IInv, Known

\* A parent that is there to be stored is a ship_to address.
LEMMA RelatedIsShipTo ==
    ASSUME Typed, NEW p, Related(p), p \notin OfType("install_at")
    PROVE  p \in OfType("ship_to") \cup {None}
BY DEF Related, OfType, Typed, Exists, Address, Type

\* Rows stored under free ids.
LEMMA NewRows ==
    ASSUME AddressBookAssumption, IInv, NEW S \in SUBSET Free, NEW row \in [S -> Address],
           NEW old \in BOOLEAN,
           address' = [a \in Ids |-> IF a \in S THEN row[a] ELSE address[a]],
           meant' = [a \in Ids |-> IF a \in S THEN row[a].parent ELSE meant[a]],
           older' = (older \ S) \cup (IF old THEN S ELSE {}),
           excused' = excused \ S,
           UNCHANGED <<legacy, inUse>>,
           \A a \in S : /\ row[a].parent \in OfType("ship_to") \cup {None}
                        /\ row[a].filled \/ ~legacy[row[a].type] \/ old,
           \A p : Unlinking(p) => Unlinking(p)'
    PROVE  /\ Evolves /\ address' \in [Ids -> Address \cup {Gone}]
           /\ meant' \in [Ids -> Ids \cup {None}] /\ excused' \subseteq Ids /\ older' \subseteq Ids
           /\ ParentsLive' /\ LinkedOrUnset' /\ RequiredAtEntry'
<1>1. S \subseteq Ids /\ \A a \in S : ~Exists(address[a])
  BY DEF Free
<1>2. address' \in [Ids -> Address \cup {Gone}] /\ \A a \in S : row[a] \in Address
  BY <1>1 DEF IInv, Typed
<1>3. \A a \in Ids : a \notin S => address'[a] = address[a] /\ meant'[a] = meant[a]
  OBVIOUS
<1>4. \A a \in S : address'[a] = row[a] /\ meant'[a] = row[a].parent
  BY <1>1
<1>5. Evolves
  BY <1>1, <1>3, <1>4 DEF Evolves
<1>6. meant' \in [Ids -> Ids \cup {None}]
  BY <1>2 DEF IInv, Typed, Address
<1>7. excused' \subseteq Ids /\ older' \subseteq Ids
  BY <1>1 DEF IInv, Typed
<1>8. OfType("ship_to") \subseteq OfType("ship_to")'
  BY <1>1, <1>3 DEF OfType, Exists
<1>9. ParentsLive'
  <2>1. \A a \in Ids : Exists(address'[a]) => address'[a].parent \in OfType("ship_to") \cup {None}
    BY <1>3, <1>4 DEF IInv, ParentsLive
  <2> QED
    BY <1>8, <2>1 DEF IInv, ParentsLive, Exists
<1>10. LinkedOrUnset'
  BY <1>3, <1>4 DEF IInv, LinkedOrUnset, Exists
<1>11. RequiredAtEntry'
  <2>1. ASSUME NEW a \in Ids, Exists(address'[a]), ~address'[a].filled,
               legacy[address'[a].type]
        PROVE  a \in older'
    <3>1. CASE a \in S
      BY <1>4, <2>1, <3>1
    <3>2. CASE a \notin S
      BY <1>3, <2>1, <3>2 DEF IInv, RequiredAtEntry
    <3> QED
      BY <3>1, <3>2
  <2> QED
    BY <2>1 DEF RequiredAtEntry, Exists
<1> QED
  BY <1>2, <1>5, <1>6, <1>7, <1>9, <1>10, <1>11

LEMMA SaveAddressStep ==
    ASSUME AddressBookAssumption, IInv, NEW w \in Workers, SaveAddress(w)
    PROVE  IInv'
<1>0. At(w, "save") /\ job[w] \in SaveJob
  BY HeldByOp DEF IInv, SaveAddress
<1>1. Goes(w, Idle) /\ UNCHANGED <<config, legacy, inUse, drift>> /\ job' = [job EXCEPT ![w] = Idle]
  BY DEF SaveAddress, Goes
<1>2. /\ LeftAlone(w) = {} /\ ~AtAny(w, Settings) /\ ~AtAny(w, {"readLegacy", "saveLegacy"})
      /\ Idle.op \notin Settings /\ excused \subseteq Ids /\ drift \subseteq Type
  BY <1>0 DEF LeftAlone, At, AtAny, Settings, Idle, IInv, Typed
<1>3. Known(w)' /\ job'[w] = Idle /\ \A u \in Workers : u # w => job'[u] = job[u]
  BY <1>1, IdleIsKnown, IdleIsJob, Becomes DEF IInv
<1>4. CASE ~Related(job[w].new.parent)
  <2>1. UNCHANGED <<address, meant, older, excused>>
    BY <1>4 DEF SaveAddress
  <2> QED
    BY <1>1, <1>2, <1>3, <2>1, IdleIsJob, GoesOn DEF db
<1>5. CASE Related(job[w].new.parent)
  <2>1. PICK a \in Free :
          /\ address' = [address EXCEPT ![a] = job[w].new]
          /\ Stored(a, job[w].new.parent, job[w].old, FALSE)
    BY <1>5 DEF SaveAddress
  <2> DEFINE S == {a}  row == [s \in S |-> job[w].new]  old == job[w].old
  <2>2. a \in Ids /\ S \in SUBSET Free
    BY DEF Free
  <2>3. job[w].new \in Address /\ old \in BOOLEAN
    BY <1>0 DEF SaveJob
  <2>4. /\ job[w].new.parent \in OfType("ship_to") \cup {None}
        /\ job[w].new.filled \/ ~legacy[job[w].new.type] \/ old
    <3>1. job[w].new.type = job[w].type /\ job[w].new.parent \notin OfType("install_at")
      BY <1>0 DEF IInv, ReadsHold, At, AtAny
    <3>2. job[w].new.filled \/ ~legacy[job[w].type] \/ old
      BY <1>0 DEF IInv, Checked, At, AtAny
    <3> QED
      BY <1>5, <3>1, <3>2, RelatedIsShipTo DEF IInv
  <2>5. /\ address' = [b \in Ids |-> IF b \in S THEN row[b] ELSE address[b]]
        /\ meant' = [b \in Ids |-> IF b \in S THEN row[b].parent ELSE meant[b]]
        /\ older' = (older \ S) \cup (IF old THEN S ELSE {})
        /\ excused' = excused \ S
    BY <2>1, <2>2 DEF Stored, IInv, Typed
  <2>6. row \in [S -> Address] /\ \A b \in S : row[b] = job[w].new
    BY <2>3
  <2>7. \A p : Unlinking(p) => Unlinking(p)'
    BY <1>0, <1>3 DEF Unlinking, At
  <2> HIDE DEF S, row, old
  <2>8. \A b \in S : /\ row[b].parent \in OfType("ship_to") \cup {None}
                     /\ row[b].filled \/ ~legacy[row[b].type] \/ old
    BY <2>4, <2>6
  <2>9. /\ Evolves /\ address' \in [Ids -> Address \cup {Gone}]
        /\ meant' \in [Ids -> Ids \cup {None}] /\ excused' \subseteq Ids /\ older' \subseteq Ids
        /\ ParentsLive' /\ LinkedOrUnset' /\ RequiredAtEntry'
    BY <1>1, <2>2, <2>3, <2>5, <2>6, <2>7, <2>8, NewRows
  <2> QED
    BY <1>1, <1>2, <1>3, <2>9, IdleIsJob, Stores
<1> QED
  BY <1>4, <1>5

LEMMA InsertChunkStep ==
    ASSUME AddressBookAssumption, IInv, NEW w \in Workers, InsertChunk(w)
    PROVE  IInv'
<1> DEFINE chunk == Chunk(job[w].next, job[w].rows)
           j == Past(job[w], chunk, TRUE)
           old == job[w].old
<1>0. At(w, "chunk") /\ job[w].next <= Len(job[w].rows) /\ job[w] \in ChunkJob
  BY HeldByOp DEF IInv, InsertChunk
<1>1. /\ Goes(w, j) /\ UNCHANGED <<config, legacy, inUse, drift>>
      /\ \A i \in chunk : Related(ParentOf(job[w], i))
  BY DEF InsertChunk, Counts, Past
<1> HIDE DEF j
<1>2. PICK ids \in kSubset(Cardinality(chunk), Free) :
        \E id \in {f \in [chunk -> ids] : \A a \in ids : \E i \in chunk : f[i] = a} :
            LET row(a) == CHOOSE i \in chunk : id[i] = a IN
            /\ address' = [a \in Ids |-> IF a \notin ids THEN address[a] ELSE
                 [type |-> job[w].type, name |-> job[w].rows[row(a)].name,
                  filled |-> job[w].rows[row(a)].filled, parent |-> ParentOf(job[w], row(a))]]
            /\ meant' = [a \in Ids |-> IF a \in ids THEN ParentOf(job[w], row(a)) ELSE meant[a]]
            /\ older' = (older \ ids) \cup (IF job[w].old THEN ids ELSE {})
            /\ excused' = excused \ ids
  BY DEF InsertChunk
<1>3. PICK id \in [chunk -> ids] :
        /\ \A a \in ids : \E i \in chunk : id[i] = a
        /\ address' = [a \in Ids |-> IF a \notin ids THEN address[a] ELSE
             [type |-> job[w].type, name |-> job[w].rows[CHOOSE i \in chunk : id[i] = a].name,
              filled |-> job[w].rows[CHOOSE i \in chunk : id[i] = a].filled,
              parent |-> ParentOf(job[w], CHOOSE i \in chunk : id[i] = a)]]
        /\ meant' = [a \in Ids |-> IF a \in ids THEN ParentOf(job[w], CHOOSE i \in chunk : id[i] = a)
                                   ELSE meant[a]]
        /\ older' = (older \ ids) \cup (IF old THEN ids ELSE {})
        /\ excused' = excused \ ids
  BY <1>2
<1> DEFINE at == [a \in ids |-> CHOOSE i \in chunk : id[i] = a]
           row == [a \in ids |-> [type |-> job[w].type, name |-> job[w].rows[at[a]].name,
                                  filled |-> job[w].rows[at[a]].filled,
                                  parent |-> ParentOf(job[w], at[a])]]
<1>4. ids \in SUBSET Free
  BY DEF kSubset
<1>5. \A a \in ids : at[a] \in chunk
  BY <1>3
<1>6. /\ address' = [a \in Ids |-> IF a \in ids THEN row[a] ELSE address[a]]
      /\ meant' = [a \in Ids |-> IF a \in ids THEN row[a].parent ELSE meant[a]]
  <2>1. \A a \in Ids : (IF a \notin ids THEN address[a] ELSE
             [type |-> job[w].type, name |-> job[w].rows[CHOOSE i \in chunk : id[i] = a].name,
              filled |-> job[w].rows[CHOOSE i \in chunk : id[i] = a].filled,
              parent |-> ParentOf(job[w], CHOOSE i \in chunk : id[i] = a)])
           = IF a \in ids THEN row[a] ELSE address[a]
    OBVIOUS
  <2>2. \A a \in Ids : (IF a \in ids THEN ParentOf(job[w], CHOOSE i \in chunk : id[i] = a) ELSE meant[a])
           = IF a \in ids THEN row[a].parent ELSE meant[a]
    OBVIOUS
  <2> HIDE DEF row, at
  <2>3. address' = [a \in Ids |-> IF a \in ids THEN row[a] ELSE address[a]]
    BY <1>3, <2>1, Zenon
  <2>4. meant' = [a \in Ids |-> IF a \in ids THEN row[a].parent ELSE meant[a]]
    BY <1>3, <2>2, Zenon
  <2> QED
    BY <2>3, <2>4
<1>7. /\ job[w].rows \in Seq(FileRow) /\ job[w].type \in Type /\ old \in BOOLEAN
      /\ chunk \subseteq DOMAIN job[w].rows
  BY <1>0, ChunkSize DEF ChunkJob
<1>8. ASSUME NEW i \in chunk
      PROVE  /\ ParentOf(job[w], i) \in OfType("ship_to") \cup {None}
             /\ job[w].rows[i].filled \/ ~legacy[job[w].type] \/ old
             /\ job[w].rows[i] \in FileRow
  <2>1. job[w].rows[i] \in FileRow
    BY <1>7, <1>8
  <2>2. Related(ParentOf(job[w], i))
    BY <1>1
  <2>3. ParentOf(job[w], i) \notin OfType("install_at")
    <3>1. Gone \notin Ids /\ None \notin Ids
      BY AddressBookAssumption DEF AddressBookAssumption
    <3>2. \A n \in DOMAIN job[w].lookup : job[w].lookup[n] \notin OfType("install_at")
      BY <1>0 DEF IInv, ReadsHold
    <3> QED
      BY <3>1, <3>2 DEF ParentOf, OfType
  <2>4. job[w].rows[i].filled \/ ~legacy[job[w].type] \/ old
    BY <1>0, <1>7, <1>8 DEF IInv, Checked, At, AtAny
  <2> QED
    BY <2>1, <2>2, <2>3, <2>4, RelatedIsShipTo DEF IInv
<1>9. /\ row \in [ids -> Address]
      /\ \A a \in ids : /\ row[a].parent \in OfType("ship_to") \cup {None}
                        /\ row[a].filled \/ ~legacy[row[a].type] \/ old
  <2> SUFFICES ASSUME NEW a \in ids
               PROVE  /\ row[a] \in Address
                      /\ row[a].parent \in OfType("ship_to") \cup {None}
                      /\ row[a].filled \/ ~legacy[row[a].type] \/ old
    OBVIOUS
  <2>1. row[a] = [type |-> job[w].type, name |-> job[w].rows[at[a]].name,
                  filled |-> job[w].rows[at[a]].filled, parent |-> ParentOf(job[w], at[a])]
    OBVIOUS
  <2> HIDE DEF row, at, chunk, old
  <2>2. at[a] \in chunk
    BY <1>5
  <2>3. /\ ParentOf(job[w], at[a]) \in OfType("ship_to") \cup {None}
        /\ job[w].rows[at[a]].filled \/ ~legacy[job[w].type] \/ old
        /\ job[w].rows[at[a]] \in FileRow
    BY <1>8, <2>2
  <2> QED
    BY <1>7, <2>1, <2>3 DEF Address, FileRow, OfType
<1>10. job' = [job EXCEPT ![w] = j] /\ job'[w] = j /\ \A u \in Workers : u # w => job'[u] = job[u]
  BY <1>1 DEF Goes, IInv, Typed
<1>11. /\ j \in Jobs /\ j.op = "chunk" /\ j.type = job[w].type
       /\ j.rows = job[w].rows /\ j.old = job[w].old /\ j.lookup = job[w].lookup
       /\ RowsCounted(w)'
  BY <1>0, <1>10, ChunkCounted DEF j
<1>12. \A p : Unlinking(p) => Unlinking(p)'
  BY <1>0, <1>10 DEF Unlinking, At
<1> HIDE DEF row, at, chunk, old
<1>13. /\ older' = (older \ ids) \cup (IF old THEN ids ELSE {}) /\ excused' = excused \ ids
  BY <1>3
<1>14. /\ Evolves /\ address' \in [Ids -> Address \cup {Gone}]
       /\ meant' \in [Ids -> Ids \cup {None}] /\ excused' \subseteq Ids /\ older' \subseteq Ids
       /\ ParentsLive' /\ LinkedOrUnset' /\ RequiredAtEntry'
  BY <1>1, <1>4, <1>6, <1>7, <1>9, <1>12, <1>13, NewRows
<1>15. Known(w)'
  <2>1. ReadsHold(w)'
    <3>1. ASSUME NEW n \in DOMAIN job[w].lookup
          PROVE  job[w].lookup[n] \notin OfType("install_at")'
      <4>1. job[w].lookup[n] \in Mentioned /\ job[w].lookup[n] \notin OfType("install_at")
        BY <1>0, <3>1 DEF IInv, ReadsHold, At, Mentioned
      <4>2. job[w].lookup[n] \notin ids
        BY <1>4, <4>1 DEF Free
      <4> QED
        BY <1>6, <4>1, <4>2 DEF OfType, Exists
    <3> QED
      BY <1>10, <1>11, <3>1 DEF ReadsHold, At, AtAny
  <2>2. Checked(w)'
    BY <1>0, <1>1, <1>10, <1>11 DEF IInv, Checked, At, AtAny
  <2>3. UnlinksOwn(w)' /\ SettingsKnown(w)'
    BY <1>10, <1>11 DEF UnlinksOwn, SettingsKnown, At, AtAny, Settings
  <2> QED
    BY <1>11, <2>1, <2>2, <2>3 DEF Known
<1>16. ~AtAny(w, Settings) /\ j.op \notin Settings
  BY <1>0, <1>11 DEF At, AtAny, Settings
<1> QED
  BY <1>1, <1>11, <1>14, <1>15, <1>16, Stores

\* A row some of whose columns are written.
LEMMA Columns ==
    ASSUME NEW row \in Address, NEW read \in Address, NEW new \in Address,
           NEW r, r = [c \in DOMAIN row |-> IF new[c] = read[c] THEN row[c] ELSE new[c]],
           row.type = new.type
    PROVE  /\ r \in Address /\ r.type = row.type
           /\ r.parent \in {row.parent, new.parent}
           /\ row = read => r = new
<1>1. DOMAIN row = {"type", "name", "filled", "parent"}
  BY DEF Address
<1>2. /\ r.type = row.type /\ r.name \in {row.name, new.name}
      /\ r.filled = (IF new.filled = read.filled THEN row.filled ELSE new.filled)
      /\ r.parent \in {row.parent, new.parent}
  BY <1>1
<1>3. r = [type |-> r.type, name |-> r.name, filled |-> r.filled, parent |-> r.parent]
  BY <1>1
<1>4. /\ row.type \in Type /\ row.name \in Names /\ new.name \in Names
      /\ row.filled \in BOOLEAN /\ new.filled \in BOOLEAN
      /\ row.parent \in Ids \cup {None} /\ new.parent \in Ids \cup {None}
  BY DEF Address
<1>5. /\ r.type \in Type /\ r.name \in Names /\ r.filled \in BOOLEAN /\ r.parent \in Ids \cup {None}
  BY <1>2, <1>4
<1>6. r \in Address
  BY <1>3, <1>5 DEF Address
<1>7. ASSUME row = read PROVE r = new
  <2>1. r = [c \in DOMAIN row |-> new[c]]
    BY <1>7
  <2>2. DOMAIN new = DOMAIN row /\ new = [c \in DOMAIN new |-> new[c]]
    BY DEF Address
  <2> QED
    BY <2>1, <2>2
<1> QED
  BY <1>2, <1>6, <1>7

LEMMA UpdateAddressStep ==
    ASSUME AddressBookAssumption, IInv, NEW w \in Workers, UpdateAddress(w)
    PROVE  IInv'
<1> DEFINE a == job[w].id  read == job[w].row  new == job[w].new
<1>0. At(w, "update") /\ job[w] \in UpdateJob
  BY HeldByOp DEF IInv, UpdateAddress
<1>1. Goes(w, Idle) /\ UNCHANGED <<config, legacy, inUse, drift>> /\ job' = [job EXCEPT ![w] = Idle]
  BY DEF UpdateAddress, Goes
<1>2. /\ LeftAlone(w) = {} /\ ~AtAny(w, Settings) /\ ~AtAny(w, {"readLegacy", "saveLegacy"})
      /\ Idle.op \notin Settings /\ excused \subseteq Ids /\ drift \subseteq Type
  BY <1>0 DEF LeftAlone, At, AtAny, Settings, Idle, IInv, Typed
<1>3. Known(w)' /\ job'[w] = Idle /\ \A u \in Workers : u # w => job'[u] = job[u]
  BY <1>1, IdleIsKnown, IdleIsJob, Becomes DEF IInv
<1>4. CASE ~(Exists(address[a]) /\ Related(new.parent))
  <2>1. UNCHANGED <<address, meant, older, excused>>
    BY <1>4 DEF UpdateAddress
  <2> QED
    BY <1>1, <1>2, <1>3, <2>1, IdleIsJob, GoesOn DEF db
<1>5. CASE Exists(address[a]) /\ Related(new.parent)
  <2>1. /\ a \in Ids /\ read \in Address /\ new \in Address /\ address[a] \in Address
        /\ job[w].old \in BOOLEAN
    BY <1>0, <1>5 DEF UpdateJob, IInv, Typed, Exists
  <2> DEFINE r == [c \in DOMAIN address[a] |-> IF new[c] = read[c] THEN address[a][c] ELSE new[c]]
  <2>2. /\ address' = [address EXCEPT ![a] = r]
        /\ Stored(a, new.parent, job[w].old \/ address[a] # read, address[a] # read)
    BY <1>5 DEF UpdateAddress
  <2>3. address[a].type = new.type
    BY <1>0, <1>5 DEF IInv, ReadsHold, At, AtAny
  <2>4. /\ r \in Address /\ r.type = address[a].type
        /\ r.parent \in {address[a].parent, new.parent}
        /\ address[a] = read => r = new
    BY <2>1, <2>3, Columns
  <2> HIDE DEF a, read, new, r
  <2>5. /\ address' \in [Ids -> Address \cup {Gone}] /\ address'[a] = r
        /\ \A b \in Ids : b # a => address'[b] = address[b]
    BY <2>1, <2>2, <2>4 DEF IInv, Typed
  <2>6. Exists(address'[a])
    BY <2>4, <2>5, AddressBookAssumption DEF AddressBookAssumption, Exists
  <2>7. new.parent \in Ids \cup {None} /\ a \in Ids
    BY <2>1 DEF Address
  <2>8. /\ meant' \in [Ids -> Ids \cup {None}] /\ meant'[a] = new.parent
        /\ \A b \in Ids : b # a => meant'[b] = meant[b]
    BY <2>2, <2>7 DEF Stored, IInv, Typed
  <2>9. /\ excused' \subseteq Ids /\ older' \subseteq Ids
        /\ \A b \in Ids : b # a => (b \in excused' <=> b \in excused) /\ (b \in older' <=> b \in older)
        /\ a \in excused' <=> address[a] # read
        /\ a \in older' <=> job[w].old \/ address[a] # read
    BY <2>2, <2>7 DEF Stored, IInv, Typed
  <2>10. Evolves
    BY <1>5, <2>4, <2>5 DEF Evolves, a
  <2>11. OfType("ship_to")' = OfType("ship_to")
    <3>1. \A b \in Ids : Exists(address'[b]) <=> Exists(address[b])
      BY <1>5, <2>5, <2>6 DEF a
    <3>2. \A b \in Ids : Exists(address[b]) => address'[b].type = address[b].type
      BY <2>4, <2>5
    <3> QED
      BY <3>1, <3>2 DEF OfType, Exists
  <2>12. ParentsLive'
    <3>1. new.parent \in OfType("ship_to") \cup {None}
      BY <1>0, <1>5, RelatedIsShipTo DEF IInv, ReadsHold, At, AtAny, new
    <3>2. address[a].parent \in OfType("ship_to") \cup {None}
      BY <1>5, <2>7 DEF IInv, ParentsLive, a
    <3>3. ASSUME NEW b \in Ids, Exists(address'[b])
          PROVE  address'[b].parent \in OfType("ship_to") \cup {None}
      <4>1. CASE b = a
        <5>1. address'[b].parent = address[a].parent \/ address'[b].parent = new.parent
          BY <2>4, <2>5, <4>1
        <5> QED
          BY <3>1, <3>2, <5>1
      <4>2. CASE b # a
        BY <2>5, <3>3, <4>2 DEF IInv, ParentsLive
      <4> QED
        BY <4>1, <4>2
    <3> QED
      BY <1>1, <2>11, <3>3 DEF IInv, ParentsLive, Exists
  <2>13. LinkedOrUnset'
    <3>1. \A p : Unlinking(p) => Unlinking(p)'
      BY <1>0, <1>3 DEF Unlinking, At
    <3> SUFFICES ASSUME NEW b \in Ids, Exists(address'[b])
                 PROVE  \/ address'[b].parent = meant'[b] \/ b \in excused'
                        \/ address'[b].parent = None /\ Unlinking(meant[b])'
      BY DEF LinkedOrUnset, Exists
    <3>2. CASE b = a
      <4>1. a \in excused' \/ r = new
        BY <2>4, <2>9
      <4> QED
        BY <2>5, <2>8, <3>2, <4>1
    <3>3. CASE b # a
      <4>1. /\ address'[b] = address[b] /\ meant'[b] = meant[b]
            /\ b \in excused => b \in excused'
        BY <2>5, <2>8, <2>9, <3>3
      <4>2. \/ address[b].parent = meant[b] \/ b \in excused
            \/ address[b].parent = None /\ Unlinking(meant[b])
        BY <4>1 DEF IInv, LinkedOrUnset
      <4>3. Unlinking(meant[b]) => Unlinking(meant[b])'
        BY <3>1, <4>1
      <4> QED
        BY <4>1, <4>2, <4>3
    <3> QED
      BY <3>2, <3>3
  <2>14. RequiredAtEntry'
    <3> SUFFICES ASSUME NEW b \in Ids, Exists(address'[b]), ~address'[b].filled,
                        legacy[address'[b].type]
                 PROVE  b \in older'
      BY <1>1 DEF RequiredAtEntry, Exists
    <3>1. CASE b = a
      <4>1. new.filled \/ ~legacy[new.type] \/ job[w].old
        BY <1>0 DEF IInv, Checked, ReadsHold, At, AtAny, new
      <4>2. a \in older' \/ (r = new /\ ~job[w].old)
        BY <2>4, <2>9
      <4>3. ~r.filled /\ legacy[r.type]
        BY <2>5, <3>1
      <4> QED
        BY <3>1, <4>1, <4>2, <4>3
    <3>2. CASE b # a
      BY <2>5, <2>9, <3>2 DEF IInv, RequiredAtEntry
    <3> QED
      BY <3>1, <3>2
  <2> QED
    BY <1>1, <1>2, <1>3, <2>5, <2>8, <2>9, <2>10, <2>12, <2>13, <2>14, IdleIsJob, Stores
<1> QED
  BY <1>4, <1>5

LEMMA UnlinkStep ==
    ASSUME AddressBookAssumption, IInv, NEW w \in Workers, Unlink(w)
    PROVE  IInv'
<1>0. /\ At(w, "unlink") /\ job[w] \in DeleteJob /\ job[w].id \in Ids
      /\ \A k \in DOMAIN job[w].left : job[w].left[k].parent = job[w].id
  BY HeldByOp DEF IInv, Unlink, UnlinksOwn, At, AtAny, Deleting
<1>1. PICK a \in DOMAIN job[w].left :
        /\ Goes(w, [job[w] EXCEPT !.left = Restrict(@, DOMAIN @ \ {a})])
        /\ address' = [address EXCEPT ![a] = IF Exists(@) THEN [@ EXCEPT !.parent = None] ELSE @]
        /\ excused' = IF Exists(address[a]) /\ address[a] # job[w].left[a]
                      THEN excused \cup {a} ELSE excused
  BY DEF Unlink
<1>2. UNCHANGED <<config, legacy, inUse, meant, older, drift>>
  BY DEF Unlink
<1> DEFINE left == Restrict(job[w].left, DOMAIN job[w].left \ {a})
           j == [job[w] EXCEPT !.left = left]
<1>3. a \in Ids /\ left \in Links
      /\ \A k \in DOMAIN left : k \in DOMAIN job[w].left /\ left[k] = job[w].left[k]
  <2>1. PICK kids \in SUBSET Ids : job[w].left \in [kids -> Address]
    BY <1>0 DEF DeleteJob
  <2>2. left \in [kids \ {a} -> Address]
    BY <2>1 DEF Restrict
  <2> QED
    BY <2>1, <2>2 DEF Links, Restrict
<1>4. Goes(w, j)
  BY <1>1
<1> HIDE DEF left
<1>5. j \in Jobs /\ j.op = "unlink" /\ j.id = job[w].id /\ j.left = left
  BY <1>0, <1>3 DEF Jobs, DeleteJob, Links, At
<1> HIDE DEF j
<1>6. job' = [job EXCEPT ![w] = j] /\ job'[w] = j
  BY <1>4, <1>5, Becomes DEF Goes, IInv
<1>7. \A u \in Workers : u # w => job'[u] = job[u]
  BY <1>5, <1>6, Becomes DEF IInv
<1>8. /\ address'[a] = (IF Exists(address[a]) THEN [address[a] EXCEPT !.parent = None] ELSE address[a])
      /\ \A b \in Ids : b # a => address'[b] = address[b]
  BY <1>1, <1>3 DEF IInv, Typed
<1>9. Exists(address[a]) =>
         /\ address'[a] \in Address /\ address'[a].parent = None
         /\ address'[a].type = address[a].type /\ address'[a].filled = address[a].filled
  BY <1>3, <1>8 DEF IInv, Typed, Exists, Address
<1>10. \A b \in Ids : Exists(address'[b]) => Exists(address[b])
  BY <1>8
<1>11. address' \in [Ids -> Address \cup {Gone}]
  <2>1. \A b \in Ids : address'[b] \in Address \cup {Gone}
    BY <1>8, <1>9 DEF IInv, Typed
  <2>2. address' = [b \in Ids |-> address'[b]]
    BY <1>1 DEF IInv, Typed
  <2> QED
    BY <2>1, <2>2
<1>12. Evolves
  BY <1>8, <1>9, <1>10 DEF Evolves
<1>13. \A b \in Ids : Exists(address[b]) => Exists(address'[b]) /\ address'[b].type = address[b].type
  BY <1>8, <1>9, AddressBookAssumption DEF AddressBookAssumption, Exists
<1>14. ParentsLive'
  <2>1. OfType("ship_to")' = OfType("ship_to")
    BY <1>10, <1>13 DEF OfType, Exists
  <2>2. \A b \in Ids : Exists(address'[b]) => address'[b].parent \in OfType("ship_to") \cup {None}
    BY <1>8, <1>9, <1>10 DEF IInv, ParentsLive
  <2> QED
    BY <1>2, <2>1, <2>2 DEF IInv, ParentsLive, Exists
<1>15. LinkedOrUnset'
  <2>1. \A p : Unlinking(p) => Unlinking(p)'
    BY <1>0, <1>5, <1>6, <1>7 DEF Unlinking, At
  <2> SUFFICES ASSUME NEW b \in Ids, Exists(address'[b]), b \notin excused'
               PROVE  \/ address'[b].parent = meant[b]
                      \/ address'[b].parent = None /\ Unlinking(meant[b])'
    BY <1>2 DEF LinkedOrUnset, Exists
  <2>2. b \notin excused /\ Exists(address[b])
    BY <1>1, <1>10
  <2>3. address[b].parent = meant[b] \/ (address[b].parent = None /\ Unlinking(meant[b]))
    BY <2>2 DEF IInv, LinkedOrUnset
  <2>4. CASE b # a
    BY <1>2, <1>8, <2>1, <2>3, <2>4
  <2>5. CASE b = a
    <3>1. address[a].parent = job[w].id
      BY <1>0, <1>1, <2>2, <2>5
    <3>2. meant[a] = job[w].id \/ Unlinking(meant[a])
      BY <2>3, <2>5, <3>1
    <3>3. Unlinking(meant[a])
      BY <1>0, <3>2 DEF Unlinking
    <3> QED
      BY <1>2, <1>9, <2>1, <2>2, <2>5, <3>3
  <2> QED
    BY <2>4, <2>5
<1>16. RequiredAtEntry'
  BY <1>2, <1>8, <1>9, <1>10 DEF IInv, RequiredAtEntry, Exists
<1>17. Known(w)'
  BY <1>0, <1>3, <1>5, <1>6
     DEF Known, ReadsHold, UnlinksOwn, Checked, SettingsKnown, RowsCounted, At, AtAny, Settings
<1>18. ~AtAny(w, Settings) /\ j.op \notin Settings
  BY <1>0, <1>5 DEF At, AtAny, Settings
<1>19. excused' \subseteq Ids /\ older' \subseteq Ids /\ meant' \in [Ids -> Ids \cup {None}]
  BY <1>1, <1>2, <1>3 DEF IInv, Typed
<1> QED
  BY <1>2, <1>4, <1>5, <1>11, <1>12, <1>14, <1>15, <1>16, <1>17, <1>18, <1>19, Stores

LEMMA DeleteAddressStep ==
    ASSUME AddressBookAssumption, IInv, NEW w \in Workers, DeleteAddress(w)
    PROVE  IInv'
<1> DEFINE s == job[w].id
           j == [job[w] EXCEPT !.op = "find", !.id = None]
<1>0. At(w, "unlink") /\ job[w] \in DeleteJob /\ s \in Ids
  BY HeldByOp DEF IInv, DeleteAddress, UnlinksOwn, At, AtAny, Deleting
<1>1. Goes(w, j) /\ UNCHANGED <<config, legacy, inUse, drift>>
  BY DEF DeleteAddress
<1>2. j \in Jobs /\ j.op = "find"
  BY <1>0 DEF Jobs, DeleteJob, Deleting
<1> HIDE DEF j
<1>3. job' = [job EXCEPT ![w] = j] /\ job'[w] = j /\ \A u \in Workers : u # w => job'[u] = job[u]
  BY <1>1, <1>2, Becomes DEF Goes, IInv
<1>4. Known(w)'
  BY <1>2, <1>3
     DEF Known, ReadsHold, UnlinksOwn, Checked, SettingsKnown, RowsCounted, At, AtAny, Settings
<1>5. /\ ~AtAny(w, Settings) /\ ~AtAny(w, {"readLegacy", "saveLegacy"}) /\ j.op \notin Settings
      /\ excused \subseteq Ids /\ drift \subseteq Type /\ LeftAlone(w) \subseteq Ids
  BY <1>0, <1>2 DEF LeftAlone, At, AtAny, Settings, IInv, Typed
<1>6. CASE s \in inUse
  <2>1. excused' = excused \cup LeftAlone(w) /\ UNCHANGED <<address, meant, older>>
    BY <1>6 DEF DeleteAddress
  <2> QED
    BY <1>1, <1>2, <1>3, <1>4, <1>5, <2>1, GoesOn DEF db
<1>7. CASE s \notin inUse
  <2>1. /\ address' = [a \in Ids |->
              IF a = s \/ ~Exists(address[a]) THEN Gone
              ELSE IF address[a].parent = s THEN [address[a] EXCEPT !.parent = None]
              ELSE address[a]]
        /\ meant' = [a \in Ids |-> IF a = s \/ meant[a] = s THEN None ELSE meant[a]]
        /\ older' = older \ {s} /\ excused' = excused \ {s}
    BY <1>7 DEF DeleteAddress
  <2> HIDE DEF s
  <2>2. \A a \in Ids : Exists(address'[a]) => a # s /\ Exists(address[a])
    BY <2>1 DEF Exists
  <2>3. ASSUME NEW a \in Ids, Exists(address[a]), a # s
        PROVE  /\ address'[a] \in Address /\ Exists(address'[a])
               /\ address'[a].type = address[a].type /\ address'[a].filled = address[a].filled
               /\ address'[a].parent = IF address[a].parent = s THEN None ELSE address[a].parent
    <3>1. address[a] \in Address
      BY <2>3 DEF IInv, Typed, Exists
    <3>2. address'[a] = IF address[a].parent = s THEN [address[a] EXCEPT !.parent = None] ELSE address[a]
      BY <2>1, <2>3
    <3>3. address'[a] \in Address => Exists(address'[a])
      BY AddressBookAssumption DEF AddressBookAssumption, Exists
    <3> QED
      BY <3>1, <3>2, <3>3 DEF Address
  <2>4. address' \in [Ids -> Address \cup {Gone}]
    <3>1. \A a \in Ids : address'[a] \in Address \cup {Gone}
      <4> SUFFICES ASSUME NEW a \in Ids PROVE address'[a] \in Address \cup {Gone}
        OBVIOUS
      <4>1. CASE Exists(address'[a])
        BY <2>2, <2>3, <4>1
      <4>2. CASE ~Exists(address'[a])
        BY <4>2 DEF Exists
      <4> QED
        BY <4>1, <4>2
    <3>2. address' = [a \in Ids |-> address'[a]]
      BY <2>1
    <3> QED
      BY <3>1, <3>2
  <2>5. Evolves
    BY <2>2, <2>3 DEF Evolves
  <2>6. \A a \in Ids : meant'[a] = IF a = s \/ meant[a] = s THEN None ELSE meant[a]
    BY <2>1
  <2>7. meant' \in [Ids -> Ids \cup {None}] /\ excused' \subseteq Ids /\ older' \subseteq Ids
    BY <2>1 DEF IInv, Typed
  <2>8. ParentsLive'
    <3>1. \A p \in OfType("ship_to") : p # s => p \in OfType("ship_to")'
      BY <2>3 DEF OfType
    <3>2. \A a \in Ids : Exists(address'[a]) => address'[a].parent \in (OfType("ship_to") \ {s}) \cup {None}
      BY <2>2, <2>3 DEF IInv, ParentsLive
    <3>3. inUse' \subseteq OfType("ship_to") \ {s}
      BY <1>1, <1>7 DEF IInv, ParentsLive, s
    <3> QED
      BY <3>1, <3>2, <3>3 DEF ParentsLive, Exists
  <2>9. LinkedOrUnset'
    <3>1. \A p : Unlinking(p) => p = s \/ Unlinking(p)'
      BY <1>0, <1>3 DEF Unlinking, At, s
    <3> SUFFICES ASSUME NEW b \in Ids, Exists(address'[b]), b \notin excused'
                 PROVE  \/ address'[b].parent = meant'[b]
                        \/ address'[b].parent = None /\ Unlinking(meant[b])' 
      BY DEF LinkedOrUnset, Exists
    <3>2. b # s /\ b \notin excused /\ Exists(address[b])
      BY <2>1, <2>2
    <3>3. address[b].parent = meant[b] \/ (address[b].parent = None /\ Unlinking(meant[b]))
      BY <3>2 DEF IInv, LinkedOrUnset
    <3>4. CASE meant[b] = s
      <4>1. meant'[b] = None
        BY <2>6, <3>4
      <4>2. address'[b].parent = None
        BY <2>3, <3>2, <3>3, <3>4
      <4> QED
        BY <4>1, <4>2
    <3>5. CASE meant[b] # s
      <4>1. meant'[b] = meant[b]
        BY <2>6, <3>2, <3>5
      <4>2. CASE address[b].parent = meant[b]
        BY <2>3, <3>2, <3>5, <4>1, <4>2
      <4>3. CASE address[b].parent = None /\ Unlinking(meant[b])
        <5>1. address'[b].parent = None
          BY <2>3, <3>2, <4>3
        <5>2. \E u \in Workers : At(u, "unlink")' /\ job'[u].id = meant'[b]
          <6>1. PICK u \in Workers : At(u, "unlink") /\ job[u].id = meant[b]
            BY <4>3 DEF Unlinking
          <6>2. u # w
            BY <3>5, <6>1 DEF s
          <6> QED
            BY <1>3, <4>1, <6>1, <6>2 DEF At
        <5>3. Unlinking(meant[b])'
          BY <5>2 DEF Unlinking
        <5> QED
          BY <5>1, <5>3
      <4> QED
        BY <3>3, <4>2, <4>3
    <3> QED
      BY <3>4, <3>5
  <2>10. RequiredAtEntry'
    <3>1. ASSUME NEW b \in Ids, Exists(address'[b]), ~address'[b].filled, legacy[address'[b].type]
          PROVE  b \in older'
      <4>1. b # s /\ Exists(address[b]) /\ ~address[b].filled /\ legacy[address[b].type]
        BY <2>2, <2>3, <3>1
      <4> QED
        BY <2>1, <4>1 DEF IInv, RequiredAtEntry
    <3> QED
      BY <1>1, <3>1 DEF RequiredAtEntry, Exists
  <2> QED
    BY <1>1, <1>2, <1>4, <1>5, <2>4, <2>5, <2>7, <2>8, <2>9, <2>10, Stores
<1> QED
  BY <1>6, <1>7

-----------------------------------------------------------------------------
\* The invariant.
LEMMA InitHolds ==
    ASSUME AddressBookAssumption, Init
    PROVE  IInv
<1>1. /\ job = [w \in Workers |-> Idle] /\ inUse = {} /\ excused = {} /\ older = {} /\ drift = {}
  BY DEF Init
<1>2. PICK s \in Ids, name \in Names, kids \in SUBSET Ids, req \in [Type -> BOOLEAN] :
        /\ s \notin kids /\ Cardinality(kids) <= 1
        /\ address = [a \in Ids |->
             IF a = s THEN [type |-> "ship_to", name |-> name, filled |-> TRUE, parent |-> None]
             ELSE IF a \in kids
             THEN [type |-> "install_at", name |-> name, filled |-> TRUE, parent |-> s]
             ELSE Gone]
        /\ meant = [a \in Ids |-> IF a \in kids THEN s ELSE None]
        /\ config = req /\ legacy = req
  BY Zenon DEF Init
<1>3. \A v \in Workers : Known(v)
  BY <1>1 DEF Known, ReadsHold, UnlinksOwn, Checked, SettingsKnown, RowsCounted, Idle, At, AtAny, Settings
<1>4. address \in [Ids -> Address \cup {Gone}]
  BY <1>2 DEF Address, Type
<1>5. Typed
  BY <1>1, <1>2, <1>4, IdleIsJob DEF Typed
<1>6. \A a \in Ids : Exists(address[a]) =>
         /\ address[a].filled /\ address[a].parent = meant[a]
         /\ address[a].parent \in {s, None}
  BY <1>2 DEF Exists
<1>7. s \in OfType("ship_to")
  <2>1. address[s] = [type |-> "ship_to", name |-> name, filled |-> TRUE, parent |-> None]
    BY <1>2
  <2>2. address[s] \in Address
    BY <2>1 DEF Address, Type
  <2>3. Exists(address[s])
    BY <2>2, AddressBookAssumption DEF AddressBookAssumption, Exists
  <2> QED
    BY <2>1, <2>3 DEF OfType
<1>8. ParentsLive /\ LinkedOrUnset /\ RequiredAtEntry
  BY <1>1, <1>6, <1>7 DEF ParentsLive, LinkedOrUnset, RequiredAtEntry
<1>9. RulesAgree
  BY <1>2 DEF RulesAgree
<1> QED
  BY <1>3, <1>5, <1>8, <1>9 DEF IInv, Known

LEMMA IInvStep ==
    ASSUME AddressBookAssumption, IInv, [Next]_vars
    PROVE  IInv'
<1>1. CASE UNCHANGED vars
  BY <1>1, StutterStep
<1>2. CASE UseAddress \/ Crash
  BY <1>2, UseAddressStep, CrashStep
<1>3. ASSUME NEW w \in Workers,
             \/ CheckAddress(w) \/ SaveAddress(w) \/ ReadAddress(w) \/ UpdateAddress(w)
             \/ HandleAddressDelete(w) \/ HandleAddressBulkDelete(w) \/ FindAddress(w)
             \/ Unlink(w) \/ UnlinkFails(w) \/ DeleteAddress(w) \/ DeleteEnds(w)
      PROVE  IInv'
  BY <1>3, CheckAddressStep, SaveAddressStep, ReadAddressStep, UpdateAddressStep, DeletesBegin,
     FindAddressStep, UnlinkStep, UnlinkFailsStep, DeleteAddressStep, EndsStep
<1>4. ASSUME NEW w \in Workers,
             \/ CommitAddressImport(w) \/ BuildLookup(w) \/ InsertChunk(w) \/ RollBackChunk(w)
             \/ ReportImport(w)
      PROVE  IInv'
  BY <1>4, CommitImportStep, BuildLookupStep, InsertChunkStep, RollBackStep, EndsStep
<1>5. ASSUME NEW w \in Workers,
             \/ HandleProjectSettingsSave(w) \/ ReadConfig(w) \/ SaveConfig(w)
             \/ ReadLegacy(w) \/ SaveLegacy(w) \/ SyncFails(w)
      PROVE  IInv'
  BY <1>5, SettingsSaveStep, ReadRuleStep, SaveConfigStep, SaveLegacyStep, SyncFailsStep
<1> QED
  BY <1>1, <1>2, <1>3, <1>4, <1>5 DEF Next

LEMMA Inductive == Spec => []IInv
<1>1. Init => IInv
  BY InitHolds, AddressBookAssumption
<1>2. IInv /\ [Next]_vars => IInv'
  BY IInvStep, AddressBookAssumption
<1> QED
  BY <1>1, <1>2, PTL DEF Spec

\* The state of the address book, and the part of a file that an import has
\* entered, are well formed.
THEOREM TypeCorrect == Spec => []TypeOK
<1>1. IInv => TypeOK
  BY DEF IInv, Typed, TypeOK, RowsCounted, Exists
<1> QED
  BY <1>1, Inductive, PTL

\* However many addresses there are and however deletions, edits and imports
\* overlap, a parent and an address that a transfer goes to are ship_to addresses
\* that exist (form lists, the relation ship_to_parent and its cascade).
THEOREM ParentsStayShipTo == Spec => []ParentsAreShipTo
<1>1. IInv => ParentsAreShipTo
  BY DEF IInv, Typed, ParentsLive, TypeOK, ParentsAreShipTo, RowsCounted, Exists
<1> QED
  BY <1>1, Inductive, PTL

\* No address loses its link but by the deletion of its parent, a refusal or a
\* break in that, or an overlapping write (nullifyLinkedInstallAtAddresses).
THEOREM LinksStay == Spec => []LinksAreKept
<1>1. IInv => LinksAreKept
  BY DEF IInv, LinkedOrUnset, LinksAreKept, Unlinking
<1> QED
  BY <1>1, Inductive, PTL

\* An address without the field that its type requires is older than the rule, by
\* whichever of the form, the edit and the import it came (ValidateAddress).
THEOREM RequiredWhenEntered == Spec => []RequiredAtEntry
<1>1. IInv => RequiredAtEntry
  BY DEF IInv
<1> QED
  BY <1>1, Inductive, PTL

\* The two copies of the rule agree outside a save of the settings, a fault in one
\* and an overlap of two (syncLegacyAddressSettings).
THEOREM RulesStayTogether == Spec => []RulesAgree
<1>1. IInv => RulesAgree
  BY DEF IInv
<1> QED
  BY <1>1, Inductive, PTL

\* Whatever the length of the file and of the chunks, the result of an import
\* counts every row once (CommitAddressImport).
THEOREM ImportCountsExactly == Spec => []ImportIsExact
<1>1. IInv => ImportIsExact
  <2> SUFFICES ASSUME IInv, NEW w \in Workers, At(w, "chunk")
               PROVE  /\ job[w].imported = Cardinality(job[w].entered)
                      /\ job[w].next > Len(job[w].rows) =>
                            job[w].imported + job[w].failed = Len(job[w].rows)
    BY DEF ImportIsExact
  <2>1. job[w].next \in Nat /\ Len(job[w].rows) \in Nat
    BY HeldByOp DEF IInv, ChunkJob
  <2> QED
    BY <2>1 DEF IInv, RowsCounted
<1> QED
  BY <1>1, Inductive, PTL
=============================================================================
