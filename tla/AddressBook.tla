----------------------------- MODULE AddressBook -----------------------------
(****************************************************************************)
(* The ship_to and install_at addresses of one project, the rule that makes *)
(* a field of theirs required, and the requests that work on them:          *)
(* handlers/address_create.go, address_edit.go, address_delete.go,          *)
(* project_settings.go and services/address_import.go.  The rule is stored  *)
(* twice, in address_configs, which the pages show, and in                  *)
(* project_address_settings, which the validation reads.                    *)
(*                                                                          *)
(* An address keeps its name (company_name, which an import refers to),     *)
(* whether the field under the rule is filled, and its ship_to_parent.      *)
(****************************************************************************)
EXTENDS Naturals, Sequences, FiniteSets, FiniteSetsExt, Functions

CONSTANTS
    Ids, Names,   \* ids of addresses; company names
    Files,        \* the files that are imported: [type, rows]
    importBatchSize,
    Workers,      \* request goroutines
    MaxRequests,  \* bound: requests
    MaxFaults,    \* bound: crashes, and saves that the database refuses
    Gone, None

Types == <<"ship_to", "install_at">>
Type == {"ship_to", "install_at"}

Address == [type : Type, name : Names, filled : BOOLEAN, parent : Ids \cup {None}]
FileRow == [name : Names, filled : BOOLEAN, ref : Names \cup {None}]

ASSUME AddressBookAssumption ==
    /\ importBatchSize \in Nat \ {0} /\ MaxRequests \in Nat /\ MaxFaults \in Nat
    /\ None \notin Ids /\ Gone \notin Address \cup Ids \cup {None}
    /\ \A f \in Files : f.type \in Type /\ f.rows \in Seq(FileRow)

VARIABLES
    address,  \* addresses
    config,   \* address_configs: for each type, whether the field is required
    legacy,   \* project_address_settings: the same
    inUse,    \* the addresses that transfer destinations go to
    job,      \* what each request is in the middle of
    meant,    \* ghost: the parent that each address was last given
    excused,  \* ghost: addresses whose link a refusal, crash or overlap may have cost
    older,    \* ghost: addresses stored or checked before the rule was tightened
    drift,    \* ghost: types whose two rules a fault or an overlap may have split
    requests, faults

db == <<address, config, legacy, inUse>>
ghosts == <<meant, excused, older, drift>>
vars == <<db, job, ghosts, requests, faults>>

Exists(row) == row # Gone
OfType(t) == {a \in Ids : Exists(address[a]) /\ address[a].type = t}

Idle == [op |-> "idle"]
At(w, op) == job[w].op = op
AtAny(w, ops) == job[w].op \in ops

Saving == {"save", "update", "lookup", "chunk"}
Deleting == {"find", "unlink"}
Settings == {"readConfig", "saveConfig", "readLegacy", "saveLegacy"}

\* A new record has an id that no request has read.
Mentioned ==
    UNION {IF At(w, "update") THEN {job[w].id, job[w].new.parent}
           ELSE IF At(w, "save") THEN {job[w].new.parent}
           ELSE IF At(w, "chunk") THEN {job[w].lookup[n] : n \in DOMAIN job[w].lookup}
           ELSE IF AtAny(w, Deleting) THEN {job[w].id} \cup job[w].todo \cup DOMAIN job[w].left
           ELSE {} : w \in Workers}
Free == {a \in Ids : ~Exists(address[a])} \ Mentioned

\* Some addresses, the install_at ones with or without a parent.
Init ==
    /\ \E s \in Ids, name \in Names, kids \in SUBSET Ids, req \in [Type -> BOOLEAN] :
        /\ s \notin kids /\ Cardinality(kids) <= 1
        /\ address = [a \in Ids |->
             IF a = s THEN [type |-> "ship_to", name |-> name, filled |-> TRUE, parent |-> None]
             ELSE IF a \in kids
             THEN [type |-> "install_at", name |-> name, filled |-> TRUE, parent |-> s]
             ELSE Gone]
        /\ meant = [a \in Ids |-> IF a \in kids THEN s ELSE None]
        /\ config = req /\ legacy = req
    /\ inUse = {} /\ job = [w \in Workers |-> Idle]
    /\ excused = {} /\ older = {} /\ drift = {}
    /\ requests = 0 /\ faults = 0

-----------------------------------------------------------------------------
Begins(w, j) ==
    /\ At(w, "idle")
    /\ requests < MaxRequests /\ requests' = requests + 1
    /\ job' = [job EXCEPT ![w] = j]
    /\ UNCHANGED <<db, meant, excused, older, faults>>

Goes(w, j) == job' = [job EXCEPT ![w] = j] /\ UNCHANGED requests
NoFault == UNCHANGED faults
Fault == faults < MaxFaults /\ faults' = faults + 1

\* What the validation lets pass, by the rule of project_address_settings.
ValidateAddress(t, filled) == legacy[t] => filled

\* A relation is saved if the record it names exists.
Related(parent) == parent \in {None} \cup {a \in Ids : Exists(address[a])}

\* Mutant: the list offers the addresses of both types.
FormAnyParent(t) ==
    {f \in [type : {t}, name : Names, filled : BOOLEAN,
            parent : {None} \cup {a \in Ids : Exists(address[a])}] :
        /\ t = "ship_to" => f.parent = None
        /\ ValidateAddress(t, f.filled)}

\* What an address form is submitted with; its list of parents is that of
\* the project's ship_to addresses.
Form(t) ==
    {f \in [type : {t}, name : Names, filled : BOOLEAN, parent : {None} \cup OfType("ship_to")] :
        /\ t = "ship_to" => f.parent = None
        /\ ValidateAddress(t, f.filled)}

\* HandleAddressSave: check the form, then save the address.
CheckAddress(w) ==
    /\ \E t \in Type : \E f \in Form(t) : Begins(w, [op |-> "save", type |-> t, new |-> f, old |-> FALSE])
    /\ UNCHANGED drift

\* The ghosts of an address that has just been stored.
Stored(a, parent, old, raced) ==
    /\ meant' = [meant EXCEPT ![a] = parent]
    /\ older' = (older \ {a}) \cup (IF old THEN {a} ELSE {})
    /\ excused' = (excused \ {a}) \cup (IF raced THEN {a} ELSE {})

SaveAddress(w) ==
    /\ At(w, "save") /\ Goes(w, Idle) /\ NoFault
    /\ IF Related(job[w].new.parent)
       THEN \E a \in Free :
            /\ address' = [address EXCEPT ![a] = job[w].new]
            /\ Stored(a, job[w].new.parent, job[w].old, FALSE)
       ELSE UNCHANGED <<address, meant, older, excused>>
    /\ UNCHANGED <<config, legacy, inUse, drift>>

\* Mutant: the edited form is not checked against the rule.
ReadAddressUnchecked(w) ==
    /\ \E a \in Ids, f \in [type : Type, name : Names, filled : BOOLEAN, parent : {None}] :
        /\ Exists(address[a]) /\ f.type = address[a].type
        /\ Begins(w, [op |-> "update", type |-> f.type, id |-> a, row |-> address[a],
                      new |-> f, old |-> FALSE])
    /\ UNCHANGED drift

\* HandleAddressUpdate: read the address and check the form, then save it.
ReadAddress(w) ==
    /\ \E a \in Ids : Exists(address[a]) /\ \E f \in Form(address[a].type) :
        Begins(w, [op |-> "update", type |-> f.type, id |-> a, row |-> address[a],
                   new |-> f, old |-> FALSE])
    /\ UNCHANGED drift

\* The columns that differ from the record as it was read are written; a row
\* that is gone stays so.
UpdateAddress(w) ==
    /\ At(w, "update") /\ Goes(w, Idle) /\ NoFault
    /\ LET a == job[w].id  read == job[w].row  new == job[w].new IN
       IF Exists(address[a]) /\ Related(new.parent)
       THEN /\ address' = [address EXCEPT ![a] =
                 [c \in DOMAIN @ |-> IF new[c] = read[c] THEN @[c] ELSE new[c]]]
            /\ Stored(a, new.parent, job[w].old \/ address[a] # read, address[a] # read)
       ELSE UNCHANGED <<address, meant, older, excused>>
    /\ UNCHANGED <<config, legacy, inUse, drift>>

-----------------------------------------------------------------------------
Delete(bulk, ids) == [op |-> "find", bulk |-> bulk, todo |-> ids, id |-> None, left |-> << >>]

\* HandleAddressDelete and HandleAddressBulkDelete, of one page's type.
HandleAddressDelete(w) ==
    /\ \E a \in Ids : Exists(address[a]) /\ Begins(w, Delete(FALSE, {a}))
    /\ UNCHANGED drift
HandleAddressBulkDelete(w) ==
    /\ \E t \in Type : \E ids \in SUBSET OfType(t) :
        Cardinality(ids) > 1 /\ Begins(w, Delete(TRUE, ids))
    /\ UNCHANGED drift

\* Mutant: every install_at address is unlinked.
linkedInstallAtAll(s) == OfType("install_at")

\* nullifyLinkedInstallAtAddresses: the addresses to unlink.
linkedInstallAt(s) == {a \in OfType("install_at") : address[a].parent = s}

\* Take the next address, and the links to it; one that is gone by now is passed over.
FindAddress(w) ==
    /\ At(w, "find") /\ job[w].todo # {}
    /\ \E a \in job[w].todo :
        Goes(w, [job[w] EXCEPT !.todo = @ \ {a},
            !.op = IF Exists(address[a]) THEN "unlink" ELSE "find",
            !.id = IF Exists(address[a]) THEN a ELSE None,
            !.left = IF a \in OfType("ship_to")
                     THEN [k \in linkedInstallAt(a) |-> address[k]] ELSE << >>])
    /\ NoFault /\ UNCHANGED <<db, ghosts>>

DeleteEnds(w) ==
    /\ At(w, "find") /\ job[w].todo = {}
    /\ Goes(w, Idle) /\ NoFault /\ UNCHANGED <<db, ghosts>>

\* The addresses that a deletion given up now leaves without their link.
LeftAlone(w) == IF At(w, "unlink") THEN {a \in Ids : meant[a] = job[w].id} ELSE {}

\* One of them is saved without its parent, whatever that is by now.
Unlink(w) ==
    /\ At(w, "unlink")
    /\ \E a \in DOMAIN job[w].left :
        /\ Goes(w, [job[w] EXCEPT !.left = Restrict(@, DOMAIN @ \ {a})])
        /\ address' = [address EXCEPT ![a] = IF Exists(@) THEN [@ EXCEPT !.parent = None] ELSE @]
        /\ excused' = IF Exists(address[a]) /\ address[a] # job[w].left[a]
                      THEN excused \cup {a} ELSE excused
    /\ NoFault /\ UNCHANGED <<config, legacy, inUse, meant, older, drift>>

\* That save fails: a single deletion ends, a bulk one deletes nevertheless.
UnlinkFails(w) ==
    /\ At(w, "unlink") /\ DOMAIN job[w].left # {} /\ Fault
    /\ Goes(w, IF job[w].bulk THEN [job[w] EXCEPT !.left = << >>] ELSE Idle)
    /\ excused' = excused \cup LeftAlone(w)
    /\ UNCHANGED <<db, meant, older, drift>>

\* An address that a destination requires is refused to go; the parents that
\* name one that goes are unset.
DeleteAddress(w) ==
    /\ At(w, "unlink") /\ DOMAIN job[w].left = {}
    /\ Goes(w, [job[w] EXCEPT !.op = "find", !.id = None]) /\ NoFault
    /\ LET s == job[w].id IN
       IF s \in inUse
       THEN excused' = excused \cup LeftAlone(w) /\ UNCHANGED <<address, meant, older>>
       ELSE /\ address' = [a \in Ids |->
                 IF a = s \/ ~Exists(address[a]) THEN Gone
                 ELSE IF address[a].parent = s THEN [address[a] EXCEPT !.parent = None]
                 ELSE address[a]]
            /\ meant' = [a \in Ids |-> IF a = s \/ meant[a] = s THEN None ELSE meant[a]]
            /\ older' = older \ {s} /\ excused' = excused \ {s}
    /\ UNCHANGED <<config, legacy, inUse, drift>>

\* The transfer wizard sends a destination to a ship_to address, and the
\* deletion of the transfer lets it go.
UseAddress ==
    /\ \/ \E a \in OfType("ship_to") \ inUse : inUse' = inUse \cup {a}
       \/ \E a \in inUse : inUse' = inUse \ {a}
    /\ UNCHANGED <<address, config, legacy, job, ghosts, requests, faults>>

-----------------------------------------------------------------------------
Named(n) == {s \in OfType("ship_to") : address[s].name = n}

\* revalidateImportRows: one row that fails keeps the whole file out.
RowIsValid(t, row) ==
    /\ ValidateAddress(t, row.filled)
    /\ (t = "install_at" /\ row.ref # None) => Named(row.ref) # {}

\* CommitAddressImport.
CommitAddressImport(w) ==
    /\ \E f \in Files :
        /\ \A i \in DOMAIN f.rows : RowIsValid(f.type, f.rows[i])
        /\ Begins(w, [op |-> "lookup", type |-> f.type, rows |-> f.rows, old |-> FALSE])
    /\ UNCHANGED drift

\* buildShipToLookup: of equal names the last one read is kept.
BuildLookup(w) ==
    /\ At(w, "lookup")
    /\ \E lookup \in [{n \in Names : Named(n) # {}} -> OfType("ship_to")] :
        /\ \A n \in DOMAIN lookup : lookup[n] \in Named(n)
        /\ Goes(w, [op |-> "chunk", type |-> job[w].type, rows |-> job[w].rows, old |-> job[w].old,
                    lookup |-> IF job[w].type = "install_at" THEN lookup ELSE << >>,
                    next |-> 1, imported |-> 0, failed |-> 0, entered |-> {}])
    /\ NoFault /\ UNCHANGED <<db, ghosts>>

\* Mutant: the end of a chunk is in the next one too.
ChunkOverlapping(from, rows) == {i \in DOMAIN rows : i \in from..(from + importBatchSize)}

Chunk(from, rows) == {i \in DOMAIN rows : i \in from..(from + importBatchSize - 1)}

ParentOf(j, i) ==
    IF j.type = "ship_to" \/ j.rows[i].ref = None THEN None
    ELSE IF j.rows[i].ref \in DOMAIN j.lookup THEN j.lookup[j.rows[i].ref] ELSE Gone

\* The chunk of one transaction, and what the loop counts of it.
Counts(w, chunk, good) ==
    Goes(w, [job[w] EXCEPT
        !.next = @ + importBatchSize,
        !.imported = @ + (IF good THEN Cardinality(chunk) ELSE 0),
        !.failed = @ + (IF good THEN 0 ELSE Cardinality(chunk)),
        !.entered = @ \cup (IF good THEN chunk ELSE {})])

\* insertChunk: all rows of the chunk, in one transaction.
InsertChunk(w) ==
    /\ At(w, "chunk") /\ job[w].next <= Len(job[w].rows) /\ NoFault
    /\ LET chunk == Chunk(job[w].next, job[w].rows) IN
        /\ \A i \in chunk : Related(ParentOf(job[w], i))
        /\ \E ids \in kSubset(Cardinality(chunk), Free) :
           \E id \in {f \in [chunk -> ids] : \A a \in ids : \E i \in chunk : f[i] = a} :
            LET row(a) == CHOOSE i \in chunk : id[i] = a IN
            /\ address' = [a \in Ids |-> IF a \notin ids THEN address[a] ELSE
                 [type |-> job[w].type, name |-> job[w].rows[row(a)].name,
                  filled |-> job[w].rows[row(a)].filled, parent |-> ParentOf(job[w], row(a))]]
            /\ meant' = [a \in Ids |-> IF a \in ids THEN ParentOf(job[w], row(a)) ELSE meant[a]]
            /\ older' = (older \ ids) \cup (IF job[w].old THEN ids ELSE {})
            /\ excused' = excused \ ids
        /\ Counts(w, chunk, TRUE)
    /\ UNCHANGED <<config, legacy, inUse, drift>>

\* A row whose parent is gone, or a fault, rolls the chunk back; the next
\* chunk is tried all the same.
RollBackChunk(w) ==
    /\ At(w, "chunk") /\ job[w].next <= Len(job[w].rows)
    /\ LET chunk == Chunk(job[w].next, job[w].rows) IN
        /\ IF \E i \in chunk : ~Related(ParentOf(job[w], i)) THEN NoFault ELSE Fault
        /\ Counts(w, chunk, FALSE)
    /\ UNCHANGED <<db, ghosts>>

\* The page with the result.
ReportImport(w) ==
    /\ At(w, "chunk") /\ job[w].next > Len(job[w].rows)
    /\ Goes(w, Idle) /\ NoFault /\ UNCHANGED <<db, ghosts>>

-----------------------------------------------------------------------------
\* HandleProjectSettingsSave: for each type read and save its config, then
\* read and save its legacy row.  Two that overlap are not alone.
HandleProjectSettingsSave(w) ==
    LET others == {v \in Workers : AtAny(v, Settings)} IN
    /\ At(w, "idle") /\ requests < MaxRequests /\ requests' = requests + 1
    /\ \E req \in [Type -> BOOLEAN] :
        job' = [v \in Workers |->
            IF v = w THEN [op |-> "readConfig", req |-> req, todo |-> Types, read |-> FALSE,
                           alone |-> others = {}]
            ELSE IF v \in others THEN [job[v] EXCEPT !.alone = FALSE] ELSE job[v]]
    /\ drift' = IF others = {} THEN drift ELSE Type
    /\ UNCHANGED <<db, meant, excused, older, faults>>

Saves(t, read, req, now) == IF read = req THEN now[t] ELSE req

ReadRule(w, op, next, rule) ==
    /\ At(w, op) /\ Goes(w, [job[w] EXCEPT !.op = next, !.read = rule[Head(job[w].todo)]])
    /\ NoFault /\ UNCHANGED <<db, ghosts>>

ReadConfig(w) == ReadRule(w, "readConfig", "saveConfig", config)

\* Mutant: what the legacy row holds is taken from the config.
ReadLegacyFromConfig(w) == ReadRule(w, "readLegacy", "saveLegacy", config)

ReadLegacy(w) == ReadRule(w, "readLegacy", "saveLegacy", legacy)

SaveConfig(w) ==
    /\ At(w, "saveConfig")
    /\ LET t == Head(job[w].todo) IN
        \/ /\ config' = [config EXCEPT ![t] = Saves(t, job[w].read, job[w].req[t], config)]
           /\ Goes(w, [job[w] EXCEPT !.op = "readLegacy"]) /\ NoFault
        \/ Fault /\ Goes(w, Idle) /\ UNCHANGED config
    /\ UNCHANGED <<address, legacy, inUse, ghosts>>

SettingsNext(w) ==
    IF Len(job[w].todo) = 1 THEN Idle
    ELSE [job[w] EXCEPT !.op = "readConfig", !.todo = Tail(@)]

\* A tighter rule finds the addresses stored and the forms checked before it.
SaveLegacy(w) ==
    /\ At(w, "saveLegacy") /\ NoFault
    /\ LET t == Head(job[w].todo)
           new == Saves(t, job[w].read, job[w].req[t], legacy)
           tighter == new /\ ~legacy[t]
       IN
        /\ legacy' = [legacy EXCEPT ![t] = new]
        /\ job' = [v \in Workers |->
             IF v = w THEN SettingsNext(w)
             ELSE IF tighter /\ AtAny(v, Saving) /\ job[v].type = t THEN [job[v] EXCEPT !.old = TRUE]
             ELSE job[v]]
        /\ older' = IF tighter THEN older \cup OfType(t) ELSE older
        /\ drift' = IF job[w].alone THEN drift \ {t} ELSE drift
    /\ UNCHANGED <<address, config, inUse, meant, excused, requests>>

\* syncLegacyAddressSettings only logs that its save failed.
SyncFails(w) ==
    /\ At(w, "saveLegacy") /\ Fault
    /\ Goes(w, SettingsNext(w))
    /\ drift' = drift \cup {Head(job[w].todo)}
    /\ UNCHANGED <<db, meant, excused, older>>

\* The process dies, and starts again on the same rows.
Crash ==
    /\ \E w \in Workers : ~At(w, "idle")
    /\ Fault /\ job' = [w \in Workers |-> Idle]
    /\ excused' = excused \cup UNION {LeftAlone(w) : w \in Workers}
    /\ drift' = drift \cup {Head(job[w].todo) : w \in {v \in Workers : AtAny(v, {"readLegacy", "saveLegacy"})}}
    /\ UNCHANGED <<db, meant, older, requests>>

Next ==
    \/ \E w \in Workers :
        \/ CheckAddress(w) \/ SaveAddress(w) \/ ReadAddress(w) \/ UpdateAddress(w)
        \/ HandleAddressDelete(w) \/ HandleAddressBulkDelete(w) \/ FindAddress(w)
        \/ Unlink(w) \/ UnlinkFails(w) \/ DeleteAddress(w) \/ DeleteEnds(w)
        \/ CommitAddressImport(w) \/ BuildLookup(w) \/ InsertChunk(w) \/ RollBackChunk(w)
        \/ ReportImport(w)
        \/ HandleProjectSettingsSave(w) \/ ReadConfig(w) \/ SaveConfig(w)
        \/ ReadLegacy(w) \/ SaveLegacy(w) \/ SyncFails(w)
    \/ UseAddress \/ Crash

Spec == Init /\ [][Next]_vars

-----------------------------------------------------------------------------
TypeOK ==
    /\ \A a \in Ids : Exists(address[a]) => address[a] \in Address
    /\ config \in [Type -> BOOLEAN] /\ legacy \in [Type -> BOOLEAN]
    /\ inUse \subseteq Ids /\ excused \subseteq Ids /\ older \subseteq Ids /\ drift \subseteq Type
    /\ \A w \in Workers : At(w, "chunk") => job[w].entered \subseteq DOMAIN job[w].rows

\* A parent, and an address that a transfer goes to, is a ship_to address that
\* exists, whatever is deleted meanwhile.
ParentsAreShipTo ==
    /\ TypeOK
    /\ \A a \in Ids : Exists(address[a]) => address[a].parent \in OfType("ship_to") \cup {None}
    /\ inUse \subseteq OfType("ship_to")

\* An address keeps the parent it was given for as long as that exists, unless
\* the parent's deletion is under way, was refused or broke off, or a request
\* wrote the address beside another one.
LinksAreKept ==
    \A a \in Ids : Exists(address[a]) =>
        \/ address[a].parent = meant[a] \/ a \in excused
        \/ \E w \in Workers : At(w, "unlink") /\ job[w].id = meant[a]

\* An address lacks the required field only if it was stored, or its form or
\* file checked, before the rule came.
RequiredAtEntry ==
    \A a \in Ids : Exists(address[a]) /\ ~address[a].filled /\ legacy[address[a].type] => a \in older

\* The two copies of the rule are one: what the settings page shows and saves
\* (config) is what the forms of addresses show and check (legacy), except while
\* it is being saved, after a crash or refusal between the two saves, and after
\* two saves of the settings overlapped.
RulesAgree ==
    \A t \in Type :
        \/ config[t] = legacy[t] \/ t \in drift
        \/ \E w \in Workers : AtAny(w, {"readLegacy", "saveLegacy"}) /\ Head(job[w].todo) = t

\* The result of an import counts every row of the file once, and as imported
\* those that are in.
ImportIsExact ==
    \A w \in Workers : At(w, "chunk") =>
        /\ job[w].imported = Cardinality(job[w].entered)
        /\ job[w].next > Len(job[w].rows) => job[w].imported + job[w].failed = Len(job[w].rows)

\* The page of a failed import: "The import was rolled back due to errors."
RolledBackMeansNothing ==
    \A w \in Workers : At(w, "chunk") /\ job[w].next > Len(job[w].rows) =>
        (job[w].failed > 0 => job[w].imported = 0)
=============================================================================
