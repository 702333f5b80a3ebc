# ProjectTracker in TLA+

ProjectTracker is a Go web application (PocketBase on SQLite, HTMX pages) for
contractors: projects with bills of quantities, purchase orders to vendors, and
delivery challans that accompany goods. This directory holds a specification of
it, the configurations that TLC checks, and theorems that TLAPS proves.

Checking one run: `tlc -config Lifecycle.cfg MCDCLifecycle.tla`; the proofs:
`tlapm DCLifecycleProofs.tla`. `PROJECT.json` lists runs, the source lines each
definition models, the mutants each property detects, and the theorems.

## 1. Inventory

Each HTTP handler runs in a goroutine of its own. `app.Save`, `app.Find...` and
`app.Delete` are atomic one by one; only `NextDocNumber` and the chunks of an
address import wrap several calls in a transaction. There is no lock, no version
column and no background job, so every handler that makes several calls can
interleave with every other one, stop at an error between two calls, or die with
the process.

| Component | State (collections) | Operations | Talks to |
|---|---|---|---|
| Document numbering (`services/numbering.go`, `po_number.go`) | `number_sequences`, `projects.*_seq_start_*`, `*_prefix`, `*_separator`, `*_number_format`, `*_seq_padding`, `reference_number` | `NextDocNumber`, settings save, project edit | called by PO and challan creation |
| Challan creation (`services/dc_creation.go`) | `shipment_groups`, `delivery_challans`, `dc_line_items`, `serial_numbers`, `transfer_dcs`, `transfer_dc_destinations`, `transfer_dc_dest_quantities` | `CreateDirectShipment`, `CreateTransferDC` | numbering; the wizards |
| Issue (`services/dc_issue.go`, `serial_validation.go`) | status columns | `IssueShipmentGroup`, `IssueTransferDC`, `IssueSingleDC`, `validateDCSerials` | reads serials of the whole project and all templates |
| Split and undo (`services/dc_split.go`) | `transfer_dc_splits`, marks on destinations, `num_split`, parent status | `CreateSplit`, `UndoSplit` | creates groups as creation does |
| Deletion (`handlers/dc_delete.go`, `shipment_group.go`) | all of the above | `HandleDCDelete`, `HandleShipmentGroupDelete` | shares groups with split, without telling it |
| Schema (`collections/setup.go`) | required columns, cascades | start-up | every save and delete |
| Challan wizards (`handlers/dc_wizard.go`, `split_wizard.go`) | hidden fields of the pages only | the steps, forwards and backwards, and a create | creation, split, serial advice |
| Challan templates (`handlers/dc_template_*.go`) | `dc_templates`, `dc_template_items` | save, update, duplicate, delete | read by wizard and issue |
| Bill of quantities (`handlers/boq_*.go`, `items.go`, `services/pricing.go`) | `boqs`, `main_boq_items`, `sub_items`, `sub_sub_items` | create, whole-form update, patches, deletes, roll-up | templates, PO lines |
| Purchase orders (`handlers/po_*.go`, `services/po_pricing.go`) | `purchase_orders`, `po_line_items` | create, edit, lines, delete | numbering, vendors, BOQ |
| Vendors (`handlers/vendor_*.go`) | `vendors`, `project_vendors` | create, edit, link, unlink, delete | purchase orders |
| Addresses (`handlers/address_*.go`, `services/address_*.go`) | `addresses`, `address_configs`, `project_address_settings` | create, edit, delete, bulk delete, import | challans, install-at parents |
| Projects (`handlers/project_*.go`) | `projects`, the cookie `active_project` | create, edit, visit, activate, delete, settings | everything cascades from them |
| Start-up (`main.go`, `collections/*.go`) | all relations to projects | seed and three migrations at every start | crash and restart |
| Transporters (`handlers/transporter_*.go`) | `transporters`, `transporter_vehicles` | create, edit, toggle, vehicles | listed by the wizards |
| Server, middleware, pages (`main.go`, `handlers/middleware.go`, `templates/`) | the cookie; what each tab shows | routes, redirects, shell, every link and form | all handlers |
| Documents and exports (`services/*export*.go`) | none | render rows | — |

**What makes it hard.** Read-check-write over several calls (split, undo,
issue, links, sort orders, settings); values kept in memory over other requests'
writes (`num_split`, parent status, numbering settings, sums of a bill); errors
that are returned in one place and dropped in the next; cascades; a crash between
two calls and start-up migrations that run again; pages that carry earlier
answers in hidden fields or show what is no longer true; a template and a handler
that decide the same thing apart. PocketBase writes back only the columns that
changed since the row was loaded, so overlapping saves merge column by column.

**What makes it correct**, per component: numbers are never reused, skipped or
rewound, and print different texts while their wording stays; a group is created,
issued and dropped as a whole; a destination is shipped once; parent counter, parent
status, marks and groups tell one story;
issuing is final; nothing outlives its group, its project, its order or its
parent row; a start repairs what earlier ones left and always ends; stored
budgets are the sums of what is below them; an order goes through its stages;
what the wizard creates is what it showed; an address import counts what it did;
issued lines carry the serials their tracking asks for; every link leads
somewhere and every button does what its page offers. `PROJECT.json` lists the
hazards with the line where each one bites.

## 2. Modules

| Module | Models |
|---|---|
| `Numbering` | numbering, at the grain: settings read / transaction / document save |
| `NumberingProofs` | the theorems of `Numbering` and of `SerialIssue` |
| `ShipmentContract` | abstract: groups, plans and covered destinations |
| `DCLifecycle` | the challan requests, one at a time, over the real rows; refines `ShipmentContract` |
| `DCLifecycleProofs` | its theorems |
| `ChallanStore` | the same requests, one database call per step, with overlap, failed calls and crashes; instantiates `DCLifecycle` |
| `ChallanStoreProofs` | its theorems |
| `SerialIssue` | serial numbers from the wizard's form to the issue |
| `Wizard` | the wizard's pages and what they create: quantities, tax type, serials, prices |
| `Startup` | seed, migrations, creation and deletion of projects, restarts; liveness |
| `StartupProofs` | its theorems |
| `BOQRollup` | the items of a bill and their stored budgets, call by call |
| `WizardProofs` | the theorems of `Wizard` and of `BOQRollup`: both add up over finite sets |
| `Purchasing` | vendors, links, orders, lines: look first, write later |
| `PurchasingProofs` | its theorems |
| `AddressBook` | addresses with parents, import, required fields |
| `AddressBookProofs` | its theorems |
| `Pages` | the routes, and what each page offers |
| `Server` | the handlers behind the pages, a reader and other tabs |
| `ServerProofs` | its theorems |
| `MC*` | symmetry and value sets for TLC |

Type invariants are the first conjunct of the first invariant of a run, except in
`Numbering` and `DCLifecycle`, where they stand alone; all are proved (section 4).

### Numbering

`ReadSettings` is `NextDocNumber` up to its transaction (project row, group of
settings, start number), `DrawNumber` the transaction, `SaveDocument` the save
of the caller. `Abort` and `Crash` end a request at any point, `DeleteDocument`
deletes a draft, `SaveSettings` is the settings form and `EditProject` the
project's own form, which changes its reference number. `key` is the unique
(project, type, financial year) of a `number_sequences` row, `last` its
`last_number` (0: no row). SQLite serialises the write transactions, so
`DrawNumber` is one step.

A text is a sequence of symbols, a token such as `{SEQ}` being one symbol and any
other character one. `style` is what the settings store of a group's wording
(prefix, separator, format, padding), `Defaulted` what `NextDocNumber` makes of
its empty fields, and `FormatDocNumber` replaces the tokens in the order of the
code, so that a token in a prefix is replaced later and one in the reference
number is not; `Padded` is `%0*d`. Left out: a token that comes about in the
middle of two texts that are joined.

### DCLifecycle and ShipmentContract

Rows by column: `dcStatus`, `sgStatus`, `sgTransfer` (`shipment_groups.transfer_dc`),
`splitNumber` (0: no `transfer_dc_splits` row), `tStatus`, `dests`, `isSplit`,
`splitGroup`, `numDest`, `numSplit`. Each service or handler is one action that
makes all of its writes. `Splittable`, `StatusAfterSplit`, `StatusAfterUndo`,
`UndoneCount` and `UndoneDests` are the code's decisions on their own lines.
Serial validation is left to `SerialIssue`: whether it passes is open here.
`Places` are the ship-to rows of the wizard, which requires them all filled in,
so `num_destinations` is their number. `ShipmentContract` knows no rows or
counters: groups appear, are issued and dropped as a whole; a split covers
destinations nobody covers. `Contract` maps the rows onto it (`GroupState` reads
the challans, not the group's own status), and TLC checks `Contract!Spec`.

### ChallanStore

A request is a record with its next call (`pc`) and what it holds in memory
(`num`, `status`, `marked`, `named`, `linked`, `todo`). Calls that the code
checks can end the request (`CallFails`); calls whose error it drops go on with
`ok = FALSE` (`LooseCall`); `SkipOfficial` is the `continue` at
`dc_split.go:271`. `Saved` is PocketBase's write of changed columns. Saving a
challan into a group that is gone is refused (relation check), saving a deleted
row has no effect. Reading the split row is part of `BeginUndo`, and reads that
can only reject the request are merged into its first step. One transfer is
enough: transfers share no row, and direct shipments are there beside its
splits. `settled` remembers the rows when no request was last in flight, so that
`RunsAsLifecycle` can map whole requests onto the actions of `DCLifecycle`;
`overlapped` remembers whether two requests ever were in flight at once, which is
what several properties are conditional on.

### SerialIssue

`tracking` is the template rows' `serial_tracking`, `line` the lines of the
transit and transfer challans with their serials. `IssueChallan` is
`validateDCSerials` as written: it drops from the project's serials those that
*equal* one of the challan's own, looks tracking up by item over all templates
(the first row the database returns: any), and fails only on a wrong count or
duplicates. Creation validates nothing: the wizard's review step only shows
what it found.

### Wizard

`tab` is the page the user is on with the fields it carries; the server keeps
nothing between the pages. The steps are the handlers' names, forwards
(`HandleDCWizardStep2` ... `HandleDCCreate`) and backwards, each with the page
shown again when it finds errors. A typed quantity is a pair: what `Atoi` (the
review, `dc_wizard.go:769`) and what `Sscanf` (the creation,
`dc_creation.go:509`) read of it, because "1e1" is nothing to the one and 1 to
the other. `shipment` is what was created last: lines, parts per destination, tax
type, serials, rates. `SerialsElsewhere` lets other users store serials. Assumed:
the states of addresses do not change while the pages are open, the back buttons
submit a form of their own, number inputs have `min=0`, the third page has a
field for every item and destination (`WizardAssumption`); the creation succeeds as
a whole (its partial failures are in `ChallanStore`). The templates write each back
form inside the form of its page (`dc_wizard_step2.templ:114` and `:370`, `step3` at
`:123` and `:287`, `step4` at `:156` and `:417`), where a browser drops it and lets
its button submit the page forwards; the model takes the button at its word, and so
has more behaviours than the browser.

### Startup

Four projects, a bill and an address: only which project owns what. `Start`,
`SeedProject` ... `ConfigsEnd` are `main.go`'s sequence before it serves, a save
per step: the seed if no project exists, then the adoption of bills without a
project (`AdoptProject` saves a project named like the bill, `AdoptLink` links it),
the settings and the address configs. `Serve` opens the server for the requests:
creating a project (which runs the settings migration beside them), deleting one
(bills deleted or unlinked one by one, `LeaveBOQ`, then `DeleteProject` with its
cascades), and handlers of one save. `Saved`, `Refused` and `Fails` are the three
outcomes of a save: done, refused because its project is gone, failed. `Crash` is
at any moment, `Stop` at rest. `Init` is any database of an earlier version, which
is what the migrations are for. An id that nothing mentions is reused, so that
restarts can go on for ever over finitely many states.

### BOQRollup

One main item, its sub-items and theirs (leaves), rows of `MainItem`, `SubItem` and
`SubSubItem`; main items share nothing. A
request saves a row and then recalculates upwards in separate calls (`SaveLeaf`,
`ReadSub`, `SaveSub`, `ReadMain`, `SaveMain`), the deletions cascade
(`WithoutKids`), and the update of the whole bill (`BeginUpdate` ...
`EndUpdate`) saves leaves, sub-items and main item from the bottom up with the
sums it has so far. `Update` writes the changed columns only. `Accepts` is the
schema's Required: a number 0 is refused. `causes` records why stored budgets may
disagree (a row added without recalculation, a patch of the main item, overlap, a
refused save, a crash); an undisturbed update of the whole bill clears it. New
main items are not modelled: none can be saved (section 5).

### Purchasing

Each handler that looks and then writes is two steps with what it holds in `job`:
`FindLink`/`SaveLink`, `FindOrders`/`DeleteLink`, `FindVendor`/`DeleteVendor`,
`HandlePOCreate` (the form, with its list of linked vendors)/`HandlePOSave`,
`ReadOrder`/`SaveOrder`, `FindDraft`/`DeleteOrder`, `FindPlace`/`SaveLine`. What
the schema holds back is refused at the write (`Required`: a vendor with orders).
`past` remembers the statuses an order has had and `raced` which pairs of
conflicting requests have overlapped, which is what `LooksHold` is conditional on.

### AddressBook

The two types with relations or imports, `ship_to` and `install_at`; one field
stands for all that settings may require, and an address (`Address`, and `FileRow` in an
import) has its name, that field and its parent. The rule is in `config` (which the settings page shows) and `legacy` (which the
forms show, `address_create.go:41`, and the validation reads), saved one after the other. Deletion finds, unlinks
(`Unlink`, one address at a time, or its failure) and deletes; an address that a
transfer goes to is held back. `CommitAddressImport`, `BuildLookup` and
`InsertChunk`/`RollBackChunk` are the import, a transaction per chunk. Assumed:
the config rows of both types exist, as the settings page leaves them, and the
defaults of both copies agree. The ghosts `meant`, `excused`, `older` and `drift`
name the exceptions of the properties.

### Pages and Server

`Pages` has the routes of `main.go` group by group and one operator per page,
named like the function that renders it (`POListContent` is in
`templates/po_list_templ.go`, the compiled form of `po_list.templ`, which `map`
points to); an operator is the set of the requests that the page's links, buttons
and forms send, with the conditions under which the template writes them. A
request has a verb, a path (`at`, `rest`, the project in front of it and, for
addresses, the slug), and the place its answer is put in: the window (`"page"`) or
the element HTMX swaps. `Link` is an anchor that does both, with or without a
modifier key. `Server` has one action per handler: what it looks up, what it
changes, and how it answers (`Content`: whole page or bare content by the
`HX-Request` header; `Full`: always a whole page; `Piece`: a fragment; `GoTo`:
`HX-Redirect`; `Refused` and `Complain`: a toast with 4xx). `Landed` is what HTMX
and the browser make of it.

The state: `projects`; `doc`, one followed document of the project `Home` (a bill,
order, vendor, transporter, template, address or challan) with its status as far
as pages tell it apart; `active`, the cookie; `tab`, the page with the project and
the document *as it was when rendered*, and the project of its shell; `last`, how
the last request ended. `Follow` sends anything the page offers, `Load` follows a
redirect, `Type` opens a bookmark, `Elsewhere` is any changing request from
another tab of the same browser, whose cookie is the same.

Abstractions: ids are never reused; rows are counted none or some; "sent" stands
for sent, acknowledged and completed, "transit" for either challan of a group,
"exhausted" for a transfer with no destination left that is not marked split; the
document is created once, by the reader or elsewhere; lists show other documents
too but their links are the same requests; failures of the database and the
browser's history are left out; deleting a project may leave its bill unlinked
instead of deleted, as `Startup` has it. Handlers that no page offers (deactivate,
PO export, patches of BOQ rows, serial validation, undo of a split) have routes in
`Pages` and no action here; undo and patches are in `DCLifecycle` and `BOQRollup`.

## 3. Runs

| Run | States | Instance | Shows |
|---|---|---|---|
| `numbering` | 1.0 million | 2 requests, types `po`, `tdc` and `stdc`, 2 dates around 1 April, starts 1, 3 and 9, 5 wordings, 2 references | `UniqueNumbers`, `NoHoles`, `UniqueTexts`, `NeverRewinds` |
| `lifecycle` | 16 thousand | 3 groups, 1 transfer, 3 places | `GroupIsUniform`, `ShippedOnce`, `StatusMatchesCounter`, `RowsAgree`, `IssuedIsFinal`, and the refinement `ImplementsContract` |
| `store` | 1.2 million | 3 requests, 2 at a time, 2 groups, 2 places, 1 crash, 1 failed call | `NoOrphans`, `MarkedAfterShipped`, `CountNeverInvents` whatever overlaps; `IssuedIsWhole`, `DriftIsBounded`, `IssuedGroupStays` without overlap; `RunsAsLifecycle` without overlap and fault |
| `serial_issue` | 18 thousand | 2 challans, 2 templates, 2 serials, up to 3 typed | `IssuedLinesDistinct`, `RequiredIsCounted` |
| `wizard` | 778 thousand | 2 items, 2 destinations in two states, 6 answers, 6 typings | `QuantitiesAreConserved`, `TaxTypeFollowsStates`, `CleanReviewMeansCleanSerials` |
| `startup` | 126 thousand | 4 project ids, 1 bill, 1 address, 2 requests, 1 fault | `OwnersLive`, `DuplicatesNeedFaults`, `ServingIsMigrated`, `EventuallyAdopted` (liveness) |
| `boq` | 897 thousand | 2 sub-items, 1 leaf, values 1 and 2, 2 workers, 3 requests, 1 crash | `NoOrphanRows`, `RolledUpUnlessCaused` |
| `purchasing` | 157 thousand | 1 vendor, 1 order, 3 lines, 2 workers, unbounded requests | `NoDangling`, `LooksHold`, `StagesInOrder` |
| `address_book` | 197 thousand | 4 addresses, 2 names, 2 files, chunks of 2, 2 requests, 1 fault | `ParentsAreShipTo`, `LinksAreKept`, `RequiredAtEntry`, `RulesAgree`, `ImportIsExact` |
| `pages` | 79 thousand | 2 projects, types `ship_from` and `ship_to`, every page | `NoDeadLinks`, `LandsWhereItFits`, `OffersAreTaken`, `ShellFollowsBody` |
| `serial_twice` | | 2 challans, 1 template | counterexample to the design document, section 5 |
| `unpriced` | | as `wizard` | counterexample to the design document, section 5 |

**Bounds.** *Numbering*: two requests race for a number or follow one another, which
is all a property about two numbers can see; that a third changes nothing is among
what the theorems say. Two dates and three types make every pair of sequences, of one
settings group and of two. 9 and 10 differ in length; the wordings put digits before
and behind the number and bring a second `{SEQ}` in by the prefix, two of them differ
in their padding only, and the code of one type ends like that of another.
*Challans*: three
places let a split leave none, one or two others, and three groups let a split, an
undone or deleted one and another live together; a fourth group repeats. In
`ChallanStore` every hazard is between two requests, so two are in flight at a
time (`MaxActive`) and a third runs before or after them (a split to undo must
have been created); `MaxCrashes` and `MaxErrors` count faults, and the drift
property is stated relative to their number. A creation starts only while an
unused group id remains: the code's ids never run out. *Startup*: four project
ids hold the seed's, one made by hand, one adopted and one adopted again after a
fault; `MaxLive` bounds what is created by hand. *BOQRollup*: two sub-items make a
sum that one of them can be stale in, one leaf a third level; the form of the whole
bill is submitted with 0 or `MaxValue`, the two kinds of number the schema tells
apart. *Purchasing*: one vendor and one order meet every conflict; three lines with
places up to 3 let a deletion and an addition repeat a place, were it counted.
*AddressBook*: chunks of two rows and files of one and three make full and partial
chunks. *Wizard*: the typings are those the creation tells apart (a required item
too few, too many, twice; a destination without quantity; parsers that disagree).
*Pages*: a second project makes the cookie matter; `ship_from` is the type whose
slugs disagree, `ship_to` the one with import, delete dialog and links; the other
three differ from these in no route or condition but the refusal of import.
Requests, groups, places, ids and workers are interchangeable, hence the symmetry
sets; `startup` has none, because of its liveness property.

Deadlock is checked in `pages`: a reader is never stuck. Elsewhere requests and
ids are finite, so every run stops.

**Fairness and liveness.** `Startup`'s `FairSpec` assumes weak fairness of the
start (`StartUp`: one goroutine that runs unless the process dies) and of each
request's next call (`Step`: the Go scheduler, and calls that return); nothing for
users, crashes or stops. Faults are finite. `EventuallyAdopted` says that a server
that is down serves again whatever the migrations meet, and that, if it is
restarted again and again, a bill without a project gets one; the restarts are a
premise because the migration runs only at a start. Elsewhere no liveness is
stated: a handler is a finite sequence of calls and none waits for another, so
that a request ends says nothing about this code.

## 4. Proofs

TLAPS proves, for all values of the constants, every invariant, action property and
refinement that a passing run checks, but for the invariant `UniqueTexts`; that and
liveness are left to TLC. Each inductive
invariant was checked by TLC on the instance of the run before it was proved. It is
the property plus what makes the next step keep it, which here is nearly always *what a request that has looked and
not yet written holds in memory*, and how that relates to the rows now.

* `NumberingProofs`: `TypeCorrect`, `NumbersAreUnique`, `SequencesHaveNoHoles`,
  `NumbersNeverRewind`. The invariant adds to uniqueness that
  every number drawn is at most `last_number` of its sequence and that a request
  which draws has its settings; uniqueness alone is not inductive, because it
  says nothing of the next number. `NoHoles` is inductive beside it since
  `NextNum` either continues at `last_number + 1` or opens the sequence.
* `DCLifecycleProofs`: `TypeCorrect`, `GroupsAreUniform`,
  `DestinationsShippedOnce`, `RowsAlwaysAgree`, `CountersAreRight`,
  `LiveSplitsHaveParents`, `IssuedForever`. Row agreement (a mark names a group
  that was created, a group of a transfer has its split row and a destination
  naming it) carries the rest: undo resets the destinations it finds by
  `split_group`, so shipping once, the counter as the number of named groups, and
  the parent's status all lean on it. `CountersAreRight` proves `num_split` equal to a
  cardinality (`CounterMatchesFlags`) with the library's theorems on finite sets.
  `LifecycleKeepsContract` proves `Spec => ImplementsContract`: each request is one
  step of `ShipmentContract` (undo and both deletions are `Drop`), with `HasTransit`
  beside the invariant so that the challans of a live group always show its status,
  and `ShippedOnce` to make a split's destinations uncovered.
* `ChallanStoreProofs`: `TypeCorrect`, `NothingOutlivesItsGroup`,
  `NoSplitIsInvented`, `MarkedOnlyOnceShipped` (whatever overlaps);
  `IssuedAsAWhole`, `IssuedGroupsKeepTheirChallans`, `DriftIsAtMostTheFaults`
  (without overlap). One lemma per call says where `pc` and the memory of its
  request go (`Goto`, `Round`, `Loop`); the invariants are then about calls, not
  about `req`. `CountsAccounted`: every number in memory is at most the number of
  splits that have had their turn. `MissingAreErrors`: a destination marked without
  its challan costs an error of its own. `OneAtATime`, `DraftInHand`,
  `NamedExisted`, `ReadsAreCurrent`: without overlap there is one request, and what
  it read is what the rows say. `Drift` follows `num_split` and the named groups
  through a split and an undo, by how far the call in progress is `Ahead` or
  `Behind`, each fault adding one.
  `CallsAmountToLifecycle` proves `Spec => RunsAsLifecycle`, the refinement of
  `DCLifecycle`. Its invariant `InStep` says, without overlap and fault, what the
  request in progress has made of the rows since they were last settled: `SoFar`, for
  each kind of request and each call, and `SplitsHaveParent` and `LinksHaveRows` on
  the settled rows themselves. It is needed because a refinement by whole requests
  says nothing of the states in between, where the next call starts. There is one
  lemma per call that it keeps `SoFar`, and one per kind that its last call makes one
  action of `DCLifecycle` of the whole, or nothing.
* `NumberingProofs`, on serials: `SerialsTypeCorrect`, `IssuedLinesStayDistinct`,
  `RequiredAreCounted`, from `NoDuplicatesMeansDistinct`: the scan for duplicates
  finds none exactly in lists without one, whatever their length.
* `WizardProofs`, on the pages: `TypeCorrect`, `ShipmentsConserveQuantities`,
  `TaxFollowsStates`, `CleanReviewsCreateCleanSerials`. The invariant is about the
  hidden fields: `Carries` (the pages after the second still have an answer that
  was on a form), `TaxComputed`, `Reviewed` (what a review without errors says of
  the typed serials, and that what others stored since is accounted for) and
  `Created`. What the creation reads of a quantity is compared with what the review
  read, item by item, before the sums are.
* `WizardProofs`, on the bill: `NoRowIsOrphaned`,
  `BudgetsRollUp`. `Parented` is inductive beside the types. For the budgets,
  `Single` says that a clean request is the only one, `Repairs` which levels already
  agree at each call of a recalculation, and `Updates` what an update of the whole
  bill has saved (`Done`, `DoneLeaves`), that its running sums are the totals of
  these, and that it has read the rest as it is.
* `StartupProofs`: `TypeCorrect`, `OwnersStayLive`, `StartsMigrate`,
  `DuplicatesAreFaults`. `MainKnows` is what a start has in hand, `MigratedSoFar`
  what one without a fault has done by each stage, `LeavesOwn` and `Accounted` that a
  project some bill named without belonging to it costs a fault, is being adopted, or
  is about to go with its deletion.
* `PurchasingProofs`: `TypeCorrect`, `NothingDangles`, `LookedUpHolds`,
  `NoStageSkipped`. `LooksHold` is inductive only with `Checks`: a request between
  its look and its write still sees what it looked up, or its kind has been `raced`.
* `AddressBookProofs`: `TypeCorrect`, `ParentsStayShipTo`, `LinksStay`,
  `RequiredWhenEntered`, `RulesStayTogether`, `ImportCountsExactly`. `ReadsHold`: an
  edit holds the address as it is, or an overlap has excused it; `UnlinksOwn`: a
  deletion has yet to unlink every child of the addresses it will delete;
  `RowsCounted`: inserted and failed rows add up to the chunks that are through.
* `ServerProofs`: `EveryLinkLeads`, `EveryAnswerFits`, `FreshOffersAreTaken`,
  `SidebarFollows`, all from `TabStaysOK`. `NoDeadLinks` is not inductive: what a page
  offers depends on what the last answer has put there. `TabOK` says that the page,
  its project, address type and document, and the request it waits for, fit each
  other. One lemma per page says what it may offer (`OfferOK`, `Sent`), one per group
  of handlers that it leaves the data right (`StateOK`) and answers what fits the page
  that asked (`Served`, `AnswerOK`), and `Lands` that such an answer leaves the tab
  right. Other tabs may change the data between a request and its answer, so that
  nothing of this rests on a page being fresh.

**Sums.** `Wizard` and `BOQRollup` add up with `FoldFunction` and `MapThenSumSet`.
Induction over data is out of the prover's reach (the library's theorems take an
operator as a parameter), so the sums go by a least counterexample: `LeastSubset`
takes a smallest subset on which a claim fails, among the finite subsets, and
`TotalStep` takes one element off it. That gives `TotalSame`, `TotalRemove`,
`TotalInNat`, `TotalAtLeastSubset`, `TotalOfOnes`, from which everything said of
quantities and budgets follows.

**Assumptions.** Those the modules declare, and TLC evaluates: model values that are
distinct from each other and from the rows they stand in for (`Gone`, `None`,
`NoGroup`), finite `Places`, `Requests`, `Subs` and `Leaves`, natural bounds, real
months, for the wizard that every form has its fields, and for the pages that `Home`
is one of finitely many projects. The bounds on faults,
requests and crashes are arbitrary naturals, so the theorems hold for all of them.

Two definitions had to change to be reasoned about: `NewStatus` of `ChallanStore` and
`Landed` of `Server` were `CASE`s whose arms overlap. TLC takes the first arm that
holds, TLA+ any; they are now conditionals in the order of the code.

**Only model-checked.** `EventuallyAdopted`: liveness under fairness is out of the
prover's reach. `UniqueTexts`: what the digits of a number and the pieces of a text
add up to is induction over data, so it is shown for the wordings of the run and not
for all. No module declares a recursive operator.

## 5. Where the code does not do what it says

Two runs are counterexamples:

| Run | What it finds |
|---|---|
| `serial_twice` | two challans with one serial are both issued: a serial the challan itself lists is never compared with another challan's (`dc_issue.go:153`) |
| `unpriced` | every line of every shipment has rate and tax 0: the wizard reads `quoted_price` and `gst_percentage`, the bill has `unit_price` and `gst_percent` (`dc_wizard.go:120`) |

More are stated in the modules as definitions that no passing run lists; TLC
refutes each when it is added to the cfg of its module:

| Definition | What refutes it |
|---|---|
| `DCLifecycle.AllSplitMeansSplit` | `num_split` counts splits, `num_destinations` destinations: all destinations in one split leave the transfer "splitting" (`dc_split.go:362`) |
| `DCLifecycle.MarkedIsShipped` | deleting the draft group of a split leaves its destinations marked for good (`dc_delete.go:87`) |
| `ChallanStore.IssuedAtomically` | a crash inside `IssueShipmentGroup` leaves a mixed group, which no retry can issue (`dc_issue.go:51`) |
| `ChallanStore.SplitOnce` | two overlapping splits ship one destination twice (`dc_split.go:68`) |
| `ChallanStore.IssuedIsNotUndone` | an undo deletes challans that were issued after its check (`dc_split.go:402`) |
| `SerialIssue.OwnTemplateCounts` | a line whose template requires serials is issued without (`dc_issue.go:188`) |
| `Numbering.TextsStayUnique` | number 1 with prefix 2 behind it, then number 2 with prefix 1 before it, or "A1" and 2 against "A" and 12: once the wording changes two numbers of one sequence can show one text, and neither `NextDocNumber` nor an index of the collection refuses it (`numbering.go:140`, `setup.go:310`, `:445`; an older design document, `2026-03-10-dc-feature-design.md:66`, has `dc_number` "required, unique") |
| `AddressBook.RolledBackMeansNothing` | a failed chunk is rolled back, the others stay, and the page says "The import was rolled back" (`services/address_import.go:87`, `templates/address_import.templ:351`) |

The passing properties name their exceptions, and these are where the code
deviates from what one would expect:

* `NoDeadLinks`: the export link of the BOQ list has no route
  (`templates/boq_list.templ:165`). The pages of type `ship_from` write
  `dispatch-from` (`templates/address_form.templ:62`) while `main.go:66`
  registers `ship-from`: search, sorting, New, Edit and the forms of such addresses
  lead nowhere. Their delete button does work: `address_delete.go:29` takes
  `dispatch-from` for a type (`address_list.go:37`), the address is deleted, and the
  reader is sent to the list of that name, which no route serves (`DeadRedirect`).
  The list's Import button writes the type as the database has it (`ship_to`), so the
  import page's links back to the list are dead (`templates/address_import.templ:34`, `:324`).
* `OffersAreTaken`: ADD MAIN ITEM is always refused, for it saves without
  `unit_price`, which the schema requires (`boq_edit.go:519`, likewise
  `boq_create.go:158`, so a posted BOQ loses its main items). Bulk deletion of
  addresses is always refused: the ids are read from a body, which HTMX 2 does not
  send with DELETE (`address_delete.go:129`). Template and Import are offered on
  lists whose type has no import. The split of a transfer with no destination left
  is offered and refused; its second and third page do not look at the status.
* `LandsWhereItFits`: the new-project link puts a whole page inside the page
  (`templates/project_list.templ:40`, `project_create.go:17`); the search of
  vendors puts the whole list inside its own table (`templates/vendor_list.templ:90`).
* `ShellFollowsBody`: the old path `/boq/{id}` and typed addresses open a page in
  another project's shell (unlike what `project_view.go:29` takes care of). Address
  pages set the cookie before they look whether the project exists
  (`address_list.go:151`).
* `TaxTypeFollowsStates`: going back from the third page turns the computed tax
  type into an override (`dc_wizard.go:449`, `templates/dc_wizard_step3.templ:313`),
  for as long as the back form is sent (see `Wizard` in section 2).
* `CleanReviewMeansCleanSerials`: the creation takes a form the review rejected.
* `RolledUpUnlessCaused`: an added row and a patched main item leave sums as they
  were; a 0 in the form of the bill is refused by the schema and counted above.
* `ServingIsMigrated`: it is about projects, settings and configs. A crash between the
  save of a config and those of its addresses leaves them unmoved for good
  (`migrate_addresses.go:94`), which the pages read over by falling back on the old
  columns.
* `DuplicatesNeedFaults`: a crash between the two saves of an adoption, or of a
  deletion, leaves a project with no bill and makes another.
* `RulesAgree`, `LinksAreKept`, `LooksHold`: what overlapping or refused requests
  leave (`project_settings.go:191`, `address_delete.go:155`, `vendor_link.go:42`).

Seen on the way: the deletion dialog of a ship-to address says that its
install-at addresses will be deleted (`templates/address_list.templ:443`), the
handler unlinks them (`address_delete.go:47`); the back button of the last wizard
page drops what was typed though its comment says "Item data for back navigation"
(`templates/dc_wizard_step4.templ:444`); an order that was sent has no page that
moves it on (Edit is offered for drafts only); no page offers the undo of a split
or leads to a shipment group; `ship_from` addresses are never migrated
(`migrate_addresses.go:79` looks for `dispatch_from`); a config created by a page
makes the migration skip the addresses of its type (`address_list.go:319`); a failed
creation leaves its group (design document, line 160, "Confirm -> atomic creation";
`dc_creation.go:99`).

## 6. Not modelled

* Documents and exports, wording, layout, totals computed for display: no state.
  Words for amounts end below one hundred crore (`po_pricing.go:107`).
* Challans: the half-made transfer and the interrupted deletion of one
  (`dc_creation.go:413`, `dc_delete.go:111`), both one step here; lines and serials
  stripped by an interrupted undo (`dc_split.go:421`); the serials a split ships,
  which nothing ties to its transfer (`dc_split.go:232`); two issues that validate
  at once (`dc_issue.go:138`: sequential ones already miss the duplicate);
  `split_number` (`dc_split.go:335`), which is only displayed. The data the split
  wizard carries from page to page.
* Bills: texts, quoted and actual prices, `sort_order` (`boq_edit.go:553`), the
  panic on a record deleted meanwhile (`items.go:335`), which writes nothing.
* Orders: quantities and rates of lines (a negative one is accepted by
  `po_line_items.go:246`).
* Addresses: formats of fields, a second config row made by two pages at once
  (`address_list.go:319`), an import sent twice (`address_import.go:146`: rows have
  no key).
* Pages: the browser's history and its restored snapshots, the flash cookie of
  toasts, counts in the sidebar.

External code is modelled from its use: PocketBase's save, delete, relation and
required checks, HTMX's swap and redirect rules, the process that may be killed.

## 7. Plan

Done: all modules and theorems of the sections above. To do, in this order:

1. `CreateTransferDC` and the deletion of a transfer call by call, in
   `ChallanStore`.
2. The data of the split wizard and the quantities a split ships.
