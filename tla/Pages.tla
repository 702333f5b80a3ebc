-------------------------------- MODULE Pages --------------------------------
(* The pages of src/templates and the routes of src/main.go: which requests  *)
(* each page offers to its reader, and which of them a handler is registered *)
(* for. A page is a function of what its handler read: the project the page  *)
(* is about and, at most, one document of the project Home. Layout, wording  *)
(* and the values shown are left out; a part of a page is the set of the     *)
(* requests its links, buttons and forms send.                               *)
EXTENDS Naturals, FiniteSets

CONSTANTS Projects,      \* the projects that may exist
          Home,          \* the project the followed document belongs to
          AddressTypes,  \* the address types in play, of AllTypes
          Nothing        \* no project, no request, no document

AllTypes == {"bill_from", "ship_from", "bill_to", "ship_to", "install_at"}

ASSUME PagesAssumption == /\ IsFiniteSet(Projects)
                          /\ Home \in Projects
                          /\ AddressTypes \subseteq AllTypes
                          /\ Nothing \notin Projects

-----------------------------------------------------------------------------
(* A request names a route by its verb, by the first part of its path (at),  *)
(* by the rest of it, and by the project in front of it, Nothing for the     *)
(* paths that start at the root; type is the address type written in the     *)
(* path, and "-" stands for a part that is not there. The id of a path is    *)
(* the followed document. into is where the answer goes:                     *)
(* "page" when the browser loads a whole page, otherwise the element that    *)
(* HTMX swaps, with the header HX-Request set.                               *)
Send(verb, at, rest, p, into) ==
  [verb |-> verb, at |-> at, rest |-> rest, p |-> p, type |-> "-", into |-> into]

Link(at, rest, p)  == {Send("GET", at, rest, p, i) : i \in {"page", "main"}}
Swap(at, rest, p)  == {Send("GET", at, rest, p, "main")}
Plain(at, rest, p) == {Send("GET", at, rest, p, "page")}
Form(at, rest, p)  == {Send("POST", at, rest, p, "page")}
Do(verb, at, rest, p, into) == {Send(verb, at, rest, p, into)}
OfType(R, slug)    == {[r EXCEPT !.type = slug] : r \in R}

(* The document followed: its kind, its status as far as the pages tell it   *)
(* apart, and how deep its rows go. A BOQ has main items (1) and sub-items   *)
(* with their own (2); an order has lines and a transporter vehicles, or     *)
(* not. The status of an address is its type; an order "sent" may have been  *)
(* acknowledged or completed since; "transit" stands for either challan of a *)
(* group; an "exhausted" transfer is issued or splitting with no destination *)
(* left to split.                                                            *)
Doc(kind, st, rows) == [kind |-> kind, st |-> st, rows |-> rows]
Unborn == Doc("none", "unborn", 0)
Gone   == Doc("none", "gone", 0)

Documents ==
  {Unborn, Gone}
  \cup {Doc("boq", "-", n) : n \in 0..2}
  \cup {Doc("order", s, n) : n \in 0..1, s \in {"draft", "sent", "cancelled"}}
  \cup {Doc("vendor", s, 0) : s \in {"unlinked", "linked", "ordered"}}
  \cup {Doc("transporter", "-", n) : n \in 0..1}
  \cup {Doc("template", "-", 0)}
  \cup {Doc("address", t, 0) : t \in AddressTypes}
  \cup {Doc("transit", s, 0) : s \in {"draft", "issued"}}
  \cup {Doc("transfer", s, 0) : s \in {"draft", "issued", "exhausted", "split"}}

Challans == {"transit", "transfer"}

-----------------------------------------------------------------------------
(* The routes of main.go, group by group.                                    *)
Routes(R, at) == {<<r[1], at, r[2]>> : r \in R}

ProjectRoutes ==
  [global |-> Routes({<<"GET", "-">>, <<"GET", "/create">>, <<"POST", "-">>,
                      <<"POST", "/deactivate">>}, "projects"),
   scoped |-> Routes({<<"POST", "/activate">>, <<"GET", "/edit">>,
                      <<"POST", "/save">>, <<"DELETE", "-">>,
                      <<"GET", "/settings">>, <<"GET", "-">>,
                      <<"POST", "/settings">>}, "projects")]

(* Lists and forms are registered once for each type, under its slug...      *)
TypedAddressRoutes ==
  Routes({<<"GET", "-">>, <<"GET", "/count">>, <<"GET", "/new">>,
          <<"POST", "/new">>, <<"GET", "/id/edit">>,
          <<"POST", "/id/edit">>}, "addresses")
(* ...the other address routes take whatever type the path says.             *)
AnyAddressRoutes ==
  Routes({<<"GET", "/template">>, <<"GET", "/import">>, <<"POST", "/import">>,
          <<"POST", "/import/commit">>, <<"POST", "/import/errors">>,
          <<"GET", "/export">>, <<"DELETE", "/bulk">>,
          <<"GET", "/id/delete-info">>, <<"DELETE", "/id">>}, "addresses")

BOQRoutes ==
  Routes({<<"GET", "/create">>, <<"POST", "-">>, <<"GET", "/id/edit">>,
          <<"GET", "/id/view">>, <<"POST", "/id/save">>,
          <<"DELETE", "/id">>, <<"GET", "/id/export/excel">>,
          <<"GET", "/id/export/pdf">>, <<"POST", "/id/main-items">>,
          <<"POST", "/id/main-item/subitems">>,
          <<"POST", "/id/subitem/subsubitems">>,
          <<"DELETE", "/id/main-item">>, <<"DELETE", "/id/subitem">>,
          <<"DELETE", "/id/subsubitem">>,
          <<"GET", "/id/main-item/subitems">>,
          <<"PATCH", "/id/main-item">>, <<"PATCH", "/id/subitem">>,
          <<"PATCH", "/id/subsubitem">>, <<"GET", "/id">>,
          <<"GET", "-">>}, "boq")

VendorRoutes ==
  [global |-> Routes({<<"GET", "-">>, <<"GET", "/create">>, <<"POST", "-">>,
                      <<"GET", "/id/edit">>, <<"POST", "/id/save">>,
                      <<"DELETE", "/id">>}, "vendors"),
   scoped |-> Routes({<<"GET", "-">>, <<"GET", "/create">>, <<"POST", "-">>,
                      <<"POST", "/id/link">>, <<"DELETE", "/id/link">>},
                     "vendors")]

PORoutes ==
  Routes({<<"GET", "/create">>, <<"POST", "-">>, <<"GET", "/id/edit">>,
          <<"POST", "/id/save">>, <<"POST", "/id/line-items">>,
          <<"POST", "/id/line-items/from-boq">>,
          <<"PATCH", "/id/line-items/item">>,
          <<"DELETE", "/id/line-items/item">>,
          <<"GET", "/id/boq-picker">>, <<"GET", "/id/export/pdf">>,
          <<"GET", "-">>, <<"GET", "/id">>, <<"DELETE", "/id">>}, "po")

DCTemplateRoutes ==
  Routes({<<"GET", "/">>, <<"GET", "/create">>, <<"POST", "/create">>,
          <<"GET", "/id/edit">>, <<"POST", "/id/edit">>,
          <<"DELETE", "/id/delete">>, <<"POST", "/id/duplicate">>},
         "dc-templates")

TransporterRoutes ==
  Routes({<<"GET", "/">>, <<"GET", "/create">>, <<"POST", "/create">>,
          <<"GET", "/id">>, <<"GET", "/id/edit">>,
          <<"POST", "/id/edit">>, <<"POST", "/id/toggle">>,
          <<"POST", "/id/vehicles">>, <<"DELETE", "/id/vehicles/vid">>},
         "transporters")

DCRoutes ==
  Routes({<<"GET", "/create">>, <<"POST", "/create/step2">>,
          <<"POST", "/create/back-to-step1">>, <<"POST", "/create/step3">>,
          <<"POST", "/create/back-to-step2">>, <<"POST", "/create/step4">>,
          <<"POST", "/create/back-to-step3">>, <<"POST", "/create">>,
          <<"GET", "/">>, <<"GET", "/id">>, <<"GET", "/id/edit">>,
          <<"POST", "/id/issue">>, <<"DELETE", "/id">>,
          <<"GET", "/id/export/pdf">>, <<"GET", "/id/export/excel">>,
          <<"GET", "/id/print">>}, "dcs")
  \cup Routes({<<"POST", "/serials/validate">>}, "api")

SplitRoutes ==
  Routes({<<"GET", "/id/split">>, <<"POST", "/id/split/step2">>,
          <<"POST", "/id/split/step3">>, <<"POST", "/id/split">>,
          <<"POST", "/id/splits/sid/undo">>}, "transfer-dcs")

GroupRoutes ==
  Routes({<<"GET", "/id">>, <<"POST", "/id/issue">>, <<"DELETE", "/id">>},
         "shipment-groups")

RootRoutes == Routes({<<"GET", "-">>, <<"POST", "-">>}, "settings")
              \cup Routes({<<"GET", "-">>, <<"GET", "/id">>}, "boq")
              \cup Routes({<<"GET", "-">>}, "home")

(* The slug a type is registered under, and the one the templates write.     *)
addressTypeToSlug == [bill_from |-> "bill-from", ship_from |-> "ship-from",
                      bill_to |-> "bill-to", ship_to |-> "ship-to",
                      install_at |-> "install-at"]
addressTypeSlug   == [addressTypeToSlug EXCEPT !.ship_from = "dispatch-from"]

RegisteredSlugs == {addressTypeToSlug[t] : t \in AllTypes}

(* A handler is registered for the request.                                  *)
Routed(r) ==
  LET route == <<r.verb, r.at, r.rest>> IN
  IF r.p = Nothing
  THEN route \in ProjectRoutes.global \cup VendorRoutes.global \cup RootRoutes
  ELSE \/ route \in ProjectRoutes.scoped \cup VendorRoutes.scoped
       \/ route \in TypedAddressRoutes /\ r.type \in RegisteredSlugs
       \/ route \in AnyAddressRoutes
       \/ route \in BOQRoutes \cup PORoutes \cup DCTemplateRoutes
                    \cup TransporterRoutes \cup DCRoutes \cup SplitRoutes
                    \cup GroupRoutes

-----------------------------------------------------------------------------
(* The shell around every page: the header's project switch and the sidebar, *)
(* whose links follow the project s that was active when it was loaded. A    *)
(* header may be old: the projects it lists may have been deleted since.     *)
TopHeaderWithProject ==
  (UNION {Do("POST", "projects", "/activate", q, "body") : q \in Projects})
  \cup Swap("projects", "-", Nothing)

\* Mutant: the type is written as the database has it.
SidebarUnderscoredSubLinks(s) ==
  UNION {OfType(Link("addresses", "-", s), t) : t \in AddressTypes}
SidebarAddressSubLinks(s) ==
  UNION {OfType(Link("addresses", "-", s), addressTypeToSlug[t]) : t \in AddressTypes}

SidebarProjectSection(s) ==
  Link("projects", "-", s) \cup Link("boq", "-", s) \cup Link("po", "-", s)
  \cup Link("dc-templates", "/", s) \cup Link("transporters", "/", s)
  \cup Link("dcs", "/", s) \cup Link("vendors", "-", s)
  \cup SidebarAddressSubLinks(s)

SidebarProjectsLink == Link("projects", "-", Nothing)

SidebarWithProject(s) ==
  Link("home", "-", Nothing) \cup Link("vendors", "-", Nothing)
  \cup Link("settings", "-", Nothing)
  \cup (IF s = Nothing THEN SidebarProjectsLink ELSE SidebarProjectSection(s))

Shell(s) == TopHeaderWithProject \cup SidebarWithProject(s)

-----------------------------------------------------------------------------
(* Projects and settings.                                                    *)
ProjectListContent ==
  Link("projects", "/create", Nothing)
  \cup UNION {Swap("projects", "-", q) : q \in Projects}

ProjectCreateContent ==
  Link("projects", "-", Nothing) \cup Form("projects", "-", Nothing)

ProjectViewContent(p) ==
  Link("projects", "-", Nothing) \cup Swap("projects", "/edit", p)
  \cup Swap("projects", "/settings", p)
  \cup Do("DELETE", "projects", "-", p, "main")

ProjectEditContent(p) ==
  Link("projects", "-", Nothing) \cup Swap("projects", "/settings", p)
  \cup Do("DELETE", "projects", "-", p, "main") \cup Form("projects", "/save", p)

ProjectSettingsForm(p)    == Form("projects", "/settings", p)
ProjectSettingsContent(p) ==
  Link("projects", "-", Nothing) \cup Swap("projects", "/edit", p)
  \cup ProjectSettingsForm(p)

AppSettingsContent == Do("POST", "settings", "-", Nothing, "main")

-----------------------------------------------------------------------------
(* Bills of quantities.                                                      *)
BOQListRow(p)         == Swap("boq", "/id", p) \cup Plain("boq", "/id/export", p)
\* Mutant: the form is fetched by HTMX like the others.
BOQListSwapsForm(p, d) ==
  Link("boq", "/create", p) \cup (IF d.kind = "boq" THEN BOQListRow(p) ELSE {})
BOQListContent(p, d) ==
  Plain("boq", "/create", p) \cup (IF d.kind = "boq" THEN BOQListRow(p) ELSE {})

BOQCreateForm(p) == Form("boq", "-", p)
BOQCreatePage(p) == BOQCreateForm(p) \cup Plain("boq", "-", p)

BOQViewExports(p) ==
  Plain("boq", "/id/export/pdf", p) \cup Plain("boq", "/id/export/excel", p)
BOQViewContent(p) ==
  Swap("boq", "-", p) \cup BOQViewExports(p)
  \cup Do("DELETE", "boq", "/id", p, "body") \cup Swap("boq", "/id/edit", p)

MainItemRowEdit(p) ==
  Do("DELETE", "boq", "/id/main-item", p, "main")
  \cup Do("POST", "boq", "/id/main-item/subitems", p, "main")
SubItemRowEdit(p) ==
  Do("DELETE", "boq", "/id/subitem", p, "main")
  \cup Do("POST", "boq", "/id/subitem/subsubitems", p, "main")
SubSubItemRowEdit(p) == Do("DELETE", "boq", "/id/subsubitem", p, "main")

EditSubItemsBlock(p, d) ==
  IF d.rows = 2 THEN SubItemRowEdit(p) \cup SubSubItemRowEdit(p) ELSE {}

BOQEditForm(p)       == Do("POST", "boq", "/id/save", p, "main")
BOQEditContent(p, d) ==
  Swap("boq", "-", p) \cup Swap("boq", "/id/view", p) \cup BOQEditForm(p)
  \cup Do("POST", "boq", "/id/main-items", p, "main")
  \cup (IF d.rows > 0 THEN MainItemRowEdit(p) ELSE {}) \cup EditSubItemsBlock(p, d)

-----------------------------------------------------------------------------
(* Purchase orders. The editor loads its picker of BOQ items by itself.      *)
\* Mutant: every order has its delete button.
POListRowDeletesAny(p, d) ==
  Link("po", "/id", p) \cup Do("DELETE", "po", "/id", p, "main")
POListRow(p, d) ==
  Link("po", "/id", p)
  \cup (IF d.st = "draft" THEN Link("po", "/id/edit", p) ELSE {})
  \cup (IF d.st \in {"draft", "cancelled"}
        THEN Do("DELETE", "po", "/id", p, "main") ELSE {})
POListTabs(p)       == Swap("po", "-", p)
POListContent(p, d) ==
  Link("projects", "-", p) \cup Link("po", "/create", p) \cup POListTabs(p)
  \cup (IF d.kind = "order" THEN POListRow(p, d) ELSE {})

POCreateForm(p)    == Form("po", "-", p) \cup Link("vendors", "-", p)
POCreateContent(p) ==
  Link("projects", "-", p) \cup Link("po", "-", p) \cup POCreateForm(p)

POViewContent(p, d) ==
  Swap("projects", "-", p) \cup Swap("po", "-", p)
  \cup (IF d.st = "draft" THEN Swap("po", "/id/edit", p) ELSE {})

POLineRow(p) == Do("PATCH", "po", "/id/line-items/item", p, "lines")
                \cup Do("DELETE", "po", "/id/line-items/item", p, "lines")
POLineItemsSection(p, d) ==
  Do("POST", "po", "/id/line-items", p, "lines")
  \cup (IF d.rows > 0 THEN POLineRow(p) ELSE {})

boqPickerRow(p)     == Do("POST", "po", "/id/line-items/from-boq", p, "lines")
BOQPickerContent(p) == boqPickerRow(p)

POEditForm(p)       == Form("po", "/id/save", p)
POEditPicker(p)     == Do("GET", "po", "/id/boq-picker", p, "picker")
                       \cup BOQPickerContent(p)
POEditContent(p, d) ==
  Swap("projects", "-", p) \cup Swap("po", "-", p) \cup POEditForm(p)
  \cup POLineItemsSection(p, d) \cup POEditPicker(p)

-----------------------------------------------------------------------------
(* Vendors, of one project or of all of them.                                *)
VendorLinkToggle(p, d) ==
  IF d.st = "unlinked" THEN Do("POST", "vendors", "/id/link", p, "toggle")
  ELSE Do("DELETE", "vendors", "/id/link", p, "toggle")
VendorListRow(p, d) ==
  Link("vendors", "/id/edit", Nothing)
  \cup Do("DELETE", "vendors", "/id", Nothing, "main")
  \cup (IF p = Nothing THEN {} ELSE VendorLinkToggle(p, d))
VendorListContent(p, d) ==
  Link("projects", "-", p) \cup Link("vendors", "/create", p)
  \cup Do("GET", "vendors", "-", p, "tbody")
  \cup (IF d.kind = "vendor" THEN VendorListRow(p, d) ELSE {})

VendorFormContent(p, isEdit) ==
  Link("vendors", "-", p)
  \cup Form("vendors", IF isEdit THEN "/id/save" ELSE "-", p)

-----------------------------------------------------------------------------
(* Transporters and challan templates.                                       *)
TransporterListContent(p, d) ==
  Link("projects", "-", p) \cup Link("transporters", "/create", p)
  \cup (IF d.kind = "transporter" THEN Link("transporters", "/id", p) ELSE {})

TransporterFormContent(p, isEdit) ==
  Link("projects", "-", p) \cup Link("transporters", "/", p)
  \cup Form("transporters", IF isEdit THEN "/id/edit" ELSE "/create", p)

TransporterVehicles(p, d) ==
  Form("transporters", "/id/vehicles", p)
  \cup (IF d.rows = 0 THEN {}
        ELSE Do("DELETE", "transporters", "/id/vehicles/vid", p, "self"))
TransporterDetailContent(p, d) ==
  Link("projects", "-", p) \cup Link("transporters", "/", p)
  \cup Do("POST", "transporters", "/id/toggle", p, "self")
  \cup Link("transporters", "/id/edit", p) \cup TransporterVehicles(p, d)

DCTemplateListRow(p) ==
  Link("dc-templates", "/id/edit", p)
  \cup Do("POST", "dc-templates", "/id/duplicate", p, "self")
  \cup Do("DELETE", "dc-templates", "/id/delete", p, "self")
DCTemplateListContent(p, d) ==
  Link("projects", "-", p) \cup Link("dc-templates", "/create", p)
  \cup (IF d.kind = "template" THEN DCTemplateListRow(p) ELSE {})

DCTemplateFormContent(p, isEdit) ==
  Link("projects", "-", p) \cup Link("dc-templates", "/", p)
  \cup Form("dc-templates", IF isEdit THEN "/id/edit" ELSE "/create", p)

-----------------------------------------------------------------------------
(* Addresses of type t. Most links write the type as the template's slug;    *)
(* the three buttons under the table write it as the database does.          *)
AddressListBulk(p)    == Do("DELETE", "addresses", "/bulk", p, "main")
AddressListSheets(p)  == Plain("addresses", "/template", p)
                         \cup Plain("addresses", "/import", p)
                         \cup Plain("addresses", "/export", p)
AddressListRow(p, t)  ==
  Link("addresses", "/id/edit", p) \cup Do("DELETE", "addresses", "/id", p, "main")
  \cup (IF t = "ship_to"
        THEN Do("GET", "addresses", "/id/delete-info", p, "fetch") ELSE {})
AddressListSort(p)    == Swap("addresses", "-", p)
AddressListPager(p)   == Swap("addresses", "-", p)
AddressListContent(p, t, d) ==
  Link("projects", "-", Nothing) \cup OfType(AddressListSheets(p), t)
  \cup OfType(Link("addresses", "/new", p) \cup AddressListBulk(p)
              \cup AddressListSort(p) \cup AddressListPager(p)
              \cup (IF d.kind = "address" THEN AddressListRow(p, t) ELSE {}),
              addressTypeSlug[t])

AddressForm(p, isEdit) ==
  Form("addresses", IF isEdit THEN "/id/edit" ELSE "/new", p)
AddressFormContent(p, t, isEdit) ==
  Link("projects", "-", Nothing)
  \cup OfType(Link("addresses", "-", p) \cup AddressForm(p, isEdit), addressTypeSlug[t])

(* The import pages keep the type as the path of their request had it.       *)
slugToDBType(slug) == CASE slug = "ship-to"    -> "ship_to"
                        [] slug = "install-at" -> "install_at"
                        [] OTHER               -> slug
AddressImportContent(p, slug) ==
  OfType(Link("addresses", "-", p)
         \cup Do("POST", "addresses", "/import", p, "results"), slug)
  \cup OfType(Plain("addresses", "/template", p), slugToDBType(slug))
AddressValidationResults(p, slug) ==
  OfType(Link("addresses", "/import", p)
         \cup Do("POST", "addresses", "/import/commit", p, "results")
         \cup Do("POST", "addresses", "/import/errors", p, "fetch"), slug)
AddressImportSuccess(p, slug) ==
  OfType(Link("addresses", "/import", p) \cup Link("addresses", "-", p), slug)
AddressImportFailure(p, slug) == OfType(Link("addresses", "/import", p), slug)

-----------------------------------------------------------------------------
(* Delivery challans: list, the four steps of the wizard, detail, the three  *)
(* steps of a split, the shipment group.                                     *)
DCListFilters(p)     == Link("dcs", "/", p)
DCListRows(p, d)     == IF d.kind \in Challans THEN Swap("dcs", "/id", p) ELSE {}
DCListContent(p, d)  ==
  Link("projects", "-", p) \cup Link("dcs", "/create", p) \cup DCListFilters(p)
  \cup DCListRows(p, d)

WizardCrumbs(p) == Link("projects", "-", p) \cup Link("dcs", "/", p)
WizardPost(p, to) == Do("POST", "dcs", to, p, "main")

DCWizardStep1Content(p) ==
  WizardCrumbs(p) \cup WizardPost(p, "/create/step2")
  \cup Link("dc-templates", "/create", p)
DCWizardStep2Content(p) ==
  WizardCrumbs(p) \cup WizardPost(p, "/create/step3")
  \cup WizardPost(p, "/create/back-to-step1")
DCWizardStep3Content(p) ==
  WizardCrumbs(p) \cup WizardPost(p, "/create/step4")
  \cup WizardPost(p, "/create/back-to-step2")
DCWizardStep4Content(p) ==
  WizardCrumbs(p) \cup WizardPost(p, "/create")
  \cup WizardPost(p, "/create/back-to-step3")

DCDetailDraftActions(p) ==
  Swap("dcs", "/id/edit", p) \cup Do("POST", "dcs", "/id/issue", p, "main")
  \cup Do("DELETE", "dcs", "/id", p, "main")
DCDetailExports(p) ==
  Plain("dcs", "/id/export/pdf", p) \cup Plain("dcs", "/id/export/excel", p)
  \cup Do("GET", "dcs", "/id/print", p, "tab")
DCDetailSplit(p) == Swap("transfer-dcs", "/id/split", p)
DCDetailGroup(p) == Swap("dcs", "/id", p)
DCDetailContent(p, d) ==
  Swap("projects", "-", p) \cup Swap("dcs", "/", p)
  \cup (IF d.st = "draft" THEN DCDetailDraftActions(p) ELSE {})
  \cup (IF d.st \in {"issued", "exhausted"} THEN DCDetailExports(p) ELSE {})
  \cup (IF d.kind = "transfer" /\ d.st \in {"issued", "exhausted"}
        THEN DCDetailSplit(p) ELSE {})
  \cup (IF d.kind = "transfer" THEN {} ELSE DCDetailGroup(p))

SplitCrumbs(p) == Swap("projects", "-", p) \cup Swap("dcs", "/id", p)
SplitPost(p, to) == Do("POST", "transfer-dcs", to, p, "main")

SplitWizardStep1Content(p) ==
  SplitCrumbs(p) \cup Swap("dcs", "/", p) \cup SplitPost(p, "/id/split/step2")
SplitWizardStep2Content(p) ==
  SplitCrumbs(p) \cup Swap("transfer-dcs", "/id/split", p)
  \cup SplitPost(p, "/id/split/step3")
SplitWizardStep3Content(p) ==
  SplitCrumbs(p) \cup Swap("transfer-dcs", "/id/split", p)
  \cup SplitPost(p, "/id/split")

GroupActions(p) == Do("POST", "shipment-groups", "/id/issue", p, "main")
                   \cup Do("DELETE", "shipment-groups", "/id", p, "main")
GroupTransit(p, d) ==
  Swap("dcs", "/id", p)
  \cup (IF d.st = "issued" THEN Plain("dcs", "/id/export/pdf", p) ELSE {})
ShipmentGroupDetailContent(p, d) ==
  Swap("projects", "-", p) \cup Swap("dcs", "/", p)
  \cup (IF d.st = "draft" THEN GroupActions(p) ELSE {})
  \cup GroupTransit(p, d)

-----------------------------------------------------------------------------
(* What the body of the page offers: the page, the project it is about, the  *)
(* type or slug of an address page, and the document as the page shows it.   *)
Body(page, p, type, d) ==
  CASE page = "projects"         -> ProjectListContent
    [] page = "new project"      -> ProjectCreateContent
    [] page = "project"          -> ProjectViewContent(p)
    [] page = "edit project"     -> ProjectEditContent(p)
    [] page = "project settings" -> ProjectSettingsContent(p)
    [] page = "settings"         -> AppSettingsContent
    [] page = "boqs"             -> BOQListContent(p, d)
    [] page = "new boq"          -> BOQCreatePage(p)
    [] page = "boq"              -> BOQViewContent(p)
    [] page = "edit boq"         -> BOQEditContent(p, d)
    [] page = "orders"           -> POListContent(p, d)
    [] page = "new order"        -> POCreateContent(p)
    [] page = "order"            -> POViewContent(p, d)
    [] page = "edit order"       -> POEditContent(p, d)
    [] page = "vendors"          -> VendorListContent(p, d)
    [] page = "new vendor"       -> VendorFormContent(p, FALSE)
    [] page = "edit vendor"      -> VendorFormContent(Nothing, TRUE)
    [] page = "transporters"     -> TransporterListContent(p, d)
    [] page = "new transporter"  -> TransporterFormContent(p, FALSE)
    [] page = "edit transporter" -> TransporterFormContent(p, TRUE)
    [] page = "transporter"      -> TransporterDetailContent(p, d)
    [] page = "templates"        -> DCTemplateListContent(p, d)
    [] page = "new template"     -> DCTemplateFormContent(p, FALSE)
    [] page = "edit template"    -> DCTemplateFormContent(p, TRUE)
    [] page = "addresses"        -> AddressListContent(p, type, d)
    [] page = "new address"      -> AddressFormContent(p, type, FALSE)
    [] page = "edit address"     -> AddressFormContent(p, type, TRUE)
    [] page = "import"           -> AddressImportContent(p, type)
    [] page = "import checked"   -> AddressImportContent(p, type)
                                    \cup AddressValidationResults(p, type)
    [] page = "import done"      -> AddressImportContent(p, type)
                                    \cup AddressImportSuccess(p, type)
    [] page = "import failed"    -> AddressImportContent(p, type)
                                    \cup AddressImportFailure(p, type)
    [] page = "challans"         -> DCListContent(p, d)
    [] page = "wizard 1"         -> DCWizardStep1Content(p)
    [] page = "wizard 2"         -> DCWizardStep2Content(p)
    [] page = "wizard 3"         -> DCWizardStep3Content(p)
    [] page = "wizard 4"         -> DCWizardStep4Content(p)
    [] page = "challan"          -> DCDetailContent(p, d)
    [] page = "split 1"          -> SplitWizardStep1Content(p)
    [] page = "split 2"          -> SplitWizardStep2Content(p)
    [] page = "split 3"          -> SplitWizardStep3Content(p)
    [] page = "group"            -> ShipmentGroupDetailContent(p, d)
    [] OTHER                     -> {}
=============================================================================
