------------------------------- MODULE Server --------------------------------
(* The handlers of src/handlers behind the pages, and a reader who moves     *)
(* from page to page while other tabs of the same browser work on the same   *)
(* data. A handler's action looks up what the path names, changes what it    *)
(* changes and answers; how a request is answered decides what the browser   *)
(* shows next, and the cookie active_project, which several handlers set on  *)
(* the side, decides which project the next whole page is loaded with.       *)
(*                                                                           *)
(* One document of the project Home is followed; others exist but no path    *)
(* written here names them. Failures of the database are left out.           *)
EXTENDS Pages

VARIABLES
  projects,   \* the projects in the database
  doc,        \* the followed document
  active,     \* the cookie active_project, Nothing when it is not set
  tab,        \* what the reader's tab shows, or is loading
  last        \* how the reader's last request ended

vars == <<projects, doc, active, tab, last>>

-----------------------------------------------------------------------------
(* The middleware looks the cookie's project up, and clears the cookie when  *)
(* it is gone.                                                               *)
ActiveProjectMiddleware == IF active \in projects THEN active ELSE Nothing

(* The kind of document a page shows; what a page of project p shows of d.   *)
Shows(page) ==
  CASE page \in {"boqs", "boq", "edit boq"}           -> {"boq"}
    [] page \in {"orders", "order", "edit order"}     -> {"order"}
    [] page \in {"vendors", "edit vendor"}            -> {"vendor"}
    [] page \in {"transporters", "transporter", "edit transporter"} -> {"transporter"}
    [] page \in {"templates", "edit template"}        -> {"template"}
    [] page \in {"addresses", "edit address"}         -> {"address"}
    [] page \in {"challans", "challan", "group"}      -> Challans
    [] page \in {"split 1", "split 2", "split 3"}     -> {"transfer"}
    [] OTHER                                          -> {}

Snapshot(page, p, type, d) ==
  IF /\ d.kind \in Shows(page)
     /\ p = Home \/ (p = Nothing /\ d.kind = "vendor")
     /\ page = "addresses" => d.st = type
     /\ page = "boqs" => Home \in projects
  THEN d ELSE Unborn

(* A tab shows a page about a project, inside the shell it was loaded with,  *)
(* or waits for the answer to the request it was sent on to.                 *)
Showing(page, p, type, seen, shell) ==
  [page |-> page, p |-> p, type |-> type, seen |-> seen, shell |-> shell,
   wait |-> Nothing]
Loading(r, shell) ==
  [page |-> "loading", p |-> Nothing, type |-> "-", seen |-> Unborn,
   shell |-> shell, wait |-> r]
ErrorPage == Showing("error", Nothing, "-", Unborn, Nothing)

-----------------------------------------------------------------------------
(* Answers. Content is the page, whole or, for HTMX, without its shell; Full *)
(* is always whole; a Piece fits one slot of the page it came from; GoTo     *)
(* loads a whole page, by HX-Redirect or by a plain redirect of a form;      *)
(* Moved is a redirect that HTMX follows like the request it sent.           *)
Answer(kind, page, p, type, d, to) ==
  [kind |-> kind, page |-> page, p |-> p, type |-> type,
   seen |-> Snapshot(page, p, type, d), to |-> to]
Content(page, p, d)      == Answer("content", page, p, "-", d, Nothing)
Typed(page, p, type)     == Answer("content", page, p, type, doc, Nothing)
Full(page, p, type)      == Answer("full", page, p, type, doc, Nothing)
Piece(slot, page, p, d)  == Answer(slot, page, p, tab.type, d, Nothing)
GoTo(at, rest, p)        == Answer("goto", "-", p, "-", doc, Send("GET", at, rest, p, "page"))
GoToType(rest, p, slug)  ==
  Answer("goto", "-", p, "-", doc,
         [Send("GET", "addresses", rest, p, "page") EXCEPT !.type = slug])
Moved(at, rest, p, into) == Answer("moved", "-", p, "-", doc, Send("GET", at, rest, p, into))
Stay     == Answer("stay", "-", Nothing, "-", doc, Nothing)
Refused  == Answer("refused", "-", Nothing, "-", doc, Nothing)
Complain == Answer("complaint", "-", Nothing, "-", doc, Nothing)

Slots == {"main", "lines", "picker", "toggle", "results"}

Misfit(r, a) == \/ a.kind = "full" /\ r.into # "page"
                \/ a.kind = "content" /\ r.into \notin {"page", "main"}
                \/ a.kind \in Slots /\ r.into # a.kind

Landed(r, a) ==
  IF a.kind = "goto" THEN Loading(a.to, Nothing)
  ELSE IF a.kind = "moved"
       THEN Loading(a.to, IF r.into = "page" THEN Nothing ELSE tab.shell)
  ELSE IF a.kind \in {"refused", "complaint", "stay"}
       THEN IF r.into = "page" /\ a.kind # "stay" THEN ErrorPage
            ELSE [tab EXCEPT !.wait = Nothing]
  ELSE IF r.into = "page"
       THEN Showing(a.page, a.p, a.type, a.seen, ActiveProjectMiddleware)
  ELSE IF Misfit(r, a) /\ r.into # "main" THEN tab
  ELSE Showing(a.page, a.p, a.type, a.seen, tab.shell)

Outcome(r, a) == CASE a.kind = "refused" -> "refused"
                   [] Misfit(r, a)       -> "misfit"
                   [] OTHER              -> "taken"

Quiet == [how |-> "taken", req |-> Nothing]

(* What the answer does to the reader's tab; the tabs elsewhere are not      *)
(* followed.                                                                 *)
Reply(who, r, a) ==
  IF who = "elsewhere" THEN tab' = tab /\ last' = Quiet
  ELSE /\ tab' = Landed(r, a)
       /\ last' = [how |-> Outcome(r, a),
                   req |-> IF Outcome(r, a) = "taken" THEN Nothing ELSE r]

(* A handler that looks something up: found, it answers a; else it refuses.  *)
Found(who, r, cond, a) == Reply(who, r, IF cond THEN a ELSE Refused)

Keep       == UNCHANGED <<projects, doc>> /\ active' = ActiveProjectMiddleware
Becomes(d) == doc' = d /\ UNCHANGED projects /\ active' = ActiveProjectMiddleware

On(r, verb, rest) == r.verb = verb /\ r.rest = rest
Live(r)           == r.p \in projects
Is(kind)          == doc.kind = kind
(* Only the followed document is created, and only once.                     *)
Creates(r)        == doc = Unborn /\ r.p = Home /\ Home \in projects

-----------------------------------------------------------------------------
(* Projects, the active project and the settings of the installation. Only   *)
(* the existing projects are followed: a new one has another id.             *)
Visit(p) == active' = p /\ UNCHANGED <<projects, doc>>

HandleProjectList(who, r)   == On(r, "GET", "-") /\ Keep
                               /\ Reply(who, r, Content("projects", Nothing, doc))
HandleProjectCreate(who, r) == On(r, "GET", "/create") /\ Keep
                               /\ Reply(who, r, Full("new project", Nothing, "-"))
HandleProjectSave(who, r)   ==
  /\ On(r, "POST", "-") /\ Keep
  /\ \/ Reply(who, r, Full("new project", Nothing, "-"))
     \/ Reply(who, r, GoTo("projects", "-", Nothing))

\* Mutant: the page is always rendered in place.
HandleProjectViewInPlace(who, r) ==
  /\ On(r, "GET", "-")
  /\ IF Live(r) THEN Visit(r.p) ELSE Keep
  /\ Found(who, r, Live(r), Content("project", r.p, doc))
HandleProjectView(who, r) ==
  /\ On(r, "GET", "-")
  /\ \/ ~Live(r) /\ Keep /\ Reply(who, r, Refused)
     \/ /\ Live(r) /\ Visit(r.p)
        /\ Reply(who, r, IF r.into # "page" /\ ActiveProjectMiddleware # r.p
                         THEN GoTo("projects", "-", r.p)
                         ELSE Content("project", r.p, doc))

HandleProjectEdit(who, r)     == On(r, "GET", "/edit") /\ Keep
                                 /\ Found(who, r, Live(r), Content("edit project", r.p, doc))
HandleProjectUpdate(who, r)   ==
  /\ On(r, "POST", "/save") /\ Keep
  /\ \/ Found(who, r, Live(r), Content("edit project", r.p, doc))
     \/ Found(who, r, Live(r), GoTo("projects", "-", Nothing))
HandleProjectSettings(who, r) == On(r, "GET", "/settings") /\ Keep
                                 /\ Found(who, r, Live(r), Content("project settings", r.p, doc))
HandleProjectSettingsSave(who, r) ==
  On(r, "POST", "/settings") /\ Keep
  /\ Found(who, r, Live(r), GoTo("projects", "/settings", r.p))

HandleProjectActivate(who, r) ==
  /\ On(r, "POST", "/activate")
  /\ IF Live(r) THEN Visit(r.p) ELSE Keep
  /\ Found(who, r, Live(r), GoTo("projects", "-", r.p))

(* What the deletion of Home leaves: a BOQ may be unlinked instead, and a    *)
(* vendor loses its link and its orders.                                     *)
Orphaned == IF doc = Unborn THEN {Unborn}
            ELSE IF Is("boq") THEN {doc, Gone}
            ELSE IF Is("vendor") THEN {Doc("vendor", "unlinked", 0)} ELSE {Gone}

HandleProjectDelete(who, r) ==
  /\ On(r, "DELETE", "-") /\ active' = ActiveProjectMiddleware
  /\ projects' = projects \ {r.p}
  /\ IF Live(r) /\ r.p = Home THEN doc' \in Orphaned ELSE doc' = doc
  /\ Found(who, r, Live(r), GoTo("projects", "-", Nothing))

ServeProjects(who, r) ==
  IF r.p = Nothing
  THEN HandleProjectList(who, r) \/ HandleProjectCreate(who, r) \/ HandleProjectSave(who, r)
  ELSE \/ HandleProjectView(who, r)     \/ HandleProjectEdit(who, r)
       \/ HandleProjectUpdate(who, r)   \/ HandleProjectSettings(who, r)
       \/ HandleProjectActivate(who, r) \/ HandleProjectSettingsSave(who, r)
       \/ HandleProjectDelete(who, r)

HandleAppSettings(who, r)     == On(r, "GET", "-") /\ Keep
                                 /\ Reply(who, r, Content("settings", Nothing, doc))
HandleAppSettingsSave(who, r) ==
  /\ On(r, "POST", "-") /\ Keep
  /\ \/ Reply(who, r, Content("settings", Nothing, doc))
     \/ Reply(who, r, GoTo("settings", "-", Nothing))

(* The root and the paths the BOQ pages had before there were projects.      *)
RedirectHome(who, r) == Keep /\ Reply(who, r, Moved("projects", "-", Nothing, r.into))
RedirectBOQ(who, r)  ==
  /\ Keep /\ r.rest = "-"
  /\ Reply(who, r, IF ActiveProjectMiddleware = Nothing
                   THEN Moved("projects", "-", Nothing, r.into)
                   ELSE Moved("boq", "-", ActiveProjectMiddleware, r.into))
RedirectBOQView(who, r) ==
  /\ Keep /\ r.rest = "/id"
  /\ Found(who, r, Is("boq") /\ Home \in projects, Moved("boq", "/id", Home, r.into))

-----------------------------------------------------------------------------
(* Bills of quantities. A posted BOQ is saved without its main items.        *)
HandleBOQList(who, r)   == On(r, "GET", "-") /\ Keep /\ Reply(who, r, Content("boqs", r.p, doc))
HandleBOQCreate(who, r) == On(r, "GET", "/create") /\ Keep
                           /\ Reply(who, r, Full("new boq", r.p, "-"))
HandleBOQSave(who, r)   ==
  /\ On(r, "POST", "-")
  /\ \/ Keep /\ Reply(who, r, Full("new boq", r.p, "-"))
     \/ /\ Creates(r) /\ Becomes(Doc("boq", "-", 0))
        /\ Reply(who, r, GoTo("boq", "/id", r.p))

HandleBOQView(who, r)   == (On(r, "GET", "/id") \/ On(r, "GET", "/id/view")) /\ Keep
                           /\ Found(who, r, Is("boq"), Content("boq", r.p, doc))
HandleBOQEdit(who, r)   == On(r, "GET", "/id/edit") /\ Keep
                           /\ Found(who, r, Is("boq"), Content("edit boq", r.p, doc))
HandleBOQUpdate(who, r) == On(r, "POST", "/id/save") /\ Keep
                           /\ Found(who, r, Is("boq"), Piece("main", "boq", r.p, doc))
HandleBOQExport(who, r) == (On(r, "GET", "/id/export/pdf") \/ On(r, "GET", "/id/export/excel"))
                           /\ Keep /\ Found(who, r, Is("boq"), Stay)
HandleBOQDelete(who, r) ==
  /\ On(r, "DELETE", "/id") /\ Becomes(IF Is("boq") THEN Gone ELSE doc)
  /\ Found(who, r, Is("boq"), GoTo("boq", "-", r.p))

(* A new main item has none of the fields its collection requires.           *)
HandleAddMainItem(who, r) == On(r, "POST", "/id/main-items") /\ Keep /\ Reply(who, r, Refused)

(* Rows are added under, or taken with, the row the path names; the editor   *)
(* is rendered again with what is left.                                      *)
EditRows(who, r, verb, rest, depth, left) ==
  /\ On(r, verb, rest)
  /\ IF Is("boq") /\ doc.rows >= depth
     THEN \E n \in left : /\ Becomes([doc EXCEPT !.rows = n])
                          /\ Reply(who, r, Content("edit boq", r.p, [doc EXCEPT !.rows = n]))
     ELSE Keep /\ Reply(who, r, Refused)
HandleAddSubItem(who, r)       == EditRows(who, r, "POST", "/id/main-item/subitems", 1, {2})
HandleAddSubSubItem(who, r)    == EditRows(who, r, "POST", "/id/subitem/subsubitems", 2, {2})
HandleDeleteMainItem(who, r)   == EditRows(who, r, "DELETE", "/id/main-item", 1, 0..doc.rows)
HandleDeleteSubItem(who, r)    == EditRows(who, r, "DELETE", "/id/subitem", 2, 1..2)
HandleDeleteSubSubItem(who, r) == EditRows(who, r, "DELETE", "/id/subsubitem", 2, {2})

ServeBOQ(who, r) ==
  \/ HandleBOQList(who, r)    \/ HandleBOQCreate(who, r)   \/ HandleBOQSave(who, r)
  \/ HandleBOQView(who, r)    \/ HandleBOQEdit(who, r)     \/ HandleBOQUpdate(who, r)
  \/ HandleBOQExport(who, r)  \/ HandleBOQDelete(who, r)   \/ HandleAddMainItem(who, r)
  \/ HandleAddSubItem(who, r) \/ HandleAddSubSubItem(who, r)
  \/ HandleDeleteMainItem(who, r) \/ HandleDeleteSubItem(who, r)
  \/ HandleDeleteSubSubItem(who, r)

-----------------------------------------------------------------------------
(* Purchase orders. An order that is created leads to its editor. The lines  *)
(* are looked up, but neither the order's project nor its status is.         *)
HandlePOList(who, r)   == On(r, "GET", "-") /\ Keep /\ Reply(who, r, Content("orders", r.p, doc))
HandlePOCreate(who, r) == On(r, "GET", "/create") /\ Keep
                          /\ Found(who, r, Live(r), Content("new order", r.p, doc))
HandlePOSave(who, r)   ==
  /\ On(r, "POST", "-")
  /\ \/ Keep /\ Reply(who, r, Content("new order", r.p, doc))
     \/ /\ Creates(r) /\ Becomes(Doc("order", "draft", 0))
        /\ Reply(who, r, GoTo("po", "/id/edit", r.p))
     \/ /\ who = "elsewhere" /\ doc = Doc("vendor", "linked", 0)
        /\ Becomes(Doc("vendor", "ordered", 0)) /\ Reply(who, r, Stay)

HandlePOView(who, r)   == On(r, "GET", "/id") /\ Keep
                          /\ Found(who, r, Is("order"), Content("order", r.p, doc))
HandlePOEdit(who, r)   == On(r, "GET", "/id/edit") /\ Keep
                          /\ Found(who, r, Is("order"), Content("edit order", r.p, doc))

(* The editor lists the statuses the order may take next, but the order may  *)
(* have moved on since.                                                      *)
validTransitions == [draft     |-> {"draft", "sent", "cancelled"},
                     sent      |-> {"sent", "cancelled"},
                     cancelled |-> {"cancelled"}]
HandlePOUpdate(who, r) ==
  /\ On(r, "POST", "/id/save")
  /\ \/ ~Is("order") /\ Keep /\ Reply(who, r, Refused)
     \/ Is("order") /\ Keep /\ Reply(who, r, Content("edit order", r.p, doc))
     \/ /\ Is("order")
        /\ \E st \in validTransitions[doc.st] : Becomes([doc EXCEPT !.st = st])
        /\ Reply(who, r, GoTo("po", "/id/edit", r.p))

HandlePODelete(who, r) ==
  LET may == Is("order") /\ doc.st \in {"draft", "cancelled"} IN
  /\ On(r, "DELETE", "/id") /\ Becomes(IF may THEN Gone ELSE doc)
  /\ Found(who, r, may, GoTo("po", "-", r.p))

EditLines(who, r, cond, left) ==
  IF cond THEN \E n \in left : /\ Becomes([doc EXCEPT !.rows = n])
                               /\ Reply(who, r, Piece("lines", tab.page, tab.p, [doc EXCEPT !.rows = n]))
  ELSE Keep /\ Reply(who, r, Refused)
HandlePOAddLineItem(who, r) ==
  On(r, "POST", "/id/line-items") /\ EditLines(who, r, Is("order"), {1})
HandlePOAddLineItemFromBOQ(who, r) ==
  /\ On(r, "POST", "/id/line-items/from-boq")
  /\ EditLines(who, r, Is("order"), {1}) \/ (Keep /\ Reply(who, r, Complain))
HandlePOUpdateLineItem(who, r) ==
  /\ On(r, "PATCH", "/id/line-items/item")
  /\ EditLines(who, r, Is("order") /\ doc.rows = 1, {1})
HandlePODeleteLineItem(who, r) ==
  /\ On(r, "DELETE", "/id/line-items/item")
  /\ EditLines(who, r, Is("order") /\ doc.rows = 1, 0..1)
HandlePOBOQPicker(who, r) ==
  On(r, "GET", "/id/boq-picker") /\ Keep
  /\ Reply(who, r, Piece("picker", tab.page, tab.p, tab.seen))

ServePO(who, r) ==
  \/ HandlePOList(who, r)   \/ HandlePOCreate(who, r) \/ HandlePOSave(who, r)
  \/ HandlePOView(who, r)   \/ HandlePOEdit(who, r)   \/ HandlePOUpdate(who, r)
  \/ HandlePODelete(who, r) \/ HandlePOBOQPicker(who, r)
  \/ HandlePOAddLineItem(who, r) \/ HandlePOAddLineItemFromBOQ(who, r)
  \/ HandlePOUpdateLineItem(who, r) \/ HandlePODeleteLineItem(who, r)

-----------------------------------------------------------------------------
(* Vendors belong to no project; a project links those it buys from.         *)
HandleVendorList(who, r)   == On(r, "GET", "-") /\ Keep
                              /\ Reply(who, r, Content("vendors", r.p, doc))
HandleVendorCreate(who, r) == On(r, "GET", "/create") /\ Keep
                              /\ Reply(who, r, Content("new vendor", r.p, doc))
HandleVendorSave(who, r)   ==
  /\ On(r, "POST", "-")
  /\ \/ Keep /\ Reply(who, r, Content("new vendor", r.p, doc))
     \/ /\ doc = Unborn /\ (r.p = Nothing \/ Creates(r))
        /\ Becomes(Doc("vendor", IF r.p = Home THEN "linked" ELSE "unlinked", 0))
        /\ Reply(who, r, GoTo("vendors", "-", r.p))

HandleVendorEdit(who, r)   == On(r, "GET", "/id/edit") /\ Keep
                              /\ Found(who, r, Is("vendor"), Content("edit vendor", Nothing, doc))
HandleVendorUpdate(who, r) ==
  /\ On(r, "POST", "/id/save") /\ Keep
  /\ \/ Found(who, r, Is("vendor"), Content("edit vendor", Nothing, doc))
     \/ Found(who, r, Is("vendor"), GoTo("vendors", "-", Nothing))
HandleVendorDelete(who, r) ==
  LET may == Is("vendor") /\ doc.st # "ordered" IN
  /\ On(r, "DELETE", "/id") /\ Becomes(IF may THEN Gone ELSE doc)
  /\ Found(who, r, may, GoTo("vendors", "-", Nothing))

(* Linking twice or unlinking twice does no harm; both answer with the other *)
(* button.                                                                   *)
Linked(who, r, may, st) ==
  LET d == [doc EXCEPT !.st = st] IN
  IF may THEN Becomes(d) /\ Reply(who, r, Piece("toggle", tab.page, tab.p, d))
  ELSE Keep /\ Reply(who, r, Refused)
HandleVendorLink(who, r)   ==
  /\ On(r, "POST", "/id/link")
  /\ Linked(who, r, Live(r) /\ Is("vendor"),
            IF doc.st = "ordered" THEN "ordered" ELSE "linked")
HandleVendorUnlink(who, r) ==
  /\ On(r, "DELETE", "/id/link")
  /\ Linked(who, r, Is("vendor") /\ doc.st # "ordered", "unlinked")

ServeVendors(who, r) ==
  \/ HandleVendorList(who, r)   \/ HandleVendorCreate(who, r) \/ HandleVendorSave(who, r)
  \/ HandleVendorEdit(who, r)   \/ HandleVendorUpdate(who, r) \/ HandleVendorDelete(who, r)
  \/ HandleVendorLink(who, r)   \/ HandleVendorUnlink(who, r)

-----------------------------------------------------------------------------
(* Transporters and challan templates.                                       *)
HandleTransporterList(who, r)   == On(r, "GET", "/") /\ Keep
                                   /\ Reply(who, r, Content("transporters", r.p, doc))
HandleTransporterCreate(who, r) == On(r, "GET", "/create") /\ Keep
                                   /\ Reply(who, r, Content("new transporter", r.p, doc))
HandleTransporterSave(who, r)   ==
  /\ On(r, "POST", "/create")
  /\ \/ Keep /\ Reply(who, r, Content("new transporter", r.p, doc))
     \/ /\ Creates(r) /\ Becomes(Doc("transporter", "-", 0))
        /\ Reply(who, r, GoTo("transporters", "/id", r.p))
HandleTransporterDetail(who, r) == On(r, "GET", "/id") /\ Keep
                                   /\ Found(who, r, Is("transporter"), Content("transporter", r.p, doc))
HandleTransporterEdit(who, r)   == On(r, "GET", "/id/edit") /\ Keep
                                   /\ Found(who, r, Is("transporter"), Content("edit transporter", r.p, doc))
HandleTransporterUpdate(who, r) ==
  /\ On(r, "POST", "/id/edit") /\ Keep
  /\ \/ Found(who, r, Is("transporter"), Content("edit transporter", r.p, doc))
     \/ Found(who, r, Is("transporter"), GoTo("transporters", "/id", r.p))
HandleTransporterToggle(who, r) == On(r, "POST", "/id/toggle") /\ Keep
                                   /\ Found(who, r, Is("transporter"), GoTo("transporters", "/id", r.p))
HandleVehicleAdd(who, r)        ==
  /\ On(r, "POST", "/id/vehicles")
  /\ \/ Keep /\ Found(who, r, Is("transporter"), Complain)
     \/ /\ Is("transporter") /\ Becomes([doc EXCEPT !.rows = 1])
        /\ Reply(who, r, GoTo("transporters", "/id", r.p))
HandleVehicleDelete(who, r)     ==
  LET may == Is("transporter") /\ doc.rows = 1 IN
  /\ On(r, "DELETE", "/id/vehicles/vid")
  /\ \E n \in 0..1 : Becomes(IF may THEN [doc EXCEPT !.rows = n] ELSE doc)
  /\ Found(who, r, may, GoTo("transporters", "/id", r.p))

ServeTransporters(who, r) ==
  \/ HandleTransporterList(who, r)   \/ HandleTransporterCreate(who, r)
  \/ HandleTransporterSave(who, r)   \/ HandleTransporterDetail(who, r)
  \/ HandleTransporterEdit(who, r)   \/ HandleTransporterUpdate(who, r)
  \/ HandleTransporterToggle(who, r) \/ HandleVehicleAdd(who, r)
  \/ HandleVehicleDelete(who, r)

HandleDCTemplateList(who, r)   == On(r, "GET", "/") /\ Keep
                                  /\ Reply(who, r, Content("templates", r.p, doc))
HandleDCTemplateCreate(who, r) == On(r, "GET", "/create") /\ Keep
                                  /\ Reply(who, r, Content("new template", r.p, doc))
HandleDCTemplateSave(who, r)   ==
  /\ On(r, "POST", "/create")
  /\ \/ Keep /\ Reply(who, r, Content("new template", r.p, doc))
     \/ /\ Creates(r) /\ Becomes(Doc("template", "-", 0))
        /\ Reply(who, r, GoTo("dc-templates", "/", r.p))
HandleDCTemplateEdit(who, r)   == On(r, "GET", "/id/edit") /\ Keep
                                  /\ Found(who, r, Is("template"), Content("edit template", r.p, doc))
HandleDCTemplateUpdate(who, r) ==
  /\ On(r, "POST", "/id/edit") /\ Keep
  /\ \/ Found(who, r, Is("template"), Content("edit template", r.p, doc))
     \/ Found(who, r, Is("template"), GoTo("dc-templates", "/", r.p))
HandleDCTemplateDelete(who, r) ==
  /\ On(r, "DELETE", "/id/delete") /\ Becomes(IF Is("template") THEN Gone ELSE doc)
  /\ Found(who, r, Is("template"), GoTo("dc-templates", "/", r.p))
HandleDCTemplateDuplicate(who, r) == On(r, "POST", "/id/duplicate") /\ Keep
                                     /\ Found(who, r, Is("template"), GoTo("dc-templates", "/", r.p))

ServeTemplates(who, r) ==
  \/ HandleDCTemplateList(who, r)   \/ HandleDCTemplateCreate(who, r)
  \/ HandleDCTemplateSave(who, r)   \/ HandleDCTemplateEdit(who, r)
  \/ HandleDCTemplateUpdate(who, r) \/ HandleDCTemplateDelete(who, r)
  \/ HandleDCTemplateDuplicate(who, r)

-----------------------------------------------------------------------------
(* Addresses. The routes of lists and forms stand for one type; the other    *)
(* handlers read the type from the path, each in its own way: most take a    *)
(* labelled type, dashed or not, and dispatch_from has a label. The address  *)
(* itself is not compared with either. Lists and forms set the cookie before *)
(* they look the project up.                                                 *)
TypeOfSlug(slug) == CHOOSE t \in AllTypes : addressTypeToSlug[t] = slug
AddressTypeDisplayLabels == AllTypes \cup {"dispatch_from"}
Dashed(t)        == IF t = "dispatch_from" THEN "dispatch-from" ELSE addressTypeToSlug[t]
TypeNamed(slug)  == {t \in AddressTypeDisplayLabels : slug \in {t, Dashed(t)}}
Importable(slug) == slugToDBType(slug) \in {"ship_to", "install_at"}

HandleAddressList(who, r) ==
  /\ On(r, "GET", "-") /\ Visit(r.p)
  /\ Found(who, r, Live(r), Typed("addresses", r.p, TypeOfSlug(r.type)))
HandleAddressCreate(who, r) ==
  /\ On(r, "GET", "/new") /\ Visit(r.p)
  /\ Found(who, r, Live(r), Typed("new address", r.p, TypeOfSlug(r.type)))
HandleAddressSave(who, r) ==
  /\ On(r, "POST", "/new")
  /\ \/ Keep /\ Found(who, r, Live(r), Full("new address", r.p, TypeOfSlug(r.type)))
     \/ /\ Creates(r) /\ Becomes(Doc("address", TypeOfSlug(r.type), 0))
        /\ Reply(who, r, GoToType("-", r.p, r.type))
HandleAddressEdit(who, r) ==
  /\ On(r, "GET", "/id/edit") /\ Visit(r.p)
  /\ Found(who, r, Live(r) /\ Is("address"), Typed("edit address", r.p, TypeOfSlug(r.type)))
HandleAddressUpdate(who, r) ==
  /\ On(r, "POST", "/id/edit") /\ Keep
  /\ \/ Found(who, r, Live(r) /\ Is("address"), Full("edit address", r.p, TypeOfSlug(r.type)))
     \/ Found(who, r, Live(r) /\ Is("address"), GoToType("-", r.p, r.type))

(* The list it returns to is named as the request named it.                  *)
HandleAddressDelete(who, r) ==
  LET may == Is("address") /\ TypeNamed(r.type) # {} IN
  /\ On(r, "DELETE", "/id") /\ Becomes(IF may THEN Gone ELSE doc)
  /\ Found(who, r, may, GoToType("-", r.p, r.type))
(* The identifiers are read from a body, which HTMX sends with no DELETE.    *)
HandleAddressBulkDelete(who, r) == On(r, "DELETE", "/bulk") /\ Keep /\ Reply(who, r, Refused)
HandleAddressDeleteInfo(who, r) == On(r, "GET", "/id/delete-info") /\ Keep /\ Reply(who, r, Stay)
HandleAddressExportExcel(who, r) ==
  On(r, "GET", "/export") /\ Keep /\ Found(who, r, TypeNamed(r.type) # {} /\ Live(r), Stay)
HandleAddressTemplateDownload(who, r) ==
  On(r, "GET", "/template") /\ Keep
  /\ Found(who, r, r.type \in {"ship_to", "install_at"} /\ Live(r), Stay)

HandleAddressImportPage(who, r) ==
  On(r, "GET", "/import") /\ Keep
  /\ Found(who, r, Importable(r.type) /\ Live(r), Typed("import", r.p, r.type))
HandleAddressValidate(who, r) ==
  /\ On(r, "POST", "/import") /\ Keep
  /\ \/ Reply(who, r, Complain)
     \/ Found(who, r, Importable(r.type), Piece("results", "import checked", r.p, doc))
HandleAddressErrorReport(who, r) == On(r, "POST", "/import/errors") /\ Keep /\ Reply(who, r, Stay)
HandleAddressImportCommit(who, r) ==
  /\ On(r, "POST", "/import/commit") /\ Keep
  /\ \E result \in {"import done", "import failed"} :
       Found(who, r, Importable(r.type) /\ Live(r), Piece("results", result, r.p, doc))

ServeAddresses(who, r) ==
  \/ HandleAddressList(who, r)        \/ HandleAddressCreate(who, r)
  \/ HandleAddressSave(who, r)        \/ HandleAddressEdit(who, r)
  \/ HandleAddressUpdate(who, r)      \/ HandleAddressDelete(who, r)
  \/ HandleAddressBulkDelete(who, r)  \/ HandleAddressDeleteInfo(who, r)
  \/ HandleAddressExportExcel(who, r) \/ HandleAddressTemplateDownload(who, r)
  \/ HandleAddressImportPage(who, r)  \/ HandleAddressValidate(who, r)
  \/ HandleAddressErrorReport(who, r) \/ HandleAddressImportCommit(who, r)

-----------------------------------------------------------------------------
(* Delivery challans and the wizard that creates them.                       *)
HandleDCList(who, r) == On(r, "GET", "/") /\ Keep /\ Reply(who, r, Content("challans", r.p, doc))
HandleDCWizardStep1(who, r) == On(r, "GET", "/create") /\ Keep
                               /\ Reply(who, r, Content("wizard 1", r.p, doc))
(* A step whose data are wrong is shown again.                               *)
WizardStep(who, r, rest, pages) ==
  On(r, "POST", rest) /\ Keep /\ \E page \in pages : Reply(who, r, Content(page, r.p, doc))
HandleDCWizardStep2(who, r)       == WizardStep(who, r, "/create/step2", {"wizard 1", "wizard 2"})
HandleDCWizardStep3(who, r)       == WizardStep(who, r, "/create/step3", {"wizard 2", "wizard 3"})
HandleDCWizardStep4(who, r)       == WizardStep(who, r, "/create/step4", {"wizard 4"})
HandleDCWizardBackToStep1(who, r) == WizardStep(who, r, "/create/back-to-step1", {"wizard 1"})
HandleDCWizardBackToStep2(who, r) == WizardStep(who, r, "/create/back-to-step2", {"wizard 2"})
HandleDCWizardBackToStep3(who, r) == WizardStep(who, r, "/create/back-to-step3", {"wizard 3"})
HandleDCCreate(who, r) ==
  /\ On(r, "POST", "/create")
  /\ \/ Keep /\ Reply(who, r, Complain)
     \/ /\ Creates(r)
        /\ \E kind \in Challans : Becomes(Doc(kind, "draft", 0))
        /\ Reply(who, r, GoTo("dcs", "/id", r.p))

Challan == doc.kind \in Challans
HandleDCDetail(who, r) == On(r, "GET", "/id") /\ Keep
                          /\ Found(who, r, Challan, Content("challan", r.p, doc))
(* Editing a draft opens an empty wizard.                                    *)
HandleDCEdit(who, r)   == On(r, "GET", "/id/edit") /\ Keep
                          /\ Found(who, r, Challan /\ doc.st = "draft", GoTo("dcs", "/create", r.p))
Issues(who, r, may, answer) ==
  \/ Keep /\ Found(who, r, may, Complain)
  \/ may /\ Becomes([doc EXCEPT !.st = "issued"]) /\ Reply(who, r, answer)
Deletes(who, r, may) == /\ Becomes(IF may THEN Gone ELSE doc)
                        /\ Found(who, r, may, GoTo("dcs", "/", r.p))
HandleDCIssue(who, r)  == On(r, "POST", "/id/issue")
                          /\ Issues(who, r, Challan /\ doc.st = "draft", GoTo("dcs", "/id", r.p))
HandleDCDelete(who, r) == On(r, "DELETE", "/id") /\ Deletes(who, r, Challan /\ doc.st = "draft")
HandleDCExport(who, r) == r.verb = "GET" /\ Keep
                          /\ r.rest \in {"/id/export/pdf", "/id/export/excel", "/id/print"}
                          /\ Found(who, r, Challan, Stay)

ServeDCs(who, r) ==
  \/ HandleDCList(who, r)         \/ HandleDCWizardStep1(who, r)
  \/ HandleDCWizardStep2(who, r)  \/ HandleDCWizardBackToStep1(who, r)
  \/ HandleDCWizardStep3(who, r)  \/ HandleDCWizardBackToStep2(who, r)
  \/ HandleDCWizardStep4(who, r)  \/ HandleDCWizardBackToStep3(who, r)
  \/ HandleDCCreate(who, r)       \/ HandleDCDetail(who, r)
  \/ HandleDCEdit(who, r)         \/ HandleDCIssue(who, r)
  \/ HandleDCDelete(who, r)       \/ HandleDCExport(who, r)

(* The split of a transfer: its first step alone looks at the status. A      *)
(* split made here leads to its transit challan, which is followed from then *)
(* on; one made elsewhere leaves fewer destinations.                         *)
HandleSplitStep1(who, r) == On(r, "GET", "/id/split") /\ Keep
                            /\ Found(who, r, Is("transfer") /\ doc.st = "issued", Content("split 1", r.p, doc))
SplitStep(who, r, rest, pages) ==
  On(r, "POST", rest) /\ Keep
  /\ \E page \in pages : Found(who, r, Is("transfer"), Content(page, r.p, doc))
HandleSplitStep2(who, r) == SplitStep(who, r, "/id/split/step2", {"split 1", "split 2"})
HandleSplitStep3(who, r) == SplitStep(who, r, "/id/split/step3", {"split 3"})
HandleSplitCreate(who, r) ==
  /\ On(r, "POST", "/id/split")
  /\ \/ ~Is("transfer") /\ Keep /\ Reply(who, r, Refused)
     \/ Is("transfer") /\ Keep /\ Reply(who, r, Complain)
     \/ /\ Is("transfer") /\ doc.st = "issued"
        /\ IF who = "elsewhere"
           THEN \E st \in {"issued", "exhausted", "split"} : Becomes([doc EXCEPT !.st = st])
           ELSE Becomes(Doc("transit", "draft", 0))
        /\ Reply(who, r, GoTo("dcs", "/id", r.p))

ServeSplits(who, r) == \/ HandleSplitStep1(who, r) \/ HandleSplitStep2(who, r)
                       \/ HandleSplitStep3(who, r) \/ HandleSplitCreate(who, r)

HandleShipmentGroupDetail(who, r)   == On(r, "GET", "/id") /\ Keep
                                       /\ Found(who, r, Is("transit"), Content("group", r.p, doc))
HandleShipmentGroupIssueAll(who, r) ==
  On(r, "POST", "/id/issue")
  /\ Issues(who, r, Is("transit") /\ doc.st = "draft", GoTo("shipment-groups", "/id", r.p))
HandleShipmentGroupDelete(who, r)   ==
  On(r, "DELETE", "/id") /\ Deletes(who, r, Is("transit") /\ doc.st = "draft")

ServeGroups(who, r) == \/ HandleShipmentGroupDetail(who, r)
                       \/ HandleShipmentGroupIssueAll(who, r)
                       \/ HandleShipmentGroupDelete(who, r)

-----------------------------------------------------------------------------
(* One request, served by the handler its route is registered for.           *)
Serve(who, r) ==
  \/ ~Routed(r) /\ Keep /\ Reply(who, r, Refused)
  \/ /\ Routed(r)
     /\ \/ r.at = "projects"                     /\ ServeProjects(who, r)
        \/ r.at = "settings" /\ (HandleAppSettings(who, r) \/ HandleAppSettingsSave(who, r))
        \/ r.at = "home"                         /\ RedirectHome(who, r)
        \/ r.at = "boq" /\ r.p = Nothing /\ (RedirectBOQ(who, r) \/ RedirectBOQView(who, r))
        \/ r.at = "boq" /\ r.p # Nothing         /\ ServeBOQ(who, r)
        \/ r.at = "po"                           /\ ServePO(who, r)
        \/ r.at = "vendors"                      /\ ServeVendors(who, r)
        \/ r.at = "transporters"                 /\ ServeTransporters(who, r)
        \/ r.at = "dc-templates"                 /\ ServeTemplates(who, r)
        \/ r.at = "addresses"                    /\ ServeAddresses(who, r)
        \/ r.at = "dcs"                          /\ ServeDCs(who, r)
        \/ r.at = "transfer-dcs"                 /\ ServeSplits(who, r)
        \/ r.at = "shipment-groups"              /\ ServeGroups(who, r)

(* What the reader's tab offers.                                             *)
Offered == IF tab.page \in {"error", "loading"} THEN {}
           ELSE Shell(tab.shell) \cup Body(tab.page, tab.p, tab.type, tab.seen)

Follow == \E r \in Offered : Serve("reader", r)

(* The browser asks for the page it was sent on to.                          *)
Load == tab.wait # Nothing /\ Serve("reader", tab.wait)

(* Addresses kept in bookmarks and messages.                                 *)
Bookmarks ==
  Plain("home", "-", Nothing) \cup Plain("boq", "-", Nothing) \cup Plain("boq", "/id", Nothing)
  \cup Plain("shipment-groups", "/id", Home) \cup Plain("dcs", "/id", Home)
  \cup (UNION {Plain("projects", "-", q) \cup Plain("po", "-", q) : q \in Projects})
  \cup UNION {OfType(Plain("addresses", "-", q), addressTypeToSlug[t]) : q \in Projects, t \in AddressTypes}
Type == /\ tab.wait = Nothing
        /\ \E r \in Bookmarks : tab' = Loading(r, Nothing)
        /\ last' = [how |-> "typed", req |-> Nothing]
        /\ UNCHANGED <<projects, doc, active>>

(* Another tab of the browser: it may hold any page of the document, and the *)
(* pages that create one or switch projects.                                 *)
PagesOf(d) == {page \in {"boq", "edit boq", "orders", "edit order", "vendors", "edit vendor",
                         "transporter", "templates", "addresses", "edit address",
                         "challan", "split 3", "group"} : d.kind \in Shows(page)}
Creations == Form("boq", "-", Home) \cup Form("po", "-", Home) \cup Form("vendors", "-", Home)
             \cup Form("transporters", "/create", Home) \cup Form("dc-templates", "/create", Home)
             \cup (UNION {OfType(Form("addresses", "/new", Home), addressTypeToSlug[t]) : t \in AddressTypes})
             \cup Form("dcs", "/create", Home)
Changes ==
  {r \in UNION {Body(page, Home, doc.st, doc) : page \in PagesOf(doc)} : r.verb # "GET"}
  \cup (IF doc = Unborn THEN Creations ELSE {})
  \cup (IF doc.kind = "vendor" THEN Form("po", "-", Home) ELSE {})
  \cup (UNION {Do("POST", "projects", "/activate", q, "body") : q \in Projects})
  \cup UNION {Do("DELETE", "projects", "-", q, "main") : q \in Projects}
Elsewhere == \E r \in Changes : Serve("elsewhere", r)

Init == /\ projects = Projects
        /\ doc \in {Unborn, Doc("boq", "-", 2)}
        /\ active = Nothing
        /\ tab = Loading(Send("GET", "home", "-", Nothing, "page"), Nothing)
        /\ last = Quiet

Next == Follow \/ Load \/ Type \/ Elsewhere

Spec == Init /\ [][Next]_vars

-----------------------------------------------------------------------------
TypeOK ==
  /\ projects \subseteq Projects
  /\ doc \in Documents /\ tab.seen \in Documents
  /\ active \in Projects \cup {Nothing}
  /\ tab.p \in Projects \cup {Nothing} /\ tab.shell \in Projects \cup {Nothing}
  /\ last.how \in {"taken", "refused", "misfit", "typed"}

(* The paths no handler is registered for: the export of the BOQ list; the   *)
(* lists and forms of the type ship_from, whose pages write dispatch-from    *)
(* (what they delete under that name is served); and what an import page     *)
(* offers when its own path has the type as the database writes it.          *)
DeadLinks(r) == \/ r.at = "boq" /\ r.rest = "/id/export"
                \/ r.type = "dispatch-from" /\ r.rest \in {"-", "/new", "/id/edit"}
                \/ /\ tab.page \in {"import", "import checked", "import done", "import failed"}
                   /\ r.rest = "-" /\ r.type \in {"ship_to", "install_at"}

(* The one redirect that no handler serves: the deletion of a ship_from      *)
(* address, asked for as dispatch-from, returns to a list of that name.      *)
DeadRedirect(r) == r.type = "dispatch-from" /\ On(r, "GET", "-")

\* Every link, button, form and redirect a reader can meet, on any page, after
\* any steps of his and of others, leads to a registered handler, but for the
\* dead links named above and the list a ship_from address was deleted from.
NoDeadLinks ==
  /\ TypeOK
  /\ \A r \in Offered : Routed(r) \/ DeadLinks(r)
  /\ tab.wait # Nothing => Routed(tab.wait) \/ DeadRedirect(tab.wait)

(* The page still says what is true: its document is as it was when it was   *)
(* rendered, and the project of the request exists.                          *)
Fresh(r) == /\ tab.seen = Snapshot(tab.page, tab.p, tab.type, doc)
            /\ r.p \in projects \cup {Nothing}

(* The buttons that are refused on a page that is not stale: the two no      *)
(* handler can serve, the deletion of a vendor with orders, the split with   *)
(* no destination left, also from its own later steps, which do not look,    *)
(* and what the address lists offer of types that are not imported.          *)
Refusable(r) == \/ DeadLinks(r)
                \/ r.rest \in {"/id/main-items", "/bulk"}
                \/ r.verb = "DELETE" /\ doc.st = "ordered"
                \/ r.at = "transfer-dcs" /\ doc.st \in {"exhausted", "split"}
                \/ r.rest \in {"/template", "/import"} /\ ~Importable(r.type)

\* A page offers no more than its reader may do: a request it offers is refused
\* only if others have changed the document or deleted the project since, but
\* for the buttons named above. So the conditions of the templates and the
\* checks of the handlers, written apart, agree.
OffersAreTaken ==
  [][last'.how = "refused" /\ tab.wait = Nothing /\ Fresh(last'.req)
     => Refusable(last'.req)]_vars

\* What a handler renders fits the place it is put in, a whole page only in the
\* window and a piece only in its slot, but for the new-project link of the
\* project list, which puts a page inside the page, and the search of vendors,
\* which puts the list inside its own table.
LandsWhereItFits ==
  last.how = "misfit" => \/ last.req.at = "projects" /\ last.req.rest = "/create"
                         \/ last.req.at = "vendors" /\ last.req.into = "tbody"

(* The page is about the shell's project or about none; the page that is     *)
(* being loaded, about the active one or none.                               *)
Consistent == IF tab.wait = Nothing THEN tab.p \in {Nothing, tab.shell}
              ELSE tab.wait.p \in {Nothing, ActiveProjectMiddleware}

\* As long as a reader follows links and no other tab has switched or deleted the
\* project, the sidebar never belongs to another project than the page: the
\* handlers that change the project also make the browser load the shell again.
\* Only an address typed in, or the old path of a BOQ, opens a page in the shell
\* of another project.
ShellFollowsBody ==
  [][/\ tab' # tab /\ last'.how # "typed" /\ Consistent
     /\ tab.wait \notin Plain("boq", "/id", Nothing)
     /\ tab.wait = Nothing => tab.shell = ActiveProjectMiddleware
     => Consistent']_vars

=============================================================================
