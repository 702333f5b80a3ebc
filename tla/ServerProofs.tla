---------------------------- MODULE ServerProofs -----------------------------
(* Proofs about Server, for any projects and address types: every link of    *)
(* every page leads to a handler, what the handlers answer fits where it is  *)
(* put, the shell follows the body, and only stale pages offer what is       *)
(* refused.                                                                  *)
EXTENDS Server, TLAPS

-----------------------------------------------------------------------------
(* What each page is about: a project, perhaps one, or none; and which pages *)
(* are about the followed document, not only about a list it may be in.      *)
ProjectPages ==
  {"project", "edit project", "project settings", "boqs", "new boq", "boq", "edit boq",
   "orders", "new order", "order", "edit order", "transporters", "new transporter",
   "edit transporter", "transporter", "templates", "new template", "edit template",
   "addresses", "new address", "edit address", "import", "import checked", "import done",
   "import failed", "challans", "wizard 1", "wizard 2", "wizard 3", "wizard 4", "challan",
   "split 1", "split 2", "split 3", "group"}
OpenPages    == {"vendors", "new vendor"}
RootPages    == {"projects", "new project", "settings", "edit vendor", "error", "loading"}
AddressPages == {"addresses", "new address", "edit address"}
ImportPages  == {"import", "import checked", "import done", "import failed"}
SplitPages   == {"split 1", "split 2", "split 3"}
DocPages ==
  {"boq", "edit boq", "order", "edit order", "edit vendor", "transporter", "edit transporter",
   "edit template", "edit address", "challan", "group"} \cup SplitPages

\* A page and what it shows of the followed document go together.
PageOK(page, p, type, seen) ==
  /\ \/ page \in ProjectPages /\ p \in Projects
     \/ page \in OpenPages    /\ p \in Projects \cup {Nothing}
     \/ page \in RootPages    /\ p = Nothing
  /\ page \in AddressPages => type \in AddressTypes
  /\ page \in ImportPages  => type \in AddressTypes \cap {"ship_to", "install_at"}
  /\ page \in DocPages     => seen # Unborn
  /\ seen # Unborn => /\ seen.kind \in Shows(page)
                      /\ p = Home \/ (p = Nothing /\ seen.kind = "vendor")
  /\ seen \in Documents

\* Only a transit challan has a group, and a draft is not split.
Advanced(page, seen) ==
  /\ page = "group"         => seen.kind = "transit"
  /\ page \in SplitPages    => seen.st # "draft"

(* The rests of a path that name the followed document.                      *)
LineRests  == {"/id/line-items", "/id/line-items/from-boq", "/id/line-items/item"}
RowRests   == {"/id/main-item", "/id/main-item/subitems"}
DeepRests  == {"/id/subitem", "/id/subitem/subsubitems", "/id/subsubitem"}
SplitRests == {"/id/split", "/id/split/step2", "/id/split/step3"}
IdRests ==
  {"/id", "/id/edit", "/id/view", "/id/save", "/id/export", "/id/export/pdf",
   "/id/export/excel", "/id/main-items", "/id/link", "/id/boq-picker",
   "/id/toggle", "/id/vehicles", "/id/vehicles/vid", "/id/duplicate",
   "/id/delete", "/id/delete-info", "/id/issue", "/id/print"}
  \cup LineRests \cup RowRests \cup DeepRests \cup SplitRests

RootAts == {"projects", "vendors", "boq", "settings", "home"}

\* The project and the address type a request names are ones it may name.
Plausible(r) ==
  /\ r.p \in Projects \cup {Nothing}
  /\ r.p = Nothing => r.at \in RootAts
  /\ r.rest \in IdRests => r.p \in {Home, Nothing}
  /\ r.at = "addresses" => /\ r.type \in RegisteredSlugs => TypeOfSlug(r.type) \in AddressTypes
                           /\ r.rest = "/import" /\ r.verb = "GET" => r.type \in AddressTypes

\* What a tab loads by itself: a page, or the project list into the page it is on.
Awaited(r) ==
  /\ Plausible(r) /\ (Routed(r) \/ DeadRedirect(r)) /\ r.verb = "GET"
  /\ \/ r.into = "page"
     \/ r.into = "main" /\ r.at = "projects" /\ r.rest = "-" /\ r.p = Nothing
  /\ r.rest \notin {"/id/boq-picker", "/id/link", "/import"}
  /\ r.at = "boq" /\ r.p = Nothing
       => r \in Plain("boq", "-", Nothing) \cup Plain("boq", "/id", Nothing)

WholeTab ==
  tab = [page |-> tab.page, p |-> tab.p, type |-> tab.type, seen |-> tab.seen,
         shell |-> tab.shell, wait |-> tab.wait]

\* A document that was split or could be.
Splittable(d) == d # Unborn /\ ~(d.kind = "transfer" /\ d.st = "draft")

TabOK ==
  /\ TypeOK /\ WholeTab
  /\ PageOK(tab.page, tab.p, tab.type, tab.seen) /\ Advanced(tab.page, tab.seen)
  /\ tab.wait # Nothing => tab.page = "loading" /\ Awaited(tab.wait)
  /\ tab.page \in SplitPages => Splittable(doc)

(* What an offer of the reader's page is for, beyond Plausible.              *)
Wholes(r) == \/ r.at = "boq" /\ (r.rest = "/create" \/ (r.rest = "-" /\ r.verb = "POST"))
             \/ r.at = "addresses" /\ r.verb = "POST" /\ r.rest \in {"/new", "/id/edit"}
             \/ r.at = "projects" /\ r.verb = "POST" /\ r.rest = "-" /\ r.p = Nothing
Asides(r) == \/ r.rest \in LineRests \cup {"/id/boq-picker", "/id/link", "/activate",
                   "/id/toggle", "/id/vehicles/vid", "/id/duplicate",
                   "/id/delete", "/id/delete-info", "/id/print", "/import/commit",
                   "/import/errors"}
             \/ r.rest = "/import" /\ r.verb = "POST"
             \/ r.rest = "/id" /\ r.verb = "DELETE"
             \/ r.at = "vendors" /\ r.into = "tbody"
Fits(r, page) ==
  /\ Wholes(r) => r.into = "page"
  /\ r.into \in {"page", "main"} \/ Asides(r)
  /\ r.at = "po" /\ r.rest \in LineRests => r.into = "lines" /\ page = "edit order"
  /\ r.at = "po" /\ r.rest = "/id/boq-picker" => r.into = "picker" /\ page = "edit order"
  /\ r.at = "vendors" /\ r.rest = "/id/link" => r.into = "toggle" /\ page = "vendors" /\ r.p # Nothing
  /\ r.at = "addresses" /\ r.verb = "POST" /\ r.rest \in {"/import", "/import/commit"}
       => r.into = "results" /\ page \in ImportPages
  /\ r.at = "boq" /\ r.verb = "POST" /\ r.rest = "/id/save" => r.into = "main"
  /\ r.at = "transfer-dcs" /\ r.verb = "POST" => page \in SplitPages

\* The project is not the reader's: the handler makes it so.
Switches(r) == /\ r.at = "projects"
               /\ \/ r.rest = "-" /\ r.verb = "GET" /\ r.into = "main"
                  \/ r.rest = "/activate"

Belongs(r, p, s) ==
  /\ r.at = "boq" => r.p # Nothing
  /\ \/ r.p \in {Nothing, p, s}
     \/ Switches(r)

KindsAt(at) == CASE at = "boq"             -> {"boq"}
                 [] at = "po"              -> {"order"}
                 [] at = "vendors"         -> {"vendor"}
                 [] at = "transporters"    -> {"transporter"}
                 [] at = "dc-templates"    -> {"template"}
                 [] at = "addresses"       -> {"address"}
                 [] at = "dcs"             -> Challans
                 [] at = "transfer-dcs"    -> {"transfer"}
                 [] at = "shipment-groups" -> {"transit"}
                 [] OTHER                  -> {}
Warranted(r, d) ==
  /\ r.rest \in IdRests   => d.kind \in KindsAt(r.at)
  /\ r.rest \in RowRests  => d.rows > 0
  /\ r.rest \in DeepRests => d.rows = 2
  /\ r.rest \in {"/id/line-items/item", "/id/vehicles/vid"} => d.rows = 1
  /\ r.at = "po" /\ r.rest = "/id" /\ r.verb = "DELETE" => d.st \in {"draft", "cancelled"}
  /\ r.at \in {"dcs", "shipment-groups"} /\ r.rest = "/id" /\ r.verb = "DELETE" => d.st = "draft"
  /\ r.at \in {"dcs", "shipment-groups"} /\ r.rest \in {"/id/issue", "/id/edit"} => d.st = "draft"
  /\ r.at = "transfer-dcs" => d.st # "draft"
  /\ r.at = "addresses" =>
       /\ r.rest = "/id" => r.type = "dispatch-from" \/ r.type \in RegisteredSlugs
       /\ r.rest \in {"/export", "/template"} => r.type \in AllTypes
       /\ r.rest = "/import/commit" \/ (r.rest = "/import" /\ r.verb = "POST") => Importable(r.type)

\* DeadLinks, of the page that is named.
Dead(r, page) == \/ r.at = "boq" /\ r.rest = "/id/export"
                 \/ r.type = "dispatch-from" /\ r.rest \in {"-", "/new", "/id/edit"}
                 \/ page \in ImportPages /\ r.rest = "-" /\ r.type \in {"ship_to", "install_at"}

\* A request that a page about p, in the shell of s, may offer, showing d.
OfferOK(r, page, p, s, d) ==
  /\ Plausible(r) /\ Fits(r, page) /\ Belongs(r, p, s) /\ Warranted(r, d)
  /\ Routed(r) \/ Dead(r, page)

(* A request the reader sends: one his page offers, or the one he waits for. *)
Sent(r) == IF tab.wait = Nothing THEN OfferOK(r, tab.page, tab.p, tab.shell, tab.seen)
           ELSE r = tab.wait /\ Awaited(r)

(* What a handler leaves of the data.                                        *)
StateOK == /\ projects' \subseteq Projects /\ doc' \in Documents
           /\ active' \in Projects \cup {Nothing}
           /\ Splittable(doc) => Splittable(doc')

Kept(r)    == r.p \in {Nothing, ActiveProjectMiddleware}
Excused(r) == \/ r.at = "projects" /\ r.rest = "/create"
              \/ r.at = "vendors" /\ r.into = "tbody"
Fair(r)    == tab.wait = Nothing /\ Fresh(r) => Refusable(r)

(* What it answers: where it leads to is routed and about the project that   *)
(* is then active, what it shows fits the documents and the reader's shell,  *)
(* and it refuses only what is stale or is known to be refused.              *)
LeadsOn(r, to) ==
  /\ Awaited(to)
  /\ (Kept(r) /\ r \notin Plain("boq", "/id", Nothing)) \/ Switches(r)
       => to.p \in {Nothing, ActiveProjectMiddleware'}
ShowsWell(r, page, p, type, seen) ==
  /\ PageOK(page, p, type, seen) /\ Advanced(page, seen)
  /\ page \in SplitPages => Splittable(doc')
  /\ p \in {Nothing, r.p, tab.p}
  /\ Switches(r) => p \in {Nothing, ActiveProjectMiddleware}

AnswerOK(r, a) ==
  \/ a.kind \in {"goto", "moved"} /\ LeadsOn(r, a.to)
  \/ a.kind \in {"stay", "complaint"}
  \/ a.kind = "refused" /\ Fair(r)
  \/ /\ a.kind \in {"content", "full"} \cup Slots
     /\ ShowsWell(r, a.page, a.p, a.type, a.seen)
     /\ Misfit(r, a) => Excused(r)

Answered(who, r) == \E a : Reply(who, r, a) /\ (who = "reader" => AnswerOK(r, a))

-----------------------------------------------------------------------------
(* What the requests of a link, a form or a button look like.                *)
Whole(r) == r = [verb |-> r.verb, at |-> r.at, rest |-> r.rest, p |-> r.p,
                 type |-> r.type, into |-> r.into]

Asks(r, verb, at, rest, p, into) ==
  r.verb = verb /\ r.at = at /\ r.rest = rest /\ r.p = p /\ r.into \in into

LEMMA DoIs ==
  ASSUME NEW verb, NEW at, NEW rest, NEW p, NEW into, NEW r \in Do(verb, at, rest, p, into)
  PROVE  Whole(r) /\ Asks(r, verb, at, rest, p, {into}) /\ r.type = "-"
BY DEF Do, Send, Whole, Asks

LEMMA LinkIs ==
  ASSUME NEW at, NEW rest, NEW p, NEW r \in Link(at, rest, p)
  PROVE  Whole(r) /\ Asks(r, "GET", at, rest, p, {"page", "main"}) /\ r.type = "-"
BY DEF Link, Send, Whole, Asks

LEMMA SwapIs ==
  ASSUME NEW at, NEW rest, NEW p, NEW r \in Swap(at, rest, p)
  PROVE  Whole(r) /\ Asks(r, "GET", at, rest, p, {"main"}) /\ r.type = "-"
BY DEF Swap, Send, Whole, Asks

LEMMA PlainIs ==
  ASSUME NEW at, NEW rest, NEW p, NEW r \in Plain(at, rest, p)
  PROVE  Whole(r) /\ Asks(r, "GET", at, rest, p, {"page"}) /\ r.type = "-"
BY DEF Plain, Send, Whole, Asks

LEMMA FormIs ==
  ASSUME NEW at, NEW rest, NEW p, NEW r \in Form(at, rest, p)
  PROVE  Whole(r) /\ Asks(r, "POST", at, rest, p, {"page"}) /\ r.type = "-"
BY DEF Form, Send, Whole, Asks

LEMMA OfTypeIs ==
  ASSUME NEW R, NEW slug, \A q \in R : Whole(q), NEW r \in OfType(R, slug)
  PROVE  \E q \in R : /\ r.verb = q.verb /\ r.at = q.at /\ r.rest = q.rest
                      /\ r.p = q.p /\ r.type = slug /\ r.into = q.into
<1>1. PICK q \in R : r = [q EXCEPT !.type = slug]
  BY DEF OfType
<1>2. q = [verb |-> q.verb, at |-> q.at, rest |-> q.rest, p |-> q.p,
           type |-> q.type, into |-> q.into]
  BY <1>1 DEF Whole
<1>3. r = [verb |-> q.verb, at |-> q.at, rest |-> q.rest, p |-> q.p,
           type |-> slug, into |-> q.into]
  BY <1>1, <1>2
<1> QED
  BY <1>3

-----------------------------------------------------------------------------
(* The routes, group by group, as the pages use them.                        *)
LEMMA InRoutes ==
  ASSUME NEW R, NEW at, NEW v, NEW rest, <<v, rest>> \in R
  PROVE  <<v, at, rest>> \in Routes(R, at)
<1>1. <<v, at, rest>> = <<(<<v, rest>>)[1], at, (<<v, rest>>)[2]>>
  OBVIOUS
<1> QED
  BY <1>1 DEF Routes

\* Each group: the requests named are registered.
LEMMA ProjectsRouted ==
  ASSUME NEW r, r.p = Nothing, r.at = "projects",
         \/ r.verb = "GET" /\ r.rest \in {"-", "/create"}
         \/ r.verb = "POST" /\ r.rest \in {"-"}
  PROVE  Routed(r)
<1> DEFINE R == {<<"GET", "-">>, <<"GET", "/create">>, <<"POST", "-">>,
                  <<"POST", "/deactivate">>}
<1>1. <<r.verb, r.rest>> \in R
  OBVIOUS
<1>2. <<r.verb, "projects", r.rest>> \in Routes(R, "projects")
  <2> HIDE DEF R
  <2> QED
    BY <1>1, InRoutes
<1> QED
  BY <1>2, PagesAssumption DEF Routed, ProjectRoutes

LEMMA ProjectRouted ==
  ASSUME NEW r, r.p \in Projects, r.at = "projects",
         \/ r.verb = "POST" /\ r.rest \in {"/activate", "/save", "/settings"}
         \/ r.verb = "GET" /\ r.rest \in {"/edit", "/settings", "-"}
         \/ r.verb = "DELETE" /\ r.rest \in {"-"}
  PROVE  Routed(r)
<1> DEFINE R == {<<"POST", "/activate">>, <<"GET", "/edit">>, <<"POST", "/save">>,
                  <<"DELETE", "-">>, <<"GET", "/settings">>, <<"GET", "-">>,
                  <<"POST", "/settings">>}
<1>1. <<r.verb, r.rest>> \in R
  OBVIOUS
<1>2. <<r.verb, "projects", r.rest>> \in Routes(R, "projects")
  <2> HIDE DEF R
  <2> QED
    BY <1>1, InRoutes
<1> QED
  BY <1>2, PagesAssumption DEF Routed, ProjectRoutes

LEMMA BOQRouted ==
  ASSUME NEW r, r.p \in Projects, r.at = "boq",
         \/ r.verb = "GET" /\ r.rest \in {"/create", "/id/edit", "/id/view",
              "/id/export/excel", "/id/export/pdf", "/id", "-"}
         \/ r.verb = "POST" /\ r.rest \in {"-", "/id/save", "/id/main-items",
              "/id/main-item/subitems", "/id/subitem/subsubitems"}
         \/ r.verb = "DELETE" /\ r.rest \in {"/id", "/id/main-item", "/id/subitem",
              "/id/subsubitem"}
  PROVE  Routed(r)
<1> DEFINE R == {<<"GET", "/create">>, <<"POST", "-">>, <<"GET", "/id/edit">>,
                  <<"GET", "/id/view">>, <<"POST", "/id/save">>, <<"DELETE", "/id">>,
                  <<"GET", "/id/export/excel">>, <<"GET", "/id/export/pdf">>,
                  <<"POST", "/id/main-items">>, <<"POST", "/id/main-item/subitems">>,
                  <<"POST", "/id/subitem/subsubitems">>, <<"DELETE", "/id/main-item">>,
                  <<"DELETE", "/id/subitem">>, <<"DELETE", "/id/subsubitem">>,
                  <<"GET", "/id/main-item/subitems">>, <<"PATCH", "/id/main-item">>,
                  <<"PATCH", "/id/subitem">>, <<"PATCH", "/id/subsubitem">>, <<"GET", "/id">>,
                  <<"GET", "-">>}
<1>1. <<r.verb, r.rest>> \in R
  OBVIOUS
<1>2. <<r.verb, "boq", r.rest>> \in Routes(R, "boq")
  <2> HIDE DEF R
  <2> QED
    BY <1>1, InRoutes
<1> QED
  BY <1>2, PagesAssumption DEF Routed, BOQRoutes

LEMMA VendorsRouted ==
  ASSUME NEW r, r.p = Nothing, r.at = "vendors",
         \/ r.verb = "GET" /\ r.rest \in {"-", "/create", "/id/edit"}
         \/ r.verb = "POST" /\ r.rest \in {"-", "/id/save"}
         \/ r.verb = "DELETE" /\ r.rest \in {"/id"}
  PROVE  Routed(r)
<1> DEFINE R == {<<"GET", "-">>, <<"GET", "/create">>, <<"POST", "-">>, <<"GET", "/id/edit">>,
                  <<"POST", "/id/save">>, <<"DELETE", "/id">>}
<1>1. <<r.verb, r.rest>> \in R
  OBVIOUS
<1>2. <<r.verb, "vendors", r.rest>> \in Routes(R, "vendors")
  <2> HIDE DEF R
  <2> QED
    BY <1>1, InRoutes
<1> QED
  BY <1>2, PagesAssumption DEF Routed, VendorRoutes

LEMMA ProjectVendorsRouted ==
  ASSUME NEW r, r.p \in Projects, r.at = "vendors",
         \/ r.verb = "GET" /\ r.rest \in {"-", "/create"}
         \/ r.verb = "POST" /\ r.rest \in {"-", "/id/link"}
         \/ r.verb = "DELETE" /\ r.rest \in {"/id/link"}
  PROVE  Routed(r)
<1> DEFINE R == {<<"GET", "-">>, <<"GET", "/create">>, <<"POST", "-">>,
                  <<"POST", "/id/link">>, <<"DELETE", "/id/link">>}
<1>1. <<r.verb, r.rest>> \in R
  OBVIOUS
<1>2. <<r.verb, "vendors", r.rest>> \in Routes(R, "vendors")
  <2> HIDE DEF R
  <2> QED
    BY <1>1, InRoutes
<1> QED
  BY <1>2, PagesAssumption DEF Routed, VendorRoutes

LEMMA PORouted ==
  ASSUME NEW r, r.p \in Projects, r.at = "po",
         \/ r.verb = "GET" /\ r.rest \in {"/create", "/id/edit", "/id/boq-picker", "-",
              "/id"}
         \/ r.verb = "POST" /\ r.rest \in {"-", "/id/save", "/id/line-items",
              "/id/line-items/from-boq"}
         \/ r.verb = "PATCH" /\ r.rest \in {"/id/line-items/item"}
         \/ r.verb = "DELETE" /\ r.rest \in {"/id/line-items/item", "/id"}
  PROVE  Routed(r)
<1> DEFINE R == {<<"GET", "/create">>, <<"POST", "-">>, <<"GET", "/id/edit">>,
                  <<"POST", "/id/save">>, <<"POST", "/id/line-items">>,
                  <<"POST", "/id/line-items/from-boq">>, <<"PATCH", "/id/line-items/item">>,
                  <<"DELETE", "/id/line-items/item">>, <<"GET", "/id/boq-picker">>,
                  <<"GET", "/id/export/pdf">>, <<"GET", "-">>, <<"GET", "/id">>,
                  <<"DELETE", "/id">>}
<1>1. <<r.verb, r.rest>> \in R
  OBVIOUS
<1>2. <<r.verb, "po", r.rest>> \in Routes(R, "po")
  <2> HIDE DEF R
  <2> QED
    BY <1>1, InRoutes
<1> QED
  BY <1>2, PagesAssumption DEF Routed, PORoutes

LEMMA TemplatesRouted ==
  ASSUME NEW r, r.p \in Projects, r.at = "dc-templates",
         \/ r.verb = "GET" /\ r.rest \in {"/", "/create", "/id/edit"}
         \/ r.verb = "POST" /\ r.rest \in {"/create", "/id/edit", "/id/duplicate"}
         \/ r.verb = "DELETE" /\ r.rest \in {"/id/delete"}
  PROVE  Routed(r)
<1> DEFINE R == {<<"GET", "/">>, <<"GET", "/create">>, <<"POST", "/create">>,
                  <<"GET", "/id/edit">>, <<"POST", "/id/edit">>, <<"DELETE", "/id/delete">>,
                  <<"POST", "/id/duplicate">>}
<1>1. <<r.verb, r.rest>> \in R
  OBVIOUS
<1>2. <<r.verb, "dc-templates", r.rest>> \in Routes(R, "dc-templates")
  <2> HIDE DEF R
  <2> QED
    BY <1>1, InRoutes
<1> QED
  BY <1>2, PagesAssumption DEF Routed, DCTemplateRoutes

LEMMA TransportersRouted ==
  ASSUME NEW r, r.p \in Projects, r.at = "transporters",
         \/ r.verb = "GET" /\ r.rest \in {"/", "/create", "/id", "/id/edit"}
         \/ r.verb = "POST" /\ r.rest \in {"/create", "/id/edit", "/id/toggle",
              "/id/vehicles"}
         \/ r.verb = "DELETE" /\ r.rest \in {"/id/vehicles/vid"}
  PROVE  Routed(r)
<1> DEFINE R == {<<"GET", "/">>, <<"GET", "/create">>, <<"POST", "/create">>,
                  <<"GET", "/id">>, <<"GET", "/id/edit">>, <<"POST", "/id/edit">>,
                  <<"POST", "/id/toggle">>, <<"POST", "/id/vehicles">>,
                  <<"DELETE", "/id/vehicles/vid">>}
<1>1. <<r.verb, r.rest>> \in R
  OBVIOUS
<1>2. <<r.verb, "transporters", r.rest>> \in Routes(R, "transporters")
  <2> HIDE DEF R
  <2> QED
    BY <1>1, InRoutes
<1> QED
  BY <1>2, PagesAssumption DEF Routed, TransporterRoutes

LEMMA SplitsRouted ==
  ASSUME NEW r, r.p \in Projects, r.at = "transfer-dcs",
         \/ r.verb = "GET" /\ r.rest \in {"/id/split"}
         \/ r.verb = "POST" /\ r.rest \in {"/id/split/step2", "/id/split/step3",
              "/id/split"}
  PROVE  Routed(r)
<1> DEFINE R == {<<"GET", "/id/split">>, <<"POST", "/id/split/step2">>,
                  <<"POST", "/id/split/step3">>, <<"POST", "/id/split">>,
                  <<"POST", "/id/splits/sid/undo">>}
<1>1. <<r.verb, r.rest>> \in R
  OBVIOUS
<1>2. <<r.verb, "transfer-dcs", r.rest>> \in Routes(R, "transfer-dcs")
  <2> HIDE DEF R
  <2> QED
    BY <1>1, InRoutes
<1> QED
  BY <1>2, PagesAssumption DEF Routed, SplitRoutes

LEMMA GroupsRouted ==
  ASSUME NEW r, r.p \in Projects, r.at = "shipment-groups",
         \/ r.verb = "GET" /\ r.rest \in {"/id"}
         \/ r.verb = "POST" /\ r.rest \in {"/id/issue"}
         \/ r.verb = "DELETE" /\ r.rest \in {"/id"}
  PROVE  Routed(r)
<1> DEFINE R == {<<"GET", "/id">>, <<"POST", "/id/issue">>, <<"DELETE", "/id">>}
<1>1. <<r.verb, r.rest>> \in R
  OBVIOUS
<1>2. <<r.verb, "shipment-groups", r.rest>> \in Routes(R, "shipment-groups")
  <2> HIDE DEF R
  <2> QED
    BY <1>1, InRoutes
<1> QED
  BY <1>2, PagesAssumption DEF Routed, GroupRoutes

LEMMA DCsRouted ==
  ASSUME NEW r, r.p \in Projects, r.at = "dcs",
         \/ r.verb = "GET" /\ r.rest \in {"/create", "/", "/id", "/id/edit",
              "/id/export/pdf", "/id/export/excel", "/id/print"}
         \/ r.verb = "POST" /\ r.rest \in {"/create/step2", "/create/back-to-step1",
              "/create/step3", "/create/back-to-step2", "/create/step4",
              "/create/back-to-step3", "/create", "/id/issue"}
         \/ r.verb = "DELETE" /\ r.rest \in {"/id"}
  PROVE  Routed(r)
<1> DEFINE R == {<<"GET", "/create">>, <<"POST", "/create/step2">>,
                  <<"POST", "/create/back-to-step1">>, <<"POST", "/create/step3">>,
                  <<"POST", "/create/back-to-step2">>, <<"POST", "/create/step4">>,
                  <<"POST", "/create/back-to-step3">>, <<"POST", "/create">>, <<"GET", "/">>,
                  <<"GET", "/id">>, <<"GET", "/id/edit">>, <<"POST", "/id/issue">>,
                  <<"DELETE", "/id">>, <<"GET", "/id/export/pdf">>,
                  <<"GET", "/id/export/excel">>, <<"GET", "/id/print">>}
<1>1. <<r.verb, r.rest>> \in R
  OBVIOUS
<1>2. <<r.verb, "dcs", r.rest>> \in Routes(R, "dcs")
  <2> HIDE DEF R
  <2> QED
    BY <1>1, InRoutes
<1> QED
  BY <1>2, PagesAssumption DEF Routed, DCRoutes

LEMMA TypedRouted ==
  ASSUME NEW r, r.p \in Projects, r.type \in RegisteredSlugs, r.at = "addresses",
         \/ r.verb = "GET" /\ r.rest \in {"-", "/new", "/id/edit"}
         \/ r.verb = "POST" /\ r.rest \in {"/new", "/id/edit"}
  PROVE  Routed(r)
<1> DEFINE R == {<<"GET", "-">>, <<"GET", "/count">>, <<"GET", "/new">>,
                  <<"POST", "/new">>, <<"GET", "/id/edit">>, <<"POST", "/id/edit">>}
<1>1. <<r.verb, r.rest>> \in R
  OBVIOUS
<1>2. <<r.verb, "addresses", r.rest>> \in Routes(R, "addresses")
  <2> HIDE DEF R
  <2> QED
    BY <1>1, InRoutes
<1> QED
  BY <1>2, PagesAssumption DEF Routed, TypedAddressRoutes

LEMMA AddressesRouted ==
  ASSUME NEW r, r.p \in Projects, r.at = "addresses",
         \/ r.verb = "GET" /\ r.rest \in {"/template", "/import", "/export", "/id/delete-info"}
         \/ r.verb = "POST" /\ r.rest \in {"/import", "/import/commit", "/import/errors"}
         \/ r.verb = "DELETE" /\ r.rest \in {"/bulk", "/id"}
  PROVE  Routed(r)
<1> DEFINE R == {<<"GET", "/template">>, <<"GET", "/import">>, <<"POST", "/import">>,
                  <<"POST", "/import/commit">>, <<"POST", "/import/errors">>,
                  <<"GET", "/export">>, <<"DELETE", "/bulk">>, <<"GET", "/id/delete-info">>,
                  <<"DELETE", "/id">>}
<1>1. <<r.verb, r.rest>> \in R
  OBVIOUS
<1>2. <<r.verb, "addresses", r.rest>> \in Routes(R, "addresses")
  <2> HIDE DEF R
  <2> QED
    BY <1>1, InRoutes
<1> QED
  BY <1>2, PagesAssumption DEF Routed, AnyAddressRoutes

LEMMA SettingsRouted ==
  ASSUME NEW r, r.p = Nothing, r.at = "settings",
         \/ r.verb = "GET" /\ r.rest \in {"-"}
         \/ r.verb = "POST" /\ r.rest \in {"-"}
  PROVE  Routed(r)
<1> DEFINE R == {<<"GET", "-">>, <<"POST", "-">>}
<1>1. <<r.verb, r.rest>> \in R
  OBVIOUS
<1>2. <<r.verb, "settings", r.rest>> \in Routes(R, "settings")
  <2> HIDE DEF R
  <2> QED
    BY <1>1, InRoutes
<1> QED
  BY <1>2, PagesAssumption DEF Routed, RootRoutes

LEMMA HomeRouted ==
  ASSUME NEW r, r.p = Nothing, r.at = "home",
         \/ r.verb = "GET" /\ r.rest \in {"-"}
  PROVE  Routed(r)
<1> DEFINE R == {<<"GET", "-">>}
<1>1. <<r.verb, r.rest>> \in R
  OBVIOUS
<1>2. <<r.verb, "home", r.rest>> \in Routes(R, "home")
  <2> HIDE DEF R
  <2> QED
    BY <1>1, InRoutes
<1> QED
  BY <1>2, PagesAssumption DEF Routed, RootRoutes

LEMMA BillsRouted ==
  ASSUME NEW r, r.p = Nothing, r.at = "boq",
         \/ r.verb = "GET" /\ r.rest \in {"-", "/id"}
  PROVE  Routed(r)
<1> DEFINE R == {<<"GET", "-">>, <<"GET", "/id">>}
<1>1. <<r.verb, r.rest>> \in R
  OBVIOUS
<1>2. <<r.verb, "boq", r.rest>> \in Routes(R, "boq")
  <2> HIDE DEF R
  <2> QED
    BY <1>1, InRoutes
<1> QED
  BY <1>2, PagesAssumption DEF Routed, RootRoutes

-----------------------------------------------------------------------------
(* The slugs of the address types.                                           *)
LEMMA Slugs ==
  ASSUME NEW t \in AllTypes
  PROVE  /\ addressTypeToSlug[t] \in RegisteredSlugs /\ addressTypeToSlug[t] \notin AllTypes
         /\ TypeOfSlug(addressTypeToSlug[t]) = t
         /\ addressTypeSlug[t] \in {addressTypeToSlug[t], "dispatch-from"}
         /\ t \notin RegisteredSlugs
<1>1. \A u \in AllTypes : addressTypeToSlug[u] = addressTypeToSlug[t] => u = t
  BY DEF AllTypes, addressTypeToSlug
<1>2. TypeOfSlug(addressTypeToSlug[t]) \in AllTypes
      /\ addressTypeToSlug[TypeOfSlug(addressTypeToSlug[t])] = addressTypeToSlug[t]
  BY DEF TypeOfSlug
<1>3. addressTypeToSlug[t] \in RegisteredSlugs
  BY DEF RegisteredSlugs
<1>4. addressTypeToSlug[t] \notin AllTypes
  BY DEF AllTypes, addressTypeToSlug
<1>5. addressTypeSlug[t] \in {addressTypeToSlug[t], "dispatch-from"}
  BY DEF AllTypes, addressTypeToSlug, addressTypeSlug
<1>6. \A u \in AllTypes : addressTypeToSlug[u] \notin AllTypes
  BY DEF AllTypes, addressTypeToSlug
<1> QED
  BY <1>1, <1>2, <1>3, <1>4, <1>5, <1>6 DEF RegisteredSlugs

LEMMA Dispatch == "dispatch-from" \notin RegisteredSlugs \cup AllTypes
BY DEF RegisteredSlugs, AllTypes, addressTypeToSlug

-----------------------------------------------------------------------------
(* What each page offers.                                                    *)
USE DEF IdRests, LineRests, RowRests, DeepRests, SplitRests, RootAts, Switches

\* The header and the sidebar offer what they may on any page.
LEMMA ShellOffers ==
  ASSUME NEW s \in Projects \cup {Nothing}, NEW page, NEW p, NEW d, NEW r \in Shell(s)
  PROVE  OfferOK(r, page, p, s, d)
<1>1. CASE r \in TopHeaderWithProject
  <2>1. /\ r.type = "-"
        /\ \/ Asks(r, "GET", "projects", "-", Nothing, {"main"})
           \/ \E q \in Projects : Asks(r, "POST", "projects", "/activate", q, {"body"})
    <3>1. CASE r \in Swap("projects", "-", Nothing)
      BY <3>1, SwapIs
    <3>2. CASE \E q \in Projects : r \in Do("POST", "projects", "/activate", q, "body")
      BY <3>2, DoIs
    <3> QED
      BY <1>1, <3>1, <3>2 DEF TopHeaderWithProject
  <2>3. Routed(r)
    BY <2>1, ProjectsRouted, ProjectRouted DEF Asks
  <2> QED
    BY <2>1, <2>3 DEF Asks, OfferOK, Plausible, Fits, Belongs, Warranted, Wholes, Asides
<1>2. CASE r \in SidebarWithProject(s) /\ s = Nothing
  <2>1. \E at \in {"home", "vendors", "settings", "projects"} :
          Asks(r, "GET", at, "-", Nothing, {"page", "main"}) /\ r.type = "-"
    BY <1>2, LinkIs DEF SidebarWithProject, SidebarProjectsLink
  <2>2. Routed(r)
    BY <2>1, HomeRouted, VendorsRouted, SettingsRouted, ProjectsRouted DEF Asks
  <2> QED
    BY <2>1, <2>2 DEF Asks, OfferOK, Plausible, Fits, Belongs, Warranted, Wholes, Asides
<1>3. CASE r \in SidebarAddressSubLinks(s) /\ s # Nothing
  <2>1. PICK t \in AddressTypes : r \in OfType(Link("addresses", "-", s), addressTypeToSlug[t])
    BY <1>3 DEF SidebarAddressSubLinks
  <2>2. t \in AllTypes
    BY PagesAssumption
  <2>3. Asks(r, "GET", "addresses", "-", s, {"page", "main"}) /\ r.type = addressTypeToSlug[t]
    BY <2>1, OfTypeIs, LinkIs DEF Asks
  <2>4. Routed(r) /\ TypeOfSlug(r.type) = t /\ s \in Projects
    BY <1>3, <2>2, <2>3, Slugs, TypedRouted DEF Asks
  <2> QED
    BY <1>3, <2>1, <2>3, <2>4 DEF Asks, OfferOK, Plausible, Fits, Belongs, Warranted, Wholes, Asides
<1>4. CASE r \in SidebarWithProject(s) /\ r \notin SidebarAddressSubLinks(s) /\ s # Nothing
  <2>1. \/ \E at \in {"home", "vendors", "settings"} :
             Asks(r, "GET", at, "-", Nothing, {"page", "main"}) /\ r.type = "-"
        \/ \E at \in {"projects", "boq", "po", "vendors"} :
             Asks(r, "GET", at, "-", s, {"page", "main"}) /\ r.type = "-"
        \/ \E at \in {"dc-templates", "transporters", "dcs"} :
             Asks(r, "GET", at, "/", s, {"page", "main"}) /\ r.type = "-"
    BY <1>4, LinkIs DEF SidebarWithProject, SidebarProjectSection
  <2>2. Routed(r)
    BY <1>4, <2>1, HomeRouted, VendorsRouted, SettingsRouted, ProjectRouted, BOQRouted,
       PORouted, TemplatesRouted, TransportersRouted, DCsRouted, ProjectVendorsRouted DEF Asks
  <2> QED
    BY <1>4, <2>1, <2>2 DEF Asks, OfferOK, Plausible, Fits, Belongs, Warranted, Wholes, Asides
<1> QED
  BY <1>1, <1>2, <1>3, <1>4 DEF Shell

\* A page that shows a document is about Home.
LEMMA OfProject ==
  ASSUME NEW page \in ProjectPages, NEW p, NEW type, NEW d, PageOK(page, p, type, d)
  PROVE  /\ p \in Projects /\ p # Nothing /\ d \in Documents
         /\ d # Unborn => p = Home /\ d.kind \in Shows(page)
BY PagesAssumption DEF PageOK, ProjectPages, OpenPages, RootPages

\* The pages about no project.
LEMMA RootOffers ==
  ASSUME NEW page \in {"projects", "new project", "settings"}, NEW p, NEW type, NEW s, NEW d,
         NEW r \in Body(page, p, type, d)
  PROVE  OfferOK(r, page, p, s, d)
<1>1. /\ r.type = "-"
      /\ \/ Asks(r, "GET", "projects", "/create", Nothing, {"page", "main"})
         \/ \E q \in Projects : Asks(r, "GET", "projects", "-", q, {"main"})
         \/ Asks(r, "GET", "projects", "-", Nothing, {"page", "main"})
         \/ Asks(r, "POST", "projects", "-", Nothing, {"page"})
         \/ Asks(r, "POST", "settings", "-", Nothing, {"main"})
  <2>1. CASE page = "projects" /\ r \in Link("projects", "/create", Nothing)
    BY <2>1, LinkIs
  <2>2. CASE page = "projects" /\ r \notin Link("projects", "/create", Nothing)
    <3>1. PICK q \in Projects : r \in Swap("projects", "-", q)
      BY <2>2 DEF Body, ProjectListContent
    <3> QED
      BY <3>1, SwapIs
  <2>3. CASE page = "new project"
    BY <2>3, LinkIs, FormIs DEF Body, ProjectCreateContent
  <2>4. CASE page = "settings"
    BY <2>4, DoIs DEF Body, AppSettingsContent
  <2> QED
    BY <2>1, <2>2, <2>3, <2>4
<1>2. Routed(r)
  BY <1>1, ProjectsRouted, ProjectRouted, SettingsRouted DEF Asks
<1> QED
  BY <1>1, <1>2, PagesAssumption
     DEF Asks, OfferOK, Plausible, Fits, Belongs, Warranted, Wholes, Asides

\* The pages of a project's own data.
LEMMA ProjectOffers ==
  ASSUME NEW page \in {"project", "edit project", "project settings"},
         NEW p \in Projects, NEW type, NEW s, NEW d, NEW r \in Body(page, p, type, d)
  PROVE  OfferOK(r, page, p, s, d)
<1>1. /\ r.type = "-"
      /\ \/ Asks(r, "GET", "projects", "-", Nothing, {"page", "main"})
         \/ \E rest \in {"/edit", "/settings"} : Asks(r, "GET", "projects", rest, p, {"main"})
         \/ Asks(r, "DELETE", "projects", "-", p, {"main"})
         \/ \E rest \in {"/save", "/settings"} : Asks(r, "POST", "projects", rest, p, {"page"})
  BY LinkIs, SwapIs, DoIs, FormIs DEF Body, ProjectViewContent, ProjectEditContent,
     ProjectSettingsContent, ProjectSettingsForm
<1>2. Routed(r)
  BY <1>1, ProjectsRouted, ProjectRouted DEF Asks
<1> QED
  BY <1>1, <1>2, PagesAssumption
     DEF Asks, OfferOK, Plausible, Fits, Belongs, Warranted, Wholes, Asides

\* A document that has a kind exists.
LEMMA Born == ASSUME NEW d, d.kind # "none" PROVE d # Unborn
BY DEF Unborn, Doc

\* A BOQ's editor offers what its rows allow.
LEMMA BOQOffers ==
  ASSUME NEW page \in {"boqs", "new boq", "boq", "edit boq"},
         NEW p, NEW type, NEW s, NEW d, PageOK(page, p, type, d), NEW r \in Body(page, p, type, d)
  PROVE  OfferOK(r, page, p, s, d)
<1>1. p \in Projects /\ p # Nothing /\ (d # Unborn => p = Home /\ d.kind = "boq")
  <2>1. p \in Projects /\ (d # Unborn => p = Home /\ d.kind \in Shows(page))
    BY PagesAssumption DEF PageOK, ProjectPages, OpenPages, RootPages
  <2> QED
    BY <2>1, PagesAssumption DEF Shows
<1>2. page \in {"boq", "edit boq"} => d # Unborn
  BY DEF PageOK, DocPages
<1>3. d.kind = "boq" => d # Unborn
  BY Born
<1>4. /\ r.type = "-"
      /\ \/ \E rest \in {"-", "/create"} : Asks(r, "GET", "boq", rest, p, {"page"})
         \/ Asks(r, "GET", "boq", "-", p, {"main"})
         \/ Asks(r, "POST", "boq", "-", p, {"page"})
         \/ /\ d.kind = "boq"
            /\ \/ \E rest \in {"/id", "/id/view", "/id/edit"} : Asks(r, "GET", "boq", rest, p, {"main"})
               \/ \E rest \in {"/id/export", "/id/export/pdf", "/id/export/excel"} :
                    Asks(r, "GET", "boq", rest, p, {"page"})
               \/ Asks(r, "DELETE", "boq", "/id", p, {"body"})
               \/ \E rest \in {"/id/save", "/id/main-items"} : Asks(r, "POST", "boq", rest, p, {"main"})
               \/ d.rows > 0 /\ \/ Asks(r, "DELETE", "boq", "/id/main-item", p, {"main"})
                                \/ Asks(r, "POST", "boq", "/id/main-item/subitems", p, {"main"})
               \/ d.rows = 2 /\ \/ Asks(r, "DELETE", "boq", "/id/subitem", p, {"main"})
                                \/ Asks(r, "POST", "boq", "/id/subitem/subsubitems", p, {"main"})
                                \/ Asks(r, "DELETE", "boq", "/id/subsubitem", p, {"main"})
  <2>1. CASE page = "boqs"
    BY <2>1, PlainIs, SwapIs DEF Body, BOQListContent, BOQListRow
  <2>2. CASE page = "new boq"
    BY <2>2, PlainIs, FormIs DEF Body, BOQCreatePage, BOQCreateForm
  <2>3. CASE page = "boq"
    BY <1>1, <1>2, <2>3, PlainIs, SwapIs, DoIs DEF Body, BOQViewContent, BOQViewExports
  <2>4. CASE page = "edit boq"
    <3>1. d.kind = "boq"
      BY <1>1, <1>2, <2>4
    <3>2. r \in BOQEditContent(p, d)
      BY <2>4 DEF Body
    <3>3. CASE r \in MainItemRowEdit(p) /\ d.rows > 0
      BY <3>1, <3>3, DoIs, ZenonT(40) DEF MainItemRowEdit
    <3>4. CASE r \in EditSubItemsBlock(p, d)
      <4>1. d.rows = 2 /\ r \in SubItemRowEdit(p) \cup SubSubItemRowEdit(p)
        BY <3>4 DEF EditSubItemsBlock
      <4>2. CASE r \in SubItemRowEdit(p)
        BY <3>1, <4>1, <4>2, DoIs, ZenonT(40) DEF SubItemRowEdit
      <4>3. CASE r \in SubSubItemRowEdit(p)
        BY <3>1, <4>1, <4>3, DoIs, ZenonT(40) DEF SubSubItemRowEdit
      <4> QED
        BY <4>1, <4>2, <4>3
    <3>5. CASE r \in Swap("boq", "-", p) \cup Swap("boq", "/id/view", p)
      BY <3>1, <3>5, SwapIs
    <3>6. CASE r \in BOQEditForm(p) \cup Do("POST", "boq", "/id/main-items", p, "main")
      BY <3>1, <3>6, DoIs, ZenonT(40) DEF BOQEditForm
    <3> QED
      BY <3>2, <3>3, <3>4, <3>5, <3>6 DEF BOQEditContent
  <2> QED
    BY <2>1, <2>2, <2>3, <2>4
<1>5. Routed(r) \/ Dead(r, page)
  BY <1>1, <1>4, BOQRouted DEF Asks, Dead
<1> QED
  BY <1>1, <1>3, <1>4, <1>5
     DEF Asks, OfferOK, Plausible, Fits, Belongs, Warranted, Wholes, Asides, KindsAt

LEMMA OneRow ==
  ASSUME NEW d \in Documents, d.kind \in {"order", "transporter"}, d.rows > 0 \/ d.rows # 0
  PROVE  d.rows = 1
<1>1. d.rows = 0 \/ d.rows = 1
  BY DEF Documents, Doc, Unborn, Gone
<1> QED
  BY <1>1

\* Orders: edit and delete follow the status shown.
LEMMA OrderOffers ==
  ASSUME NEW page \in {"orders", "new order", "order"},
         NEW p, NEW type, NEW s, NEW d, PageOK(page, p, type, d), NEW r \in Body(page, p, type, d)
  PROVE  OfferOK(r, page, p, s, d)
<1>1. p \in Projects /\ p # Nothing /\ (d # Unborn => p = Home /\ d.kind = "order")
  <2>1. p \in Projects /\ (d # Unborn => p = Home /\ d.kind \in Shows(page))
    BY PagesAssumption DEF PageOK, ProjectPages, OpenPages, RootPages
  <2> QED
    BY <2>1, PagesAssumption DEF Shows, Challans
<1>2. page \in {"order"} => d # Unborn
  BY DEF PageOK, DocPages, SplitPages
<1>3. d.kind = "order" => d # Unborn
  BY Born
<1>4. /\ r.type = "-"
      /\ \/ \E at \in {"projects", "vendors", "po"} : Asks(r, "GET", at, "-", p, {"page", "main"})
         \/ Asks(r, "GET", "po", "/create", p, {"page", "main"})
         \/ Asks(r, "POST", "po", "-", p, {"page"})
         \/ /\ d.kind = "order"
            /\ \/ Asks(r, "GET", "po", "/id", p, {"page", "main"})
               \/ d.st = "draft" /\ Asks(r, "GET", "po", "/id/edit", p, {"page", "main"})
               \/ d.st \in {"draft", "cancelled"} /\ Asks(r, "DELETE", "po", "/id", p, {"main"})
  <2>1. CASE page = "orders"
    <3>1. r \in POListContent(p, d)
      BY <2>1 DEF Body
    <3>2. CASE d.kind = "order" /\ r \in POListRow(p, d)
      BY <3>2, LinkIs, DoIs DEF POListRow
    <3>3. CASE r \in POListTabs(p)
      <4>1. Asks(r, "GET", "po", "-", p, {"main"}) /\ r.type = "-"
        BY <3>3, SwapIs DEF POListTabs
      <4> QED
        BY <4>1 DEF Asks
    <3>4. CASE r \in Link("projects", "-", p) \cup Link("po", "/create", p)
      BY <3>4, LinkIs
    <3> QED
      BY <3>1, <3>2, <3>3, <3>4 DEF POListContent
  <2>2. CASE page = "new order"
    BY <2>2, LinkIs, FormIs DEF Body, POCreateContent, POCreateForm
  <2>3. CASE page = "order"
    <3>1. d.kind = "order" /\ r \in POViewContent(p, d)
      BY <1>1, <1>2, <2>3 DEF Body
    <3>2. /\ r.type = "-"
          /\ \/ \E at \in {"projects", "po"} : Asks(r, "GET", at, "-", p, {"main"})
             \/ d.st = "draft" /\ Asks(r, "GET", "po", "/id/edit", p, {"main"})
      BY <3>1, SwapIs DEF POViewContent
    <3> QED
      BY <3>1, <3>2 DEF Asks
  <2> QED
    BY <2>1, <2>2, <2>3
<1>5. Routed(r)
  BY <1>1, <1>4, ProjectRouted, PORouted, ProjectVendorsRouted DEF Asks
<1> QED
  BY <1>1, <1>3, <1>4, <1>5, PagesAssumption
     DEF Asks, OfferOK, Plausible, Fits, Belongs, Warranted, Wholes, Asides, KindsAt

\* The editor of an order: its lines, its picker.
LEMMA OrderEditorOffers ==
  ASSUME NEW page \in {"edit order"},
         NEW p, NEW type, NEW s, NEW d, PageOK(page, p, type, d), NEW r \in Body(page, p, type, d)
  PROVE  OfferOK(r, page, p, s, d)
<1>1. p \in Projects /\ p # Nothing /\ (d # Unborn => p = Home /\ d.kind = "order")
  <2>1. p \in Projects /\ (d # Unborn => p = Home /\ d.kind \in Shows(page))
    BY PagesAssumption DEF PageOK, ProjectPages, OpenPages, RootPages
  <2> QED
    BY <2>1, PagesAssumption DEF Shows, Challans
<1>2. page \in {"edit order"} => d # Unborn
  BY DEF PageOK, DocPages, SplitPages
<1>3. d.kind = "order" => d # Unborn
  BY Born
<1>4. /\ r.type = "-" /\ d.kind = "order"
      /\ \/ \E at \in {"projects", "po"} : Asks(r, "GET", at, "-", p, {"main"})
         \/ Asks(r, "POST", "po", "/id/save", p, {"page"})
         \/ Asks(r, "POST", "po", "/id/line-items", p, {"lines"})
         \/ Asks(r, "GET", "po", "/id/boq-picker", p, {"picker"})
         \/ Asks(r, "POST", "po", "/id/line-items/from-boq", p, {"lines"})
         \/ /\ d.rows > 0
            /\ \E verb \in {"PATCH", "DELETE"} :
                 Asks(r, verb, "po", "/id/line-items/item", p, {"lines"})
  <2>1. d.kind = "order" /\ r \in POEditContent(p, d)
    BY <1>1, <1>2 DEF Body
  <2>2. CASE r \in POEditForm(p)
    BY <2>1, <2>2, FormIs DEF POEditForm
  <2>3. CASE r \in POLineItemsSection(p, d)
    BY <2>1, <2>3, DoIs DEF POLineItemsSection, POLineRow
  <2>4. CASE r \in POEditPicker(p)
    BY <2>1, <2>4, DoIs DEF POEditPicker, BOQPickerContent, boqPickerRow
  <2>5. CASE r \in Swap("projects", "-", p) \cup Swap("po", "-", p)
    BY <2>1, <2>5, SwapIs
  <2> QED
    BY <2>1, <2>2, <2>3, <2>4, <2>5 DEF POEditContent
<1>5. Routed(r)
  BY <1>1, <1>4, ProjectRouted, PORouted DEF Asks
<1>6. d.kind = "order" /\ (d.rows > 0 \/ d.rows # 0) => d.rows = 1
  <2>1. d \in Documents
    BY DEF PageOK
  <2> QED
    BY <2>1, OneRow
<1> QED
  BY <1>1, <1>3, <1>4, <1>5, PagesAssumption, <1>6
     DEF Asks, OfferOK, Plausible, Fits, Belongs, Warranted, Wholes, Asides, KindsAt

LEMMA TransporterOffers ==
  ASSUME NEW page \in {"transporters", "new transporter", "edit transporter", "transporter"},
         NEW p, NEW type, NEW s, NEW d, PageOK(page, p, type, d), NEW r \in Body(page, p, type, d)
  PROVE  OfferOK(r, page, p, s, d)
<1>1. p \in Projects /\ p # Nothing /\ (d # Unborn => p = Home /\ d.kind = "transporter")
  <2>1. p \in Projects /\ (d # Unborn => p = Home /\ d.kind \in Shows(page))
    BY PagesAssumption DEF PageOK, ProjectPages, OpenPages, RootPages
  <2> QED
    BY <2>1, PagesAssumption DEF Shows, Challans
<1>2. page \in {"edit transporter", "transporter"} => d # Unborn
  BY DEF PageOK, DocPages, SplitPages
<1>3. d.kind = "transporter" => d # Unborn
  BY Born
<1>4. /\ r.type = "-"
      /\ \/ Asks(r, "GET", "projects", "-", p, {"page", "main"})
         \/ \E rest \in {"/", "/create"} : Asks(r, "GET", "transporters", rest, p, {"page", "main"})
         \/ Asks(r, "POST", "transporters", "/create", p, {"page"})
         \/ /\ d.kind = "transporter"
            /\ \/ \E rest \in {"/id", "/id/edit"} : Asks(r, "GET", "transporters", rest, p, {"page", "main"})
               \/ \E rest \in {"/id/edit", "/id/vehicles"} : Asks(r, "POST", "transporters", rest, p, {"page"})
               \/ Asks(r, "POST", "transporters", "/id/toggle", p, {"self"})
               \/ d.rows # 0 /\ Asks(r, "DELETE", "transporters", "/id/vehicles/vid", p, {"self"})
  <2>1. CASE page = "transporters"
    BY <2>1, LinkIs DEF Body, TransporterListContent
  <2>2. CASE page = "new transporter"
    BY <2>2, LinkIs, FormIs DEF Body, TransporterFormContent
  <2>3. CASE page = "edit transporter"
    BY <1>1, <1>2, <2>3, LinkIs, FormIs DEF Body, TransporterFormContent
  <2>4. CASE page = "transporter"
    <3>1. d.kind = "transporter" /\ r \in TransporterDetailContent(p, d)
      BY <1>1, <1>2, <2>4 DEF Body
    <3>2. CASE r \in TransporterVehicles(p, d)
      BY <3>1, <3>2, DoIs, FormIs DEF TransporterVehicles
    <3>3. CASE r \in Do("POST", "transporters", "/id/toggle", p, "self")
      BY <3>1, <3>3, DoIs
    <3>4. CASE r \in Link("projects", "-", p) \cup Link("transporters", "/", p)
                     \cup Link("transporters", "/id/edit", p)
      BY <3>1, <3>4, LinkIs
    <3> QED
      BY <3>1, <3>2, <3>3, <3>4 DEF TransporterDetailContent
  <2> QED
    BY <2>1, <2>2, <2>3, <2>4
<1>5. Routed(r)
  BY <1>1, <1>4, ProjectRouted, TransportersRouted DEF Asks
<1>6. d.kind = "transporter" /\ (d.rows > 0 \/ d.rows # 0) => d.rows = 1
  <2>1. d \in Documents
    BY DEF PageOK
  <2> QED
    BY <2>1, OneRow
<1> QED
  BY <1>1, <1>3, <1>4, <1>5, PagesAssumption, <1>6
     DEF Asks, OfferOK, Plausible, Fits, Belongs, Warranted, Wholes, Asides, KindsAt

LEMMA TemplateOffers ==
  ASSUME NEW page \in {"templates", "new template", "edit template"},
         NEW p, NEW type, NEW s, NEW d, PageOK(page, p, type, d), NEW r \in Body(page, p, type, d)
  PROVE  OfferOK(r, page, p, s, d)
<1>1. p \in Projects /\ p # Nothing /\ (d # Unborn => p = Home /\ d.kind = "template")
  <2>1. p \in Projects /\ (d # Unborn => p = Home /\ d.kind \in Shows(page))
    BY PagesAssumption DEF PageOK, ProjectPages, OpenPages, RootPages
  <2> QED
    BY <2>1, PagesAssumption DEF Shows, Challans
<1>2. page \in {"edit template"} => d # Unborn
  BY DEF PageOK, DocPages, SplitPages
<1>3. d.kind = "template" => d # Unborn
  BY Born
<1>4. /\ r.type = "-"
      /\ \/ Asks(r, "GET", "projects", "-", p, {"page", "main"})
         \/ \E rest \in {"/", "/create"} : Asks(r, "GET", "dc-templates", rest, p, {"page", "main"})
         \/ Asks(r, "POST", "dc-templates", "/create", p, {"page"})
         \/ /\ d.kind = "template"
            /\ \/ Asks(r, "GET", "dc-templates", "/id/edit", p, {"page", "main"})
               \/ Asks(r, "POST", "dc-templates", "/id/edit", p, {"page"})
               \/ Asks(r, "POST", "dc-templates", "/id/duplicate", p, {"self"})
               \/ Asks(r, "DELETE", "dc-templates", "/id/delete", p, {"self"})
  <2>1. CASE page = "templates"
    <3>1. r \in DCTemplateListContent(p, d)
      BY <2>1 DEF Body
    <3>2. CASE d.kind = "template" /\ r \in DCTemplateListRow(p)
      BY <3>2, LinkIs, DoIs DEF DCTemplateListRow
    <3>3. CASE r \in Link("projects", "-", p) \cup Link("dc-templates", "/create", p)
      BY <3>3, LinkIs
    <3> QED
      BY <3>1, <3>2, <3>3 DEF DCTemplateListContent
  <2>2. CASE page = "new template"
    BY <2>2, LinkIs, FormIs DEF Body, DCTemplateFormContent
  <2>3. CASE page = "edit template"
    BY <1>1, <1>2, <2>3, LinkIs, FormIs DEF Body, DCTemplateFormContent
  <2> QED
    BY <2>1, <2>2, <2>3
<1>5. Routed(r)
  BY <1>1, <1>4, ProjectRouted, TemplatesRouted DEF Asks
<1> QED
  BY <1>1, <1>3, <1>4, <1>5, PagesAssumption
     DEF Asks, OfferOK, Plausible, Fits, Belongs, Warranted, Wholes, Asides, KindsAt

LEMMA WizardOffers ==
  ASSUME NEW page \in {"wizard 1", "wizard 2", "wizard 3", "wizard 4"},
         NEW p, NEW type, NEW s, NEW d, PageOK(page, p, type, d), NEW r \in Body(page, p, type, d)
  PROVE  OfferOK(r, page, p, s, d)
<1>1. p \in Projects /\ p # Nothing
  BY PagesAssumption DEF PageOK, ProjectPages, OpenPages, RootPages
<1>4. /\ r.type = "-"
      /\ \/ Asks(r, "GET", "projects", "-", p, {"page", "main"})
         \/ Asks(r, "GET", "dcs", "/", p, {"page", "main"})
         \/ Asks(r, "GET", "dc-templates", "/create", p, {"page", "main"})
         \/ \E rest \in {"/create/step2", "/create/step3", "/create/step4", "/create",
                         "/create/back-to-step1", "/create/back-to-step2", "/create/back-to-step3"} :
              Asks(r, "POST", "dcs", rest, p, {"main"})
  <2>1. CASE r \in WizardCrumbs(p) \cup Link("dc-templates", "/create", p)
    BY <2>1, LinkIs DEF WizardCrumbs
  <2>2. CASE \E to \in {"/create/step2", "/create/step3", "/create/step4", "/create",
                   "/create/back-to-step1", "/create/back-to-step2", "/create/back-to-step3"} :
               r \in WizardPost(p, to)
    BY <2>2, DoIs, ZenonT(40) DEF WizardPost
  <2> QED
    BY <2>1, <2>2 DEF Body, DCWizardStep1Content, DCWizardStep2Content, DCWizardStep3Content,
       DCWizardStep4Content
<1>5. Routed(r)
  BY <1>1, <1>4, ProjectRouted, TemplatesRouted, DCsRouted DEF Asks
<1> QED
  BY <1>1, <1>4, <1>5, PagesAssumption
     DEF Asks, OfferOK, Plausible, Fits, Belongs, Warranted, Wholes, Asides, KindsAt

\* A challan offers to be split only when it is a transfer that was issued.
LEMMA ChallanOffers ==
  ASSUME NEW page \in {"challans", "challan"},
         NEW p, NEW type, NEW s, NEW d, PageOK(page, p, type, d), NEW r \in Body(page, p, type, d)
  PROVE  OfferOK(r, page, p, s, d)
<1>1. p \in Projects /\ p # Nothing /\ (d # Unborn => p = Home /\ d.kind \in Challans)
  <2>1. p \in Projects /\ (d # Unborn => p = Home /\ d.kind \in Shows(page))
    BY PagesAssumption DEF PageOK, ProjectPages, OpenPages, RootPages
  <2> QED
    BY <2>1, PagesAssumption DEF Shows, Challans
<1>2. page \in {"challan"} => d # Unborn
  BY DEF PageOK, DocPages, SplitPages
<1>3. d.kind \in Challans => d # Unborn
  BY Born DEF Challans
<1>4. /\ r.type = "-"
      /\ \/ Asks(r, "GET", "projects", "-", p, {"page", "main"})
         \/ \E rest \in {"/", "/create"} : Asks(r, "GET", "dcs", rest, p, {"page", "main"})
         \/ /\ d.kind \in Challans
            /\ \/ Asks(r, "GET", "dcs", "/id", p, {"main"})
               \/ /\ d.st = "draft"
                  /\ \/ Asks(r, "GET", "dcs", "/id/edit", p, {"main"})
                     \/ Asks(r, "POST", "dcs", "/id/issue", p, {"main"})
                     \/ Asks(r, "DELETE", "dcs", "/id", p, {"main"})
               \/ \E rest \in {"/id/export/pdf", "/id/export/excel"} : Asks(r, "GET", "dcs", rest, p, {"page"})
               \/ Asks(r, "GET", "dcs", "/id/print", p, {"tab"})
               \/ /\ d.kind = "transfer" /\ d.st # "draft"
                  /\ Asks(r, "GET", "transfer-dcs", "/id/split", p, {"main"})
  <2>1. CASE page = "challans"
    <3>1. r \in DCListContent(p, d)
      BY <2>1 DEF Body
    <3>2. CASE r \in DCListRows(p, d)
      BY <3>2, SwapIs DEF DCListRows
    <3>3. CASE r \in Link("projects", "-", p) \cup Link("dcs", "/create", p) \cup DCListFilters(p)
      BY <3>3, LinkIs DEF DCListFilters
    <3> QED
      BY <3>1, <3>2, <3>3 DEF DCListContent
  <2>2. CASE page = "challan"
    <3>1. d.kind \in Challans /\ r \in DCDetailContent(p, d)
      BY <1>1, <1>2, <2>2 DEF Body
    <3>2. CASE r \in DCDetailDraftActions(p) /\ d.st = "draft"
      BY <3>1, <3>2, SwapIs, DoIs DEF DCDetailDraftActions
    <3>3. CASE r \in DCDetailExports(p)
      BY <3>1, <3>3, PlainIs, DoIs DEF DCDetailExports
    <3>4. CASE r \in DCDetailSplit(p) /\ d.kind = "transfer" /\ d.st \in {"issued", "exhausted"}
      BY <3>1, <3>4, SwapIs DEF DCDetailSplit
    <3>5. CASE r \in Swap("projects", "-", p) \cup Swap("dcs", "/", p) \cup DCDetailGroup(p)
      BY <3>1, <3>5, SwapIs DEF DCDetailGroup, Asks
    <3> QED
      BY <3>1, <3>2, <3>3, <3>4, <3>5 DEF DCDetailContent
  <2> QED
    BY <2>1, <2>2
<1>5. Routed(r)
  BY <1>1, <1>4, ProjectRouted, DCsRouted, SplitsRouted DEF Asks
<1> QED
  BY <1>1, <1>3, <1>4, <1>5, PagesAssumption
     DEF Asks, OfferOK, Plausible, Fits, Belongs, Warranted, Wholes, Asides, KindsAt

LEMMA SplitOffers ==
  ASSUME NEW page \in {"split 1", "split 2", "split 3"},
         NEW p, NEW type, NEW s, NEW d, PageOK(page, p, type, d), NEW r \in Body(page, p, type, d)
  PROVE  Plausible(r) /\ (Advanced(page, d) => OfferOK(r, page, p, s, d))
<1>1. p \in Projects /\ p # Nothing /\ (d # Unborn => p = Home /\ d.kind = "transfer")
  <2>1. p \in Projects /\ (d # Unborn => p = Home /\ d.kind \in Shows(page))
    BY PagesAssumption DEF PageOK, ProjectPages, OpenPages, RootPages
  <2> QED
    BY <2>1, PagesAssumption DEF Shows, Challans
<1>2. page \in {"split 1", "split 2", "split 3"} => d # Unborn
  BY DEF PageOK, DocPages, SplitPages
<1>3. d.kind = "transfer" => d # Unborn
  BY Born
<1>4. /\ r.type = "-" /\ d.kind = "transfer"
      /\ \/ Asks(r, "GET", "projects", "-", p, {"main"})
         \/ \E rest \in {"/", "/id"} : Asks(r, "GET", "dcs", rest, p, {"main"})
         \/ Asks(r, "GET", "transfer-dcs", "/id/split", p, {"main"})
         \/ \E rest \in SplitRests : Asks(r, "POST", "transfer-dcs", rest, p, {"main"})
  <2>1. d.kind = "transfer"
    BY <1>1, <1>2
  <2>2. CASE r \in SplitCrumbs(p) \cup Swap("dcs", "/", p) \cup Swap("transfer-dcs", "/id/split", p)
    BY <2>1, <2>2, SwapIs DEF SplitCrumbs
  <2>3. CASE \E rest \in SplitRests : r \in SplitPost(p, rest)
    <3>1. PICK rest \in SplitRests : r \in Do("POST", "transfer-dcs", rest, p, "main")
      BY <2>3 DEF SplitPost
    <3>2. Asks(r, "POST", "transfer-dcs", rest, p, {"main"}) /\ r.type = "-"
      BY <3>1, DoIs, ZenonT(40)
    <3> QED
      BY <2>1, <3>2
  <2> QED
    BY <2>2, <2>3 DEF Body, SplitWizardStep1Content, SplitWizardStep2Content,
       SplitWizardStep3Content
<1>5. Routed(r)
  BY <1>1, <1>4, ProjectRouted, DCsRouted, SplitsRouted DEF Asks
<1>6. Plausible(r)
  BY <1>1, <1>2, <1>4, PagesAssumption DEF Asks, Plausible
<1> QED
  BY <1>1, <1>3, <1>4, <1>5, PagesAssumption, <1>6
     DEF Asks, OfferOK, Plausible, Fits, Belongs, Warranted, Wholes, Asides, KindsAt, Challans, Advanced, SplitPages

\* Only a transit challan has a group.
LEMMA GroupOffers ==
  ASSUME NEW page \in {"group"},
         NEW p, NEW type, NEW s, NEW d, PageOK(page, p, type, d), NEW r \in Body(page, p, type, d)
  PROVE  Plausible(r) /\ (Advanced(page, d) => OfferOK(r, page, p, s, d))
<1>1. p \in Projects /\ p # Nothing /\ (d # Unborn => p = Home /\ d.kind \in Challans)
  <2>1. p \in Projects /\ (d # Unborn => p = Home /\ d.kind \in Shows(page))
    BY PagesAssumption DEF PageOK, ProjectPages, OpenPages, RootPages
  <2> QED
    BY <2>1, PagesAssumption DEF Shows, Challans
<1>2. page \in {"group"} => d # Unborn
  BY DEF PageOK, DocPages, SplitPages
<1>3. d.kind \in Challans => d # Unborn
  BY Born DEF Challans
<1>4. /\ r.type = "-"
      /\ \/ Asks(r, "GET", "projects", "-", p, {"main"})
         \/ \E rest \in {"/", "/id"} : Asks(r, "GET", "dcs", rest, p, {"main"})
         \/ Asks(r, "GET", "dcs", "/id/export/pdf", p, {"page"})
         \/ /\ d.st = "draft"
            /\ \/ Asks(r, "POST", "shipment-groups", "/id/issue", p, {"main"})
               \/ Asks(r, "DELETE", "shipment-groups", "/id", p, {"main"})
  <2>1. r \in ShipmentGroupDetailContent(p, d)
    BY DEF Body
  <2>2. CASE r \in GroupActions(p) /\ d.st = "draft"
    BY <2>1, <2>2, DoIs DEF GroupActions
  <2>3. CASE r \in GroupTransit(p, d)
    BY <2>1, <2>3, SwapIs, PlainIs DEF GroupTransit
  <2>4. CASE r \in Swap("projects", "-", p) \cup Swap("dcs", "/", p)
    BY <2>1, <2>4, SwapIs
  <2> QED
    BY <2>1, <2>2, <2>3, <2>4 DEF ShipmentGroupDetailContent
<1>5. Routed(r)
  BY <1>1, <1>4, ProjectRouted, DCsRouted, GroupsRouted DEF Asks
<1>6. Plausible(r)
  BY <1>1, <1>2, <1>4, PagesAssumption DEF Asks, Plausible
<1> QED
  BY <1>1, <1>3, <1>4, <1>5, PagesAssumption, <1>6
     DEF Asks, OfferOK, Plausible, Fits, Belongs, Warranted, Wholes, Asides, KindsAt, Challans, Advanced

\* The pages of the vendors, of one project or of all.
LEMMA VendorOffers ==
  ASSUME NEW page \in {"vendors", "new vendor", "edit vendor"},
         NEW p, NEW type, NEW s, NEW d, PageOK(page, p, type, d), NEW r \in Body(page, p, type, d)
  PROVE  OfferOK(r, page, p, s, d)
<1>1. /\ p \in Projects \cup {Nothing} /\ (page = "edit vendor" => p = Nothing /\ d # Unborn)
      /\ d # Unborn => p \in {Home, Nothing} /\ d.kind = "vendor"
  <2>1. /\ p \in Projects \cup {Nothing} /\ (page = "edit vendor" => p = Nothing /\ d # Unborn)
        /\ d # Unborn => p \in {Home, Nothing} /\ d.kind \in Shows(page)
    BY PagesAssumption DEF PageOK, ProjectPages, OpenPages, RootPages, DocPages
  <2> QED
    BY <2>1, PagesAssumption DEF Shows
<1>2. d.kind = "vendor" => d # Unborn
  BY Born
<1>3. /\ r.type = "-"
      /\ \/ Asks(r, "GET", "projects", "-", p, {"page", "main"})
         \/ \E rest \in {"-", "/create"} : Asks(r, "GET", "vendors", rest, p, {"page", "main"})
         \/ Asks(r, "GET", "vendors", "-", p, {"tbody"})
         \/ Asks(r, "POST", "vendors", "-", p, {"page"})
         \/ /\ d.kind = "vendor"
            /\ \/ Asks(r, "GET", "vendors", "/id/edit", Nothing, {"page", "main"})
               \/ Asks(r, "DELETE", "vendors", "/id", Nothing, {"main"})
               \/ Asks(r, "POST", "vendors", "/id/save", Nothing, {"page"})
               \/ /\ p # Nothing /\ page = "vendors"
                  /\ \E verb \in {"POST", "DELETE"} :
                       Asks(r, verb, "vendors", "/id/link", p, {"toggle"})
  <2>1. CASE page = "vendors"
    <3>1. r \in VendorListContent(p, d)
      BY <2>1 DEF Body
    <3>2. CASE d.kind = "vendor" /\ p # Nothing /\ r \in VendorLinkToggle(p, d)
      BY <2>1, <3>2, DoIs DEF VendorLinkToggle
    <3>3. CASE /\ d.kind = "vendor"
               /\ r \in Link("vendors", "/id/edit", Nothing)
                        \cup Do("DELETE", "vendors", "/id", Nothing, "main")
      BY <3>3, LinkIs, DoIs
    <3>4. CASE r \in Link("projects", "-", p) \cup Link("vendors", "/create", p)
                     \cup Do("GET", "vendors", "-", p, "tbody")
      BY <3>4, LinkIs, DoIs
    <3> QED
      BY <3>1, <3>2, <3>3, <3>4 DEF VendorListContent, VendorListRow
  <2>2. CASE page = "new vendor"
    BY <2>2, LinkIs, FormIs DEF Body, VendorFormContent
  <2>3. CASE page = "edit vendor"
    BY <1>1, <2>3, LinkIs, FormIs DEF Body, VendorFormContent
  <2> QED
    BY <2>1, <2>2, <2>3
<1>4. Routed(r)
  <2>1. CASE r.p = Nothing
    BY <1>3, <2>1, ProjectsRouted, VendorsRouted DEF Asks
  <2>2. CASE r.p # Nothing
    BY <1>1, <1>3, <2>2, ProjectRouted, ProjectVendorsRouted DEF Asks
  <2> QED
    BY <2>1, <2>2
<1> QED
  BY <1>1, <1>2, <1>3, <1>4, PagesAssumption
     DEF Asks, OfferOK, Plausible, Fits, Belongs, Warranted, Wholes, Asides, KindsAt

(* The address pages write a slug, or the type as the database has it.       *)
LEMMA AddressTyped ==
  ASSUME NEW t \in AddressTypes
  PROVE  /\ t \in AllTypes /\ t \notin RegisteredSlugs /\ t # "dispatch-from"
         /\ \/ addressTypeSlug[t] = "dispatch-from" /\ "dispatch-from" \notin RegisteredSlugs
            \/ addressTypeSlug[t] \in RegisteredSlugs /\ TypeOfSlug(addressTypeSlug[t]) = t
<1>1. t \in AllTypes
  BY PagesAssumption
<1>2. t # "dispatch-from"
  BY <1>1, Dispatch
<1> QED
  BY <1>1, <1>2, Slugs, Dispatch

LEMMA AddressListOffers ==
  ASSUME NEW page \in {"addresses"},
         NEW p, NEW type, NEW s, NEW d, PageOK(page, p, type, d), NEW r \in Body(page, p, type, d)
  PROVE  OfferOK(r, page, p, s, d)
<1>1. /\ p \in Projects /\ p # Nothing /\ type \in AddressTypes
      /\ d # Unborn => p = Home /\ d.kind = "address"
  <2>1. p \in Projects /\ type \in AddressTypes /\ (d # Unborn => p = Home /\ d.kind \in Shows(page))
    BY PagesAssumption DEF PageOK, ProjectPages, OpenPages, RootPages, AddressPages
  <2> QED
    BY <2>1, PagesAssumption DEF Shows
<1>2. d.kind = "address" => d # Unborn
  BY Born
<1> DEFINE Slug == addressTypeSlug[type]
           Rows == IF d.kind = "address" THEN AddressListRow(p, type) ELSE {}
<1>3. \/ r.type = "-" /\ Asks(r, "GET", "projects", "-", Nothing, {"page", "main"})
      \/ /\ r.type = type
         /\ \E rest \in {"/template", "/import", "/export"} :
              Asks(r, "GET", "addresses", rest, p, {"page"})
      \/ /\ r.type = Slug
         /\ \/ Asks(r, "GET", "addresses", "/new", p, {"page", "main"})
            \/ Asks(r, "DELETE", "addresses", "/bulk", p, {"main"})
            \/ Asks(r, "GET", "addresses", "-", p, {"main"})
            \/ /\ d.kind = "address"
               /\ \/ Asks(r, "GET", "addresses", "/id/edit", p, {"page", "main"})
                  \/ Asks(r, "DELETE", "addresses", "/id", p, {"main"})
                  \/ Asks(r, "GET", "addresses", "/id/delete-info", p, {"fetch"})
  <2>1. r \in AddressListContent(p, type, d)
    BY DEF Body
  <2>2. CASE r \in Link("projects", "-", Nothing)
    BY <2>2, LinkIs
  <2>3. CASE r \in OfType(AddressListSheets(p), type)
    <3>1. \A q \in AddressListSheets(p) :
            /\ Whole(q)
            /\ \E rest \in {"/template", "/import", "/export"} :
                 Asks(q, "GET", "addresses", rest, p, {"page"})
      BY PlainIs DEF AddressListSheets
    <3>2. PICK q \in AddressListSheets(p) : /\ r.verb = q.verb /\ r.at = q.at /\ r.rest = q.rest
                                            /\ r.p = q.p /\ r.type = type /\ r.into = q.into
      BY <2>3, <3>1, OfTypeIs
    <3> QED
      BY <3>1, <3>2 DEF Asks
  <2>4. CASE r \in OfType(Link("addresses", "/new", p) \cup AddressListBulk(p)
                          \cup AddressListSort(p) \cup AddressListPager(p) \cup Rows, Slug)
    <3> DEFINE R == Link("addresses", "/new", p) \cup AddressListBulk(p)
                    \cup AddressListSort(p) \cup AddressListPager(p) \cup Rows
    <3>1. ASSUME NEW q \in R
          PROVE  /\ Whole(q)
                 /\ \/ Asks(q, "GET", "addresses", "/new", p, {"page", "main"})
                    \/ Asks(q, "DELETE", "addresses", "/bulk", p, {"main"})
                    \/ Asks(q, "GET", "addresses", "-", p, {"main"})
                    \/ /\ d.kind = "address"
                       /\ \/ Asks(q, "GET", "addresses", "/id/edit", p, {"page", "main"})
                          \/ Asks(q, "DELETE", "addresses", "/id", p, {"main"})
                          \/ Asks(q, "GET", "addresses", "/id/delete-info", p, {"fetch"})
      <4>1. CASE q \in Rows /\ d.kind = "address"
        <5>1. q \in AddressListRow(p, type)
          BY <4>1
        <5> QED
          BY <4>1, <5>1, LinkIs, DoIs DEF AddressListRow
      <4>2. CASE q \in AddressListBulk(p)
        BY <4>2, DoIs DEF AddressListBulk
      <4>3. CASE q \in AddressListSort(p) \cup AddressListPager(p)
        BY <4>3, SwapIs DEF AddressListSort, AddressListPager
      <4>4. CASE q \in Link("addresses", "/new", p)
        BY <4>4, LinkIs
      <4> QED
        BY <3>1, <4>1, <4>2, <4>3, <4>4
    <3> HIDE DEF R
    <3>2. PICK q \in R : /\ r.verb = q.verb /\ r.at = q.at /\ r.rest = q.rest
                         /\ r.p = q.p /\ r.type = Slug /\ r.into = q.into
      <4>1. r \in OfType(R, Slug)
        BY <2>4 DEF R
      <4> QED
        BY <4>1, <3>1, OfTypeIs
    <3>3. \/ Asks(q, "GET", "addresses", "/new", p, {"page", "main"})
          \/ Asks(q, "DELETE", "addresses", "/bulk", p, {"main"})
          \/ Asks(q, "GET", "addresses", "-", p, {"main"})
          \/ /\ d.kind = "address"
             /\ \/ Asks(q, "GET", "addresses", "/id/edit", p, {"page", "main"})
                \/ Asks(q, "DELETE", "addresses", "/id", p, {"main"})
                \/ Asks(q, "GET", "addresses", "/id/delete-info", p, {"fetch"})
      BY <3>1, <3>2
    <3> QED
      BY <3>2, <3>3 DEF Asks
  <2> QED
    BY <2>1, <2>2, <2>3, <2>4 DEF AddressListContent
<1> HIDE DEF Slug, Rows
<1>4. /\ type \in AllTypes /\ type \notin RegisteredSlugs
      /\ \/ Slug = "dispatch-from" /\ Slug \notin RegisteredSlugs
         \/ Slug \in RegisteredSlugs /\ TypeOfSlug(Slug) = type
  BY <1>1, AddressTyped DEF Slug
<1>5. Routed(r) \/ Dead(r, page)
  BY <1>1, <1>3, <1>4, ProjectsRouted, AddressesRouted, TypedRouted DEF Asks, Dead
<1> QED
  BY <1>1, <1>2, <1>3, <1>4, <1>5, PagesAssumption
     DEF Asks, OfferOK, Plausible, Fits, Belongs, Warranted, Wholes, Asides, KindsAt

LEMMA AddressFormIs ==
  ASSUME NEW p, NEW edit \in BOOLEAN, NEW slug,
         NEW r \in OfType(Link("addresses", "-", p) \cup AddressForm(p, edit), slug)
  PROVE  /\ r.type = slug
         /\ \/ Asks(r, "GET", "addresses", "-", p, {"page", "main"})
            \/ Asks(r, "POST", "addresses", "/new", p, {"page"})
            \/ edit /\ Asks(r, "POST", "addresses", "/id/edit", p, {"page"})
<1> DEFINE R == Link("addresses", "-", p) \cup AddressForm(p, edit)
<1>1. ASSUME NEW q \in R
      PROVE  /\ Whole(q)
             /\ \/ Asks(q, "GET", "addresses", "-", p, {"page", "main"})
                \/ Asks(q, "POST", "addresses", "/new", p, {"page"})
                \/ edit /\ Asks(q, "POST", "addresses", "/id/edit", p, {"page"})
  BY <1>1, LinkIs, FormIs DEF AddressForm
<1> HIDE DEF R
<1>2. PICK q \in R : /\ r.verb = q.verb /\ r.at = q.at /\ r.rest = q.rest
                     /\ r.p = q.p /\ r.type = slug /\ r.into = q.into
  <2>1. r \in OfType(R, slug)
    BY DEF R
  <2> QED
    BY <1>1, <2>1, OfTypeIs
<1>3. \/ Asks(q, "GET", "addresses", "-", p, {"page", "main"})
      \/ Asks(q, "POST", "addresses", "/new", p, {"page"})
      \/ edit /\ Asks(q, "POST", "addresses", "/id/edit", p, {"page"})
  BY <1>1, <1>2
<1> QED
  BY <1>2, <1>3 DEF Asks

LEMMA AddressFormOffers ==
  ASSUME NEW page \in {"new address", "edit address"},
         NEW p, NEW type, NEW s, NEW d, PageOK(page, p, type, d), NEW r \in Body(page, p, type, d)
  PROVE  OfferOK(r, page, p, s, d)
<1>1. /\ p \in Projects /\ p # Nothing /\ type \in AddressTypes
      /\ d # Unborn => p = Home /\ d.kind \in Shows(page)
      /\ page = "edit address" => d # Unborn
  BY PagesAssumption DEF PageOK, ProjectPages, OpenPages, RootPages, AddressPages, DocPages
<1>2. page = "edit address" => p = Home /\ d.kind = "address"
  BY <1>1 DEF Shows
<1> DEFINE Slug == addressTypeSlug[type]
<1>3. \/ r.type = "-" /\ Asks(r, "GET", "projects", "-", Nothing, {"page", "main"})
      \/ /\ r.type = Slug
         /\ \/ Asks(r, "GET", "addresses", "-", p, {"page", "main"})
            \/ Asks(r, "POST", "addresses", "/new", p, {"page"})
            \/ page = "edit address" /\ Asks(r, "POST", "addresses", "/id/edit", p, {"page"})
  <2>1. CASE r \in Link("projects", "-", Nothing)
    BY <2>1, LinkIs
  <2>2. CASE /\ page = "new address"
             /\ r \in OfType(Link("addresses", "-", p) \cup AddressForm(p, FALSE), Slug)
    BY <2>2, AddressFormIs
  <2>3. CASE /\ page = "edit address"
             /\ r \in OfType(Link("addresses", "-", p) \cup AddressForm(p, TRUE), Slug)
    BY <2>3, AddressFormIs
  <2> QED
    BY <2>1, <2>2, <2>3 DEF Body, AddressFormContent
<1> HIDE DEF Slug
<1>4. /\ type \in AllTypes /\ type \notin RegisteredSlugs
      /\ \/ Slug = "dispatch-from" /\ Slug \notin RegisteredSlugs
         \/ Slug \in RegisteredSlugs /\ TypeOfSlug(Slug) = type
  BY <1>1, AddressTyped DEF Slug
<1>5. Routed(r) \/ Dead(r, page)
  BY <1>1, <1>3, <1>4, ProjectsRouted, TypedRouted DEF Asks, Dead
<1> QED
  BY <1>1, <1>2, <1>3, <1>4, <1>5, PagesAssumption
     DEF Asks, OfferOK, Plausible, Fits, Belongs, Warranted, Wholes, Asides, KindsAt

\* The import pages keep the type their path had.
LEMMA ImportOffers ==
  ASSUME NEW page \in ImportPages,
         NEW p, NEW type, NEW s, NEW d, PageOK(page, p, type, d), NEW r \in Body(page, p, type, d)
  PROVE  OfferOK(r, page, p, s, d)
<1>1. p \in Projects /\ p # Nothing /\ type \in AddressTypes \cap {"ship_to", "install_at"}
  BY PagesAssumption DEF PageOK, ProjectPages, OpenPages, RootPages, ImportPages
<1>2. slugToDBType(type) = type /\ Importable(type)
  BY <1>1 DEF slugToDBType, Importable
<1>3. /\ r.type = type
      /\ \/ Asks(r, "GET", "addresses", "-", p, {"page", "main"})
         \/ Asks(r, "POST", "addresses", "/import", p, {"results"})
         \/ Asks(r, "GET", "addresses", "/template", p, {"page"})
         \/ Asks(r, "GET", "addresses", "/import", p, {"page", "main"})
         \/ Asks(r, "POST", "addresses", "/import/commit", p, {"results"})
         \/ Asks(r, "POST", "addresses", "/import/errors", p, {"fetch"})
  <2> DEFINE R == Link("addresses", "-", p) \cup Link("addresses", "/import", p)
                  \cup Do("POST", "addresses", "/import", p, "results")
                  \cup Plain("addresses", "/template", p)
                  \cup Do("POST", "addresses", "/import/commit", p, "results")
                  \cup Do("POST", "addresses", "/import/errors", p, "fetch")
  <2>1. r \in OfType(R, type)
    BY <1>2 DEF ImportPages, Body, AddressImportContent, AddressValidationResults,
       AddressImportSuccess, AddressImportFailure, OfType
  <2>2. ASSUME NEW q \in R
        PROVE  /\ Whole(q)
               /\ \/ Asks(q, "GET", "addresses", "-", p, {"page", "main"})
                  \/ Asks(q, "POST", "addresses", "/import", p, {"results"})
                  \/ Asks(q, "GET", "addresses", "/template", p, {"page"})
                  \/ Asks(q, "GET", "addresses", "/import", p, {"page", "main"})
                  \/ Asks(q, "POST", "addresses", "/import/commit", p, {"results"})
                  \/ Asks(q, "POST", "addresses", "/import/errors", p, {"fetch"})
    <3>1. CASE q \in Link("addresses", "-", p) \cup Link("addresses", "/import", p)
      BY <3>1, LinkIs
    <3>2. CASE q \in Plain("addresses", "/template", p)
      BY <3>2, PlainIs
    <3>3. CASE q \in Do("POST", "addresses", "/import", p, "results")
                     \cup Do("POST", "addresses", "/import/commit", p, "results")
                     \cup Do("POST", "addresses", "/import/errors", p, "fetch")
      BY <3>3, DoIs
    <3> QED
      BY <2>2, <3>1, <3>2, <3>3
  <2> HIDE DEF R
  <2>3. PICK q \in R : /\ r.verb = q.verb /\ r.at = q.at /\ r.rest = q.rest
                       /\ r.p = q.p /\ r.type = type /\ r.into = q.into
    BY <2>1, <2>2, OfTypeIs
  <2>4. \/ Asks(q, "GET", "addresses", "-", p, {"page", "main"})
        \/ Asks(q, "POST", "addresses", "/import", p, {"results"})
        \/ Asks(q, "GET", "addresses", "/template", p, {"page"})
        \/ Asks(q, "GET", "addresses", "/import", p, {"page", "main"})
        \/ Asks(q, "POST", "addresses", "/import/commit", p, {"results"})
        \/ Asks(q, "POST", "addresses", "/import/errors", p, {"fetch"})
    BY <2>2, <2>3
  <2> QED
    BY <2>3, <2>4 DEF Asks
<1>4. type \in AllTypes /\ type \notin RegisteredSlugs
  BY <1>1, AddressTyped
<1>5. Routed(r) \/ Dead(r, page)
  BY <1>1, <1>3, AddressesRouted DEF Asks, Dead
<1> QED
  BY <1>1, <1>2, <1>3, <1>4, <1>5, PagesAssumption
     DEF Asks, OfferOK, Plausible, Fits, Belongs, Warranted, Wholes, Asides, KindsAt

\* Every page offers what it may.
LEMMA BodyOffers ==
  ASSUME NEW page, NEW p, NEW type, NEW s, NEW d, PageOK(page, p, type, d),
         NEW r \in Body(page, p, type, d)
  PROVE  Plausible(r) /\ (Advanced(page, d) => OfferOK(r, page, p, s, d))
<1>1. page \in ProjectPages \cup OpenPages \cup RootPages
  BY DEF PageOK
<1>2. CASE page \in {"error", "loading"}
  BY <1>2 DEF Body
<1>3. CASE page \in {"projects", "new project", "settings"}
  BY <1>3, RootOffers DEF OfferOK
<1>4. CASE page \in {"project", "edit project", "project settings"}
  <2>1. p \in Projects
    BY <1>4 DEF PageOK, OpenPages, RootPages
  <2> QED
    BY <1>4, <2>1, ProjectOffers DEF OfferOK
<1>5. CASE page \in {"boqs", "new boq", "boq", "edit boq"}
  BY <1>5, BOQOffers DEF OfferOK
<1>6. CASE page \in {"orders", "new order", "order"}
  BY <1>6, OrderOffers DEF OfferOK
<1>7. CASE page \in {"edit order"}
  BY <1>7, OrderEditorOffers DEF OfferOK
<1>8. CASE page \in {"transporters", "new transporter", "edit transporter", "transporter"}
  BY <1>8, TransporterOffers DEF OfferOK
<1>9. CASE page \in {"templates", "new template", "edit template"}
  BY <1>9, TemplateOffers DEF OfferOK
<1>10. CASE page \in {"wizard 1", "wizard 2", "wizard 3", "wizard 4"}
  BY <1>10, WizardOffers DEF OfferOK
<1>11. CASE page \in {"challans", "challan"}
  BY <1>11, ChallanOffers DEF OfferOK
<1>12. CASE page \in {"split 1", "split 2", "split 3"}
  BY <1>12, SplitOffers
<1>13. CASE page \in {"group"}
  BY <1>13, GroupOffers
<1>14. CASE page \in {"vendors", "new vendor", "edit vendor"}
  BY <1>14, VendorOffers DEF OfferOK
<1>15. CASE page \in {"addresses"}
  BY <1>15, AddressListOffers DEF OfferOK
<1>16. CASE page \in {"new address", "edit address"}
  BY <1>16, AddressFormOffers DEF OfferOK
<1>17. CASE page \in ImportPages
  BY <1>17, ImportOffers DEF OfferOK
<1> QED
  BY <1>1, <1>2, <1>3, <1>4, <1>5, <1>6, <1>7, <1>8, <1>9, <1>10, <1>11, <1>12, <1>13,
     <1>14, <1>15, <1>16, <1>17 DEF ProjectPages, OpenPages, RootPages, ImportPages

\* A page offers something only when it waits for nothing.
LEMMA OffersSent ==
  ASSUME TabOK, NEW r \in Offered
  PROVE  Sent(r) /\ tab.wait = Nothing
<1>1. tab.page \notin {"error", "loading"} /\ r \in Shell(tab.shell) \cup Body(tab.page, tab.p, tab.type, tab.seen)
  BY DEF Offered
<1>2. tab.wait = Nothing
  BY <1>1 DEF TabOK
<1>3. PICK page, p, type, s, d : page = tab.page /\ p = tab.p /\ type = tab.type /\ s = tab.shell
                                 /\ d = tab.seen
  OBVIOUS
<1>4. /\ r \in Shell(s) \cup Body(page, p, type, d) /\ s \in Projects \cup {Nothing}
      /\ PageOK(page, p, type, d) /\ Advanced(page, d)
  BY <1>1, <1>3 DEF TabOK, TypeOK
<1>5. OfferOK(r, page, p, s, d)
  BY <1>4, ShellOffers, BodyOffers
<1> QED
  BY <1>2, <1>3, <1>5 DEF Sent

\* Another tab asks for nothing implausible either.
LEMMA ChangesPlausible ==
  ASSUME TabOK, NEW r \in Changes
  PROVE  Plausible(r)
<1>0. Home \in Projects /\ Home # Nothing
  BY PagesAssumption
<1>1. CASE \E page \in PagesOf(doc) : r \in Body(page, Home, doc.st, doc)
  <2>1. PICK page \in PagesOf(doc) : r \in Body(page, Home, doc.st, doc)
    BY <1>1
  <2>2. PICK d, t : d = doc /\ t = d.st
    OBVIOUS
  <2>3. d \in Documents /\ d.kind \in Shows(page) /\ r \in Body(page, Home, t, d)
    BY <2>1, <2>2 DEF PagesOf, TabOK, TypeOK
  <2>4. page \in {"boq", "edit boq", "orders", "edit order", "vendors", "edit vendor",
                  "transporter", "templates", "addresses", "edit address",
                  "challan", "split 3", "group"}
    BY <2>1 DEF PagesOf
  <2>5. d # Unborn
    BY <2>3, <2>4, Born DEF Shows, Challans
  <2>6. CASE page = "edit vendor"
    <3>1. PageOK(page, Nothing, t, d)
      BY <2>3, <2>5, <2>6 DEF PageOK, RootPages, AddressPages, ImportPages, Shows
    <3>2. r \in Body(page, Nothing, t, d)
      BY <2>3, <2>6 DEF Body
    <3> QED
      BY <3>1, <3>2, BodyOffers
  <2>7. CASE page # "edit vendor"
    <3>1. page \in {"addresses", "edit address"} => t \in AddressTypes
      <4>1. page \in {"addresses", "edit address"} => d.kind = "address"
        BY <2>3 DEF Shows
      <4>2. d.kind = "address" => d.st \in AddressTypes
        BY <2>3 DEF Documents, Doc, Unborn, Gone
      <4> QED
        BY <2>2, <4>1, <4>2
    <3>2. PageOK(page, Home, t, d)
      BY <1>0, <2>3, <2>4, <2>5, <2>7, <3>1
         DEF PageOK, ProjectPages, OpenPages, AddressPages, ImportPages
    <3> QED
      BY <2>3, <3>2, BodyOffers
  <2> QED
    BY <2>6, <2>7
<1>2. CASE r \in Creations
  <2>1. CASE \E t \in AddressTypes : r \in OfType(Form("addresses", "/new", Home), addressTypeToSlug[t])
    <3>1. PICK t \in AddressTypes : r \in OfType(Form("addresses", "/new", Home), addressTypeToSlug[t])
      BY <2>1
    <3>2. t \in AllTypes
      BY PagesAssumption
    <3>3. Asks(r, "POST", "addresses", "/new", Home, {"page"}) /\ r.type = addressTypeToSlug[t]
      BY <3>1, OfTypeIs, FormIs DEF Asks
    <3>4. r.type \in RegisteredSlugs /\ TypeOfSlug(r.type) = t
      BY <3>2, <3>3, Slugs
    <3> QED
      BY <1>0, <3>1, <3>3, <3>4 DEF Plausible, Asks
  <2>2. CASE ~(\E t \in AddressTypes : r \in OfType(Form("addresses", "/new", Home), addressTypeToSlug[t]))
    <3>1. \/ \E at \in {"boq", "po", "vendors"} : Asks(r, "POST", at, "-", Home, {"page"})
          \/ \E at \in {"transporters", "dc-templates", "dcs"} : Asks(r, "POST", at, "/create", Home, {"page"})
      BY <1>2, <2>2, FormIs DEF Creations
    <3> QED
      BY <1>0, <3>1 DEF Plausible, Asks
  <2> QED
    BY <2>1, <2>2
<1>3. CASE r \in Form("po", "-", Home)
  <2>1. Asks(r, "POST", "po", "-", Home, {"page"})
    BY <1>3, FormIs
  <2> QED
    BY <1>0, <2>1 DEF Plausible, Asks
<1>4. CASE \E q \in Projects : \/ r \in Do("POST", "projects", "/activate", q, "body")
                               \/ r \in Do("DELETE", "projects", "-", q, "main")
  <2>1. \E q \in Projects : \/ Asks(r, "POST", "projects", "/activate", q, {"body"})
                            \/ Asks(r, "DELETE", "projects", "-", q, {"main"})
    BY <1>4, DoIs
  <2> QED
    BY <2>1, PagesAssumption DEF Plausible, Asks
<1> QED
  BY <1>1, <1>2, <1>3, <1>4 DEF Changes

-----------------------------------------------------------------------------
(* What a handler leaves.                                                    *)
LEMMA KeepOK ==
  ASSUME TabOK, Keep
  PROVE  StateOK /\ ActiveProjectMiddleware' = ActiveProjectMiddleware
BY PagesAssumption DEF TabOK, TypeOK, Keep, StateOK, ActiveProjectMiddleware, Splittable

\* The document becomes another, which can be split if the old one could.
LEMMA BecomesOK ==
  ASSUME TabOK, NEW d \in Documents, Becomes(d), Splittable(doc) => Splittable(d)
  PROVE  StateOK /\ ActiveProjectMiddleware' = ActiveProjectMiddleware
BY PagesAssumption DEF TabOK, TypeOK, Becomes, StateOK, ActiveProjectMiddleware, Splittable

\* The project of the path becomes the active one.
LEMMA VisitOK ==
  ASSUME TabOK, NEW p \in Projects, Visit(p)
  PROVE  StateOK /\ (p \in projects => ActiveProjectMiddleware' = p)
BY PagesAssumption DEF TabOK, TypeOK, Visit, StateOK, ActiveProjectMiddleware, Splittable

\* The documents of each kind.
LEMMA DocKinds ==
  ASSUME NEW d \in Documents
  PROVE  /\ d.kind = "boq"         => \E n \in 0..2 : d = Doc("boq", "-", n)
         /\ d.kind = "order"       => \E n \in 0..1, st \in {"draft", "sent", "cancelled"} :
                                        d = Doc("order", st, n)
         /\ d.kind = "vendor"      => \E st \in {"unlinked", "linked", "ordered"} :
                                        d = Doc("vendor", st, 0)
         /\ d.kind = "transporter" => \E n \in 0..1 : d = Doc("transporter", "-", n)
         /\ d.kind = "transit"     => \E st \in {"draft", "issued"} : d = Doc("transit", st, 0)
         /\ d.kind = "transfer"    => \E st \in {"draft", "issued", "exhausted", "split"} :
                                        d = Doc("transfer", st, 0)
<1>1. /\ \A n : Doc("boq", "-", n).kind = "boq"
      /\ \A s, n : Doc("order", s, n).kind = "order"
      /\ \A s : Doc("vendor", s, 0).kind = "vendor"
      /\ \A n : Doc("transporter", "-", n).kind = "transporter"
      /\ Doc("template", "-", 0).kind = "template"
      /\ \A s : Doc("address", s, 0).kind = "address"
      /\ \A s : Doc("transit", s, 0).kind = "transit"
      /\ \A s : Doc("transfer", s, 0).kind = "transfer"
      /\ Unborn.kind = "none" /\ Gone.kind = "none"
  BY DEF Doc, Unborn, Gone
<1> QED
  BY <1>1 DEF Documents

-----------------------------------------------------------------------------
(* What a page shows of a document.                                          *)
Place(page, p, type) ==
  /\ \/ page \in ProjectPages /\ p \in Projects
     \/ page \in OpenPages    /\ p \in Projects \cup {Nothing}
     \/ page \in RootPages    /\ p = Nothing
  /\ page \in AddressPages => type \in AddressTypes
  /\ page \in ImportPages  => type \in AddressTypes \cap {"ship_to", "install_at"}

InPlace(p, d) == p = Home \/ (p = Nothing /\ d.kind = "vendor")

\* A page in its place, showing a document of its kind, is a page as it should be.
LEMMA Seen ==
  ASSUME NEW page, NEW p, NEW type, NEW d \in Documents, Place(page, p, type),
         page \in DocPages => d.kind \in Shows(page) /\ InPlace(p, d)
  PROVE  /\ PageOK(page, p, type, Snapshot(page, p, type, d))
         /\ page \in DocPages => Snapshot(page, p, type, d) = d
<1>1. Unborn \in Documents
  BY DEF Documents
<1>2. d.kind \in Shows(page) => d # Unborn
  BY Born DEF Shows, Challans
<1>3. page \in DocPages => page \notin {"addresses", "boqs"}
  BY DEF DocPages, SplitPages
<1> HIDE DEF Shows
<1> QED
  BY <1>1, <1>2, <1>3 DEF PageOK, Place, InPlace, Snapshot

-----------------------------------------------------------------------------
(* What an answer has to be.                                                 *)
LEMMA SendIs ==
  ASSUME NEW verb, NEW at, NEW rest, NEW p, NEW into
  PROVE  LET r == Send(verb, at, rest, p, into) IN
         Asks(r, verb, at, rest, p, {into}) /\ r.type = "-"
BY DEF Send, Asks

LEMMA AnswerIs ==
  ASSUME NEW kind, NEW page, NEW p, NEW type, NEW d, NEW to
  PROVE  LET a == Answer(kind, page, p, type, d, to) IN
         /\ a.kind = kind /\ a.page = page /\ a.p = p /\ a.type = type
         /\ a.seen = Snapshot(page, p, type, d) /\ a.to = to
BY DEF Answer

\* Where the redirects of the handlers lead to.
Goes(at, rest, p) ==
  \/ p = Nothing /\ at \in {"projects", "settings", "vendors"} /\ rest = "-"
  \/ /\ p \in Projects
     /\ \/ at \in {"projects", "boq", "po", "vendors"} /\ rest = "-"
        \/ at \in {"transporters", "dc-templates", "dcs"} /\ rest = "/"
        \/ at = "projects" /\ rest = "/settings"
        \/ at = "dcs" /\ rest = "/create"
  \/ /\ p = Home
     /\ \/ at \in {"boq", "transporters", "dcs", "shipment-groups"} /\ rest = "/id"
        \/ at = "po" /\ rest = "/id/edit"

\* Every such address may be awaited.
LEMMA GoesOn ==
  ASSUME NEW at, NEW rest, NEW p, Goes(at, rest, p)
  PROVE  Awaited(Send("GET", at, rest, p, "page"))
<1>1. PICK r : r = Send("GET", at, rest, p, "page")
  OBVIOUS
<1>2. Asks(r, "GET", at, rest, p, {"page"}) /\ r.type = "-"
  BY <1>1, SendIs
<1>3. Home \in Projects /\ Home # Nothing
  BY PagesAssumption
<1>4. Routed(r)
  BY <1>2, <1>3, ProjectsRouted, SettingsRouted, VendorsRouted, ProjectRouted, BOQRouted,
     PORouted, ProjectVendorsRouted, TransportersRouted, TemplatesRouted, DCsRouted,
     GroupsRouted DEF Asks, Goes
<1>5. Plausible(r)
  BY <1>2, <1>3, PagesAssumption DEF Asks, Goes, Plausible
<1>6. r.at = "boq" => r.p # Nothing
  BY <1>2, <1>3, PagesAssumption DEF Asks, Goes
<1>7. r.rest \notin {"/id/boq-picker", "/id/link", "/import"}
  BY <1>2 DEF Asks, Goes
<1>8. Awaited(r)
  BY <1>2, <1>4, <1>5, <1>6, <1>7 DEF Asks, Awaited
<1> QED
  BY <1>1, <1>8

\* A redirect is right when it stays in the request's project or in the active one.
LEMMA LeadOK ==
  ASSUME NEW r, NEW at, NEW rest, NEW p, Goes(at, rest, p),
         \/ p = Nothing
         \/ ActiveProjectMiddleware' = p
         \/ /\ p = r.p /\ ~Switches(r)
            /\ ActiveProjectMiddleware' = ActiveProjectMiddleware
  PROVE  AnswerOK(r, GoTo(at, rest, p))
<1>1. PICK to : to = Send("GET", at, rest, p, "page")
  OBVIOUS
<1>2. to.p = p /\ Awaited(to)
  BY <1>1, SendIs, GoesOn DEF Asks
<1>3. LeadsOn(r, to)
  BY <1>2 DEF LeadsOn, Kept
<1>4. PICK a : a = GoTo(at, rest, p)
  OBVIOUS
<1>5. a.kind = "goto" /\ a.to = to
  BY <1>1, <1>4, AnswerIs DEF GoTo
<1>6. AnswerOK(r, a)
  BY <1>3, <1>5 DEF AnswerOK
<1> QED
  BY <1>4, <1>6

\* A page is a right answer when it is in its place and fits where it is put.
LEMMA ShowOK ==
  ASSUME NEW r, NEW kind \in {"content", "full"} \cup Slots, NEW page, NEW p, NEW type,
         NEW d \in Documents, Place(page, p, type),
         page \in DocPages => d.kind \in Shows(page) /\ InPlace(p, d),
         Advanced(page, d), page \in SplitPages => Splittable(doc'),
         p \in {Nothing, r.p, tab.p},
         ~Switches(r) \/ p \in {Nothing, ActiveProjectMiddleware},
         \/ Excused(r)
         \/ r.into = IF kind \in {"content", "full"} THEN "page" ELSE kind
         \/ r.into = "main" /\ kind = "content"
  PROVE  AnswerOK(r, Answer(kind, page, p, type, d, Nothing))
<1>1. PICK a : a = Answer(kind, page, p, type, d, Nothing)
  OBVIOUS
<1>2. /\ a.kind = kind /\ a.page = page /\ a.p = p /\ a.type = type
      /\ a.seen = Snapshot(page, p, type, d)
  BY <1>1, AnswerIs
<1>3. PageOK(page, p, type, a.seen) /\ (page \in DocPages => a.seen = d)
  BY <1>2, Seen
<1>4. page \in SplitPages \cup {"group"} => page \in DocPages
  BY DEF DocPages
<1>5. Advanced(page, a.seen)
  BY <1>3, <1>4 DEF Advanced
<1>6. Misfit(r, a) => Excused(r)
  BY <1>2 DEF Misfit, Slots
<1>7. AnswerOK(r, a)
  BY <1>2, <1>3, <1>5, <1>6 DEF AnswerOK, ShowsWell
<1> QED
  BY <1>1, <1>7

-----------------------------------------------------------------------------
(* What is known of a request the reader sends.                              *)
LEMMA SentIs ==
  ASSUME TabOK, NEW r, Sent(r)
  PROVE  /\ Wholes(r) => r.into = "page"
         /\ r.into \in {"page", "main"} \/ Asides(r)
         /\ r.into = "page" => ~Switches(r) \/ r.rest = "/activate"
         /\ Plausible(r)
<1>1. CASE tab.wait = Nothing
  BY <1>1 DEF Sent, OfferOK, Fits
<1>2. CASE tab.wait # Nothing
  <2>1. Awaited(r)
    BY <1>2 DEF Sent
  <2>2. r.verb = "GET" /\ r.into \in {"page", "main"} /\ Plausible(r)
    BY <2>1 DEF Awaited
  <2>3. r.into = "main" => r.at = "projects"
    BY <2>1 DEF Awaited
  <2> QED
    BY <2>2, <2>3 DEF Wholes
<1> QED
  BY <1>1, <1>2

\* A fresh page shows the document its requests name, in a project that exists.
LEMMA FreshIs ==
  ASSUME TabOK, NEW r, Sent(r), tab.wait = Nothing, Fresh(r)
  PROVE  /\ Warranted(r, tab.seen)
         /\ r.rest \in IdRests => doc = tab.seen /\ doc.kind \in KindsAt(r.at)
         /\ r.p # Nothing => r.p \in projects
<1>1. Warranted(r, tab.seen)
  BY DEF Sent, OfferOK
<1>2. r.rest \in IdRests => tab.seen.kind \in KindsAt(r.at)
  BY <1>1 DEF Warranted
<1>3. r.rest \in IdRests => tab.seen # Unborn
  BY <1>2, Born DEF KindsAt, Challans
<1>4. tab.seen \in {doc, Unborn} /\ r.p \in projects \cup {Nothing}
  BY DEF Fresh, Snapshot
<1> QED
  BY <1>1, <1>2, <1>3, <1>4

\* Nobody meets, on a fresh page, a document of another kind...
LEMMA FairKind ==
  ASSUME TabOK, NEW r, Sent(r), r.rest \in IdRests, doc.kind \notin KindsAt(r.at)
  PROVE  Fair(r)
BY FreshIs DEF Fair

\* ...nor a project that is gone.
LEMMA FairGone ==
  ASSUME TabOK, NEW r, Sent(r), r.p \in Projects, r.p \notin projects
  PROVE  Fair(r)
BY FreshIs, PagesAssumption DEF Fair

-----------------------------------------------------------------------------
(* The ways a handler ends.                                                  *)
ListPages ==
  {"boqs", "new boq", "orders", "new order", "vendors", "new vendor", "transporters",
   "new transporter", "templates", "new template", "challans",
   "wizard 1", "wizard 2", "wizard 3", "wizard 4"}

\* A list or a form of the project is shown; nothing changes.
LEMMA KeptLists ==
  ASSUME TabOK, NEW who, NEW r, who = "reader" => Sent(r), NEW page \in ListPages,
         Keep, Reply(who, r, Content(page, r.p, doc)), ~Switches(r),
         r.p \in Projects \/ (r.p = Nothing /\ page \in OpenPages),
         ~Asides(r) \/ Excused(r)
  PROVE  StateOK /\ Answered(who, r)
<1>1. PICK d, p : d = doc /\ p = r.p /\ d \in Documents
  BY DEF TabOK, TypeOK
<1>2. Place(page, p, "-")
  BY <1>1 DEF ListPages, Place, ProjectPages, OpenPages, RootPages, AddressPages, ImportPages
<1>3. page \notin DocPages \cup SplitPages /\ Advanced(page, d)
  BY DEF ListPages, DocPages, SplitPages, Advanced
<1>4. who = "reader" => AnswerOK(r, Content(page, p, d))
  <2> HAVE who = "reader"
  <2>1. r.into \in {"page", "main"} \/ Excused(r)
    BY SentIs
  <2> QED
    BY <1>1, <1>2, <1>3, <2>1, ShowOK DEF Content
<1>5. Reply(who, r, Content(page, p, d))
  BY <1>1
<1>6. Answered(who, r)
  BY <1>4, <1>5 DEF Answered
<1> QED
  BY <1>6, KeepOK

\* The followed document is shown; nothing changes.
LEMMA KeptShows ==
  ASSUME TabOK, NEW who, NEW r, who = "reader" => Sent(r), NEW page \in DocPages, NEW p,
         Keep, Reply(who, r, Content(page, p, doc)), ~Switches(r), ~Asides(r) \/ Excused(r),
         p \in {Nothing, r.p}, doc.kind \in Shows(page), Place(page, p, "-"), InPlace(p, doc),
         who = "reader" => Advanced(page, doc) /\ (page \in SplitPages => Splittable(doc))
  PROVE  StateOK /\ Answered(who, r)
<1>1. PICK d : d = doc /\ d \in Documents
  BY DEF TabOK, TypeOK
<1>2. StateOK
  BY KeepOK
<1>4. who = "reader" => AnswerOK(r, Content(page, p, d))
  <2> HAVE who = "reader"
  <2>1. r.into \in {"page", "main"} \/ Excused(r)
    BY SentIs
  <2>2. page \in SplitPages => Splittable(doc')
    BY <1>2 DEF StateOK
  <2>3. Advanced(page, d) /\ d.kind \in Shows(page) /\ InPlace(p, d)
    BY <1>1
  <2> HIDE DEF Switches
  <2> QED
    BY <1>1, <2>1, <2>2, <2>3, ShowOK DEF Content
<1>5. Reply(who, r, Content(page, p, d))
  BY <1>1
<1>6. Answered(who, r)
  BY <1>4, <1>5 DEF Answered
<1> QED
  BY <1>2, <1>6

\* A redirect.
LEMMA Leads ==
  ASSUME NEW who, NEW r, NEW at, NEW rest, NEW p, Goes(at, rest, p),
         Reply(who, r, GoTo(at, rest, p)),
         \/ p = Nothing
         \/ ActiveProjectMiddleware' = p
         \/ /\ p = r.p /\ ~Switches(r)
            /\ ActiveProjectMiddleware' = ActiveProjectMiddleware
  PROVE  Answered(who, r)
<1>1. AnswerOK(r, GoTo(at, rest, p))
  BY LeadOK
<1> QED
  BY <1>1 DEF Answered

LEMMA KeptLeads ==
  ASSUME TabOK, NEW who, NEW r, NEW at, NEW rest, NEW p, Goes(at, rest, p),
         Keep, Reply(who, r, GoTo(at, rest, p)), p = Nothing \/ (p = r.p /\ ~Switches(r))
  PROVE  StateOK /\ Answered(who, r)
BY KeepOK, Leads

\* The document changes and a redirect follows.
LEMMA BecomesLeads ==
  ASSUME TabOK, NEW who, NEW r, NEW at, NEW rest, NEW p, Goes(at, rest, p),
         NEW d \in Documents, Becomes(d), Splittable(doc) => Splittable(d),
         Reply(who, r, GoTo(at, rest, p)), p = Nothing \/ (p = r.p /\ ~Switches(r))
  PROVE  StateOK /\ Answered(who, r)
BY BecomesOK, Leads

\* A refusal, when it is fair.
LEMMA Refuses ==
  ASSUME NEW who, NEW r, who = "reader" => Fair(r), Reply(who, r, Refused)
  PROVE  Answered(who, r)
<1>1. PICK a : a = Refused
  OBVIOUS
<1>2. a.kind = "refused"
  BY <1>1, AnswerIs DEF Refused
<1> QED
  BY <1>1, <1>2 DEF Answered, AnswerOK

LEMMA KeptRefuses ==
  ASSUME TabOK, NEW who, NEW r, who = "reader" => Fair(r), Keep, Reply(who, r, Refused)
  PROVE  StateOK /\ Answered(who, r)
BY KeepOK, Refuses

\* Nothing is shown.
LEMMA Rests ==
  ASSUME NEW who, NEW r, Reply(who, r, Stay) \/ Reply(who, r, Complain)
  PROVE  Answered(who, r)
<1>1. PICK a : a \in {Stay, Complain} /\ Reply(who, r, a)
  OBVIOUS
<1>2. a.kind \in {"stay", "complaint"}
  BY <1>1, AnswerIs DEF Stay, Complain
<1>3. AnswerOK(r, a)
  BY <1>2 DEF AnswerOK
<1> QED
  BY <1>1, <1>3 DEF Answered

LEMMA KeptRests ==
  ASSUME TabOK, NEW who, NEW r, Keep, Reply(who, r, Stay) \/ Reply(who, r, Complain)
  PROVE  StateOK /\ Answered(who, r)
BY KeepOK, Rests

\* A form is rendered as a whole page.
LEMMA KeptFull ==
  ASSUME TabOK, NEW who, NEW r, who = "reader" => Sent(r), NEW page, NEW p, NEW type,
         Keep, Reply(who, r, Full(page, p, type)), ~Switches(r), Wholes(r) \/ Excused(r),
         p \in {Nothing, r.p}, Place(page, p, type),
         \/ page \in {"new project", "new boq", "new address"}
         \/ page = "edit address" /\ doc.kind = "address" /\ p = Home
  PROVE  StateOK /\ Answered(who, r)
<1>1. PICK d : d = doc /\ d \in Documents
  BY DEF TabOK, TypeOK
<1>2. page \in DocPages => d.kind \in Shows(page) /\ InPlace(p, d)
  BY <1>1 DEF DocPages, SplitPages, Shows, InPlace
<1>3. page \notin SplitPages /\ Advanced(page, d)
  BY DEF SplitPages, Advanced
<1>4. who = "reader" => AnswerOK(r, Full(page, p, type))
  <2> HAVE who = "reader"
  <2>1. r.into = "page" \/ Excused(r)
    BY SentIs
  <2>2. AnswerOK(r, Answer("full", page, p, type, d, Nothing))
    BY <1>1, <1>2, <1>3, <2>1, ShowOK
  <2> QED
    BY <1>1, <2>2 DEF Full
<1>5. Answered(who, r)
  BY <1>4 DEF Answered
<1> QED
  BY <1>5, KeepOK

\* A BOQ's rows change, and its editor is rendered with them.
LEMMA BecomesShows ==
  ASSUME TabOK, NEW who, NEW r, who = "reader" => Sent(r), NEW p, NEW d \in Documents,
         Becomes(d), Splittable(doc) => Splittable(d), d.kind = "boq",
         Reply(who, r, Content("edit boq", p, d)), ~Switches(r), ~Asides(r), p = r.p, p = Home
  PROVE  StateOK /\ Answered(who, r)
<1>1. Home \in Projects
  BY PagesAssumption
<1>2. Place("edit boq", p, "-") /\ d.kind \in Shows("edit boq") /\ InPlace(p, d)
  BY <1>1 DEF Place, ProjectPages, AddressPages, ImportPages, Shows, InPlace
<1>3. "edit boq" \notin SplitPages /\ Advanced("edit boq", d)
  BY DEF SplitPages, Advanced
<1>4. who = "reader" => AnswerOK(r, Content("edit boq", p, d))
  <2> HAVE who = "reader"
  <2>1. r.into \in {"page", "main"}
    BY SentIs
  <2> QED
    BY <1>2, <1>3, <2>1, ShowOK DEF Content
<1>5. Answered(who, r)
  BY <1>4 DEF Answered
<1> QED
  BY <1>5, BecomesOK

\* A piece replaces its slot of the page it came from.
LEMMA Replaces ==
  ASSUME NEW who, NEW r, NEW slot \in Slots, NEW page, NEW p, NEW d \in Documents,
         Reply(who, r, Piece(slot, page, p, d)),
         who = "reader" => /\ r.into = slot /\ ~Switches(r) /\ p \in {r.p, tab.p}
                           /\ Place(page, p, tab.type)
                           /\ page \in DocPages => d.kind \in Shows(page) /\ InPlace(p, d)
                           /\ page \notin SplitPages /\ Advanced(page, d)
  PROVE  Answered(who, r)
<1>1. PICK type : type = tab.type
  OBVIOUS
<1>2. who = "reader" => AnswerOK(r, Answer(slot, page, p, type, d, Nothing))
  <2> HAVE who = "reader"
  <2>1. slot \notin {"content", "full"}
    BY DEF Slots
  <2> QED
    BY <1>1, <2>1, ShowOK
<1>3. Piece(slot, page, p, d) = Answer(slot, page, p, type, d, Nothing)
  BY <1>1 DEF Piece
<1> QED
  BY <1>2, <1>3 DEF Answered

LEMMA GoneOK == Gone \in Documents /\ Splittable(Gone)
BY DEF Gone, Unborn, Doc, Documents, Splittable

-----------------------------------------------------------------------------
(* The handlers, group by group.                                             *)
LEMMA BOQServed ==
  ASSUME TabOK, NEW who, NEW r, Plausible(r), who = "reader" => Sent(r), r.at = "boq", r.p # Nothing,
         ServeBOQ(who, r)
  PROVE  StateOK /\ Answered(who, r)
<1>1. r.p \in Projects /\ ~Switches(r) /\ Home \in Projects /\ (r.rest \in IdRests => r.p = Home)
  BY PagesAssumption DEF Plausible
<1>2. r.rest \in IdRests /\ ~Is("boq") => (who = "reader" => Fair(r))
  BY FairKind DEF KindsAt, Is
<1>3. Is("boq") => doc # Unborn /\ doc.kind \in Shows("boq") /\ doc.kind \in Shows("edit boq")
  BY Born DEF Is, Shows
<1>4. /\ r.p = Home => Place("boq", r.p, "-") /\ Place("edit boq", r.p, "-") /\ InPlace(r.p, doc)
      /\ Advanced("boq", doc) /\ Advanced("edit boq", doc)
      /\ {"boq", "edit boq"} \cap SplitPages = {} /\ {"boq", "edit boq"} \subseteq DocPages
      /\ Place("new boq", r.p, "-")
  BY <1>1 DEF Place, ProjectPages, AddressPages, ImportPages, InPlace, Advanced, SplitPages, DocPages
<1>5. CASE HandleBOQList(who, r)
  BY <1>1, <1>5, KeptLists DEF HandleBOQList, On, ListPages, Asides
<1>6. CASE HandleBOQCreate(who, r)
  BY <1>1, <1>4, <1>6, KeptFull DEF HandleBOQCreate, On, Wholes
<1>7. CASE HandleBOQSave(who, r)
  <2>1. CASE Keep /\ Reply(who, r, Full("new boq", r.p, "-"))
    <3>1. Wholes(r)
      BY <1>7 DEF HandleBOQSave, On, Wholes
    <3> QED
      BY <1>1, <1>4, <2>1, <3>1, KeptFull
  <2>2. CASE Creates(r) /\ Becomes(Doc("boq", "-", 0)) /\ Reply(who, r, GoTo("boq", "/id", r.p))
    BY <1>1, <2>2, BecomesLeads DEF Creates, Documents, Splittable, Goes
  <2> QED
    BY <1>7, <2>1, <2>2 DEF HandleBOQSave
<1>8. CASE HandleBOQView(who, r)
  <2>1. r.rest \in IdRests /\ ~Asides(r)
    BY <1>1, <1>8 DEF HandleBOQView, On, Asides
  <2>2. CASE Is("boq")
    BY <1>1, <1>3, <1>4, <1>8, <2>1, <2>2, KeptShows DEF HandleBOQView, Found
  <2>3. CASE ~Is("boq")
    BY <1>2, <1>8, <2>1, <2>3, KeptRefuses DEF HandleBOQView, Found
  <2> QED
    BY <2>2, <2>3
<1>9. CASE HandleBOQEdit(who, r)
  <2>1. r.rest \in IdRests /\ ~Asides(r)
    BY <1>1, <1>9 DEF HandleBOQEdit, On, Asides
  <2>2. CASE Is("boq")
    BY <1>1, <1>3, <1>4, <1>9, <2>1, <2>2, KeptShows DEF HandleBOQEdit, Found
  <2>3. CASE ~Is("boq")
    BY <1>2, <1>9, <2>1, <2>3, KeptRefuses DEF HandleBOQEdit, Found
  <2> QED
    BY <2>2, <2>3
<1>10. CASE HandleBOQUpdate(who, r)
  <2>1. r.rest \in IdRests /\ r.verb = "POST" /\ r.rest = "/id/save"
    BY <1>10 DEF HandleBOQUpdate, On
  <2>2. CASE Is("boq")
    <3>1. PICK d : d = doc /\ d \in Documents /\ d.kind \in Shows("boq")
      BY <1>3, <2>2 DEF TabOK, TypeOK
    <3>2. Reply(who, r, Piece("main", "boq", r.p, d)) /\ Keep
      BY <1>10, <2>2, <3>1 DEF HandleBOQUpdate, Found
    <3>3. who = "reader" => r.into = "main"
      BY <2>1 DEF Sent, OfferOK, Fits, Awaited
    <3>4. Place("boq", r.p, tab.type) /\ InPlace(r.p, d) /\ Advanced("boq", d)
      BY <1>1, <1>4, <2>1 DEF Place, InPlace, Advanced, AddressPages, ImportPages
    <3> QED
      BY <1>1, <1>4, <3>1, <3>2, <3>3, <3>4, Replaces, KeepOK DEF Slots
  <2>3. CASE ~Is("boq")
    BY <1>2, <1>10, <2>1, <2>3, KeptRefuses DEF HandleBOQUpdate, Found
  <2> QED
    BY <2>2, <2>3
<1>11. CASE HandleBOQExport(who, r)
  <2>1. r.rest \in IdRests
    BY <1>11 DEF HandleBOQExport, On
  <2> QED
    BY <1>2, <1>11, <2>1, KeptRefuses, KeptRests DEF HandleBOQExport, Found
<1>12. CASE HandleBOQDelete(who, r)
  <2>1. r.rest \in IdRests
    BY <1>12 DEF HandleBOQDelete, On
  <2>2. CASE Is("boq")
    <3>1. Becomes(Gone) /\ Reply(who, r, GoTo("boq", "-", r.p))
      BY <1>12, <2>2 DEF HandleBOQDelete, Found
    <3> QED
      BY <1>1, <3>1, GoneOK, BecomesLeads DEF Goes
  <2>3. CASE ~Is("boq")
    <3>1. PICK d : d = doc /\ d \in Documents
      BY DEF TabOK, TypeOK
    <3>2. Becomes(d) /\ Reply(who, r, Refused)
      BY <1>12, <2>3, <3>1 DEF HandleBOQDelete, Found
    <3> QED
      BY <1>2, <2>1, <2>3, <3>1, <3>2, BecomesOK, Refuses
  <2> QED
    BY <2>2, <2>3
<1>13. CASE HandleAddMainItem(who, r)
  <2>1. Refusable(r)
    BY <1>13 DEF HandleAddMainItem, On, Refusable
  <2> QED
    BY <1>13, <2>1, KeptRefuses DEF HandleAddMainItem, Fair
<1>14. ASSUME NEW verb, NEW rest \in RowRests \cup DeepRests, NEW depth \in 1..2, NEW left,
              EditRows(who, r, verb, rest, depth, left),
              rest \in RowRests => depth = 1,
              \A n \in left : Is("boq") /\ doc.rows >= depth => n \in 0..2
       PROVE  StateOK /\ Answered(who, r)
  <2>1. r.rest = rest /\ r.rest \in IdRests /\ ~Asides(r)
    BY <1>1, <1>14 DEF EditRows, On, Asides
  <2>2. CASE Is("boq") /\ doc.rows >= depth
    <3>1. PICK n \in left : /\ Becomes([doc EXCEPT !.rows = n])
                            /\ Reply(who, r, Content("edit boq", r.p, [doc EXCEPT !.rows = n]))
      BY <1>14, <2>2 DEF EditRows
    <3>2. n \in 0..2
      BY <1>14, <2>2, <3>1
    <3>3. PICK d : d = [doc EXCEPT !.rows = n]
      OBVIOUS
    <3>4. PICK m \in 0..2 : doc = Doc("boq", "-", m)
      BY <2>2, DocKinds DEF Is, TabOK, TypeOK
    <3>5. d = Doc("boq", "-", n)
      BY <3>3, <3>4 DEF Doc
    <3>6. d \in Documents /\ d.kind = "boq" /\ Splittable(d)
      BY <3>2, <3>5 DEF Documents, Doc, Unborn, Splittable
    <3> QED
      BY <1>1, <2>1, <3>1, <3>3, <3>6, BecomesShows
  <2>3. CASE ~(Is("boq") /\ doc.rows >= depth)
    <3>1. Keep /\ Reply(who, r, Refused)
      BY <1>14, <2>3 DEF EditRows
    <3>2. who = "reader" => Fair(r)
      <4> SUFFICES ASSUME who = "reader", tab.wait = Nothing, Fresh(r) PROVE FALSE
        BY DEF Fair
      <4>1. Warranted(r, doc) /\ doc.kind \in KindsAt(r.at)
        BY <2>1, FreshIs
      <4>2. Is("boq") /\ (rest \in RowRests => doc.rows > 0) /\ (rest \in DeepRests => doc.rows = 2)
        BY <2>1, <4>1 DEF Warranted, KindsAt, Is
      <4>3. PICK m \in 0..2 : doc = Doc("boq", "-", m)
        BY <4>2, DocKinds DEF Is, TabOK, TypeOK
      <4>4. doc.rows = m
        BY <4>3 DEF Doc
      <4> QED
        BY <1>14, <2>3, <4>2, <4>4
    <3> QED
      BY <3>1, <3>2, KeptRefuses
  <2> QED
    BY <2>2, <2>3
<1>15. \A n \in 0..doc.rows : Is("boq") => n \in 0..2
  <2>1. Is("boq") => \E m \in 0..2 : doc.rows = m
    BY DocKinds DEF Is, TabOK, TypeOK, Doc
  <2> QED
    BY <2>1
<1>16. CASE HandleAddSubItem(who, r)
  BY <1>16, <1>14 DEF HandleAddSubItem
<1>17. CASE HandleAddSubSubItem(who, r)
  BY <1>17, <1>14 DEF HandleAddSubSubItem
<1>18. CASE HandleDeleteMainItem(who, r)
  <2>1. PICK left : left = 0..doc.rows
    OBVIOUS
  <2>2. EditRows(who, r, "DELETE", "/id/main-item", 1, left)
    BY <1>18, <2>1 DEF HandleDeleteMainItem
  <2>3. \A n \in left : Is("boq") /\ doc.rows >= 1 => n \in 0..2
    BY <1>15, <2>1
  <2> QED
    BY <1>14, <2>2, <2>3
<1>19. CASE HandleDeleteSubItem(who, r)
  BY <1>19, <1>14 DEF HandleDeleteSubItem
<1>20. CASE HandleDeleteSubSubItem(who, r)
  BY <1>20, <1>14 DEF HandleDeleteSubSubItem
<1> QED
  BY <1>5, <1>6, <1>7, <1>8, <1>9, <1>10, <1>11, <1>12, <1>13, <1>16, <1>17, <1>18, <1>19, <1>20
     DEF ServeBOQ

\* Purchase orders: the pieces fit the editor they came from.
LEMMA POServed ==
  ASSUME TabOK, NEW who, NEW r, Plausible(r), who = "reader" => Sent(r), r.at = "po",
         ServePO(who, r)
  PROVE  StateOK /\ Answered(who, r)
<1>1. r.p \in Projects /\ ~Switches(r) /\ Home \in Projects /\ (r.rest \in IdRests => r.p = Home)
  BY PagesAssumption DEF Plausible
<1>2. r.rest \in IdRests /\ ~Is("order") => (who = "reader" => Fair(r))
  BY FairKind DEF KindsAt, Is
<1>3. Is("order") => doc.kind \in Shows("order") /\ doc.kind \in Shows("edit order")
  BY DEF Is, Shows
<1>4. /\ r.p = Home => Place("order", r.p, "-") /\ Place("edit order", r.p, "-") /\ InPlace(r.p, doc)
      /\ Advanced("order", doc) /\ Advanced("edit order", doc)
      /\ {"order", "edit order"} \cap SplitPages = {} /\ {"order", "edit order"} \subseteq DocPages
  BY <1>1 DEF Place, ProjectPages, AddressPages, ImportPages, InPlace, Advanced, SplitPages, DocPages
<1>5. CASE HandlePOList(who, r)
  BY <1>1, <1>5, KeptLists DEF HandlePOList, On, ListPages, Asides
<1>6. CASE HandlePOCreate(who, r)
  BY <1>1, <1>6, KeptLists, KeptRefuses, FairGone DEF HandlePOCreate, On, ListPages, Asides, Found, Live
<1>7. CASE HandlePOSave(who, r)
  <2>1. CASE Keep /\ Reply(who, r, Content("new order", r.p, doc))
    <3>1. ~Asides(r)
      BY <1>1, <1>7 DEF HandlePOSave, On, Asides
    <3> QED
      BY <1>1, <2>1, <3>1, KeptLists DEF ListPages
  <2>2. CASE Creates(r) /\ Becomes(Doc("order", "draft", 0)) /\ Reply(who, r, GoTo("po", "/id/edit", r.p))
    BY <1>1, <2>2, BecomesLeads DEF Creates, Documents, Splittable, Goes
  <2>3. CASE Becomes(Doc("vendor", "ordered", 0)) /\ Reply(who, r, Stay)
    BY <2>3, BecomesOK, Rests DEF Documents, Doc, Splittable, Unborn
  <2> QED
    BY <1>7, <2>1, <2>2, <2>3 DEF HandlePOSave
<1>8. CASE HandlePOView(who, r)
  <2>1. r.rest \in IdRests /\ ~Asides(r)
    BY <1>1, <1>8 DEF HandlePOView, On, Asides
  <2>2. CASE Is("order")
    BY <1>1, <1>3, <1>4, <1>8, <2>1, <2>2, KeptShows DEF HandlePOView, Found
  <2>3. CASE ~Is("order")
    BY <1>2, <1>8, <2>1, <2>3, KeptRefuses DEF HandlePOView, Found
  <2> QED
    BY <2>2, <2>3
<1>9. CASE HandlePOEdit(who, r)
  <2>1. r.rest \in IdRests /\ ~Asides(r)
    BY <1>1, <1>9 DEF HandlePOEdit, On, Asides
  <2>2. CASE Is("order")
    BY <1>1, <1>3, <1>4, <1>9, <2>1, <2>2, KeptShows DEF HandlePOEdit, Found
  <2>3. CASE ~Is("order")
    BY <1>2, <1>9, <2>1, <2>3, KeptRefuses DEF HandlePOEdit, Found
  <2> QED
    BY <2>2, <2>3
<1>10. CASE HandlePOUpdate(who, r)
  <2>1. r.rest \in IdRests /\ ~Asides(r)
    BY <1>1, <1>10 DEF HandlePOUpdate, On, Asides
  <2>2. CASE ~Is("order") /\ Keep /\ Reply(who, r, Refused)
    BY <1>2, <2>1, <2>2, KeptRefuses
  <2>3. CASE Is("order") /\ Keep /\ Reply(who, r, Content("edit order", r.p, doc))
    BY <1>1, <1>3, <1>4, <2>1, <2>3, KeptShows
  <2>4. CASE /\ Is("order")
             /\ \E st \in validTransitions[doc.st] : Becomes([doc EXCEPT !.st = st])
             /\ Reply(who, r, GoTo("po", "/id/edit", r.p))
    <3>1. PICK st \in validTransitions[doc.st] : Becomes([doc EXCEPT !.st = st])
      BY <2>4
    <3>2. PICK n \in 0..1, old \in {"draft", "sent", "cancelled"} : doc = Doc("order", old, n)
      BY <2>4, DocKinds DEF Is, TabOK, TypeOK
    <3>3. st \in {"draft", "sent", "cancelled"}
      BY <3>1, <3>2 DEF Doc, validTransitions
    <3>4. [doc EXCEPT !.st = st] = Doc("order", st, n)
      BY <3>2 DEF Doc
    <3>5. Doc("order", st, n) \in Documents /\ Splittable(Doc("order", st, n))
      BY <3>2, <3>3 DEF Documents, Doc, Unborn, Splittable
    <3> QED
      BY <1>1, <2>1, <2>4, <3>1, <3>4, <3>5, BecomesLeads DEF Goes
  <2> QED
    BY <1>10, <2>2, <2>3, <2>4 DEF HandlePOUpdate
<1>11. CASE HandlePODelete(who, r)
  <2>1. r.rest \in IdRests /\ r.verb = "DELETE" /\ r.rest = "/id"
    BY <1>11 DEF HandlePODelete, On
  <2>2. CASE Is("order") /\ doc.st \in {"draft", "cancelled"}
    <3>1. Becomes(Gone) /\ Reply(who, r, GoTo("po", "-", r.p))
      BY <1>11, <2>2 DEF HandlePODelete, Found
    <3> QED
      BY <1>1, <3>1, GoneOK, BecomesLeads DEF Goes
  <2>3. CASE ~(Is("order") /\ doc.st \in {"draft", "cancelled"})
    <3>1. PICK d : d = doc /\ d \in Documents
      BY DEF TabOK, TypeOK
    <3>2. Becomes(d) /\ Reply(who, r, Refused)
      BY <1>11, <2>3, <3>1 DEF HandlePODelete, Found
    <3>3. who = "reader" => Fair(r)
      BY <1>2, <2>1, <2>3, FreshIs DEF Fair, Warranted
    <3> QED
      BY <3>1, <3>2, <3>3, BecomesOK, Refuses
  <2> QED
    BY <2>2, <2>3
<1>12. ASSUME who = "reader", r.rest \in LineRests \cup {"/id/boq-picker"}, r.verb # "GET" \/ r.rest = "/id/boq-picker"
       PROVE  /\ tab.page = "edit order" /\ tab.p = Home /\ Place("edit order", tab.p, tab.type)
              /\ InPlace(tab.p, tab.seen) /\ tab.seen.kind = "order"
              /\ r.into = IF r.rest \in LineRests THEN "lines" ELSE "picker"
  <2>1. tab.wait = Nothing
    BY <1>12 DEF Sent, Awaited
  <2>2. tab.page = "edit order" /\ r.into = IF r.rest \in LineRests THEN "lines" ELSE "picker"
    BY <1>12, <2>1 DEF Sent, OfferOK, Fits
  <2>3. PageOK("edit order", tab.p, tab.type, tab.seen)
    BY <2>2 DEF TabOK
  <2>4. tab.p \in Projects /\ tab.seen # Unborn
    BY <2>3 DEF PageOK, OpenPages, RootPages, DocPages
  <2>5. tab.p = Home /\ tab.seen.kind = "order"
    BY <2>3, <2>4, PagesAssumption DEF PageOK, Shows
  <2> QED
    BY <2>2, <2>4, <2>5 DEF Place, ProjectPages, AddressPages, ImportPages, InPlace
<1>13. ASSUME r.rest \in LineRests, r.verb # "GET", Is("order"), NEW n \in 0..1,
              Becomes([doc EXCEPT !.rows = n]),
              Reply(who, r, Piece("lines", tab.page, tab.p, [doc EXCEPT !.rows = n]))
       PROVE  StateOK /\ Answered(who, r)
  <2>1. PICK d, page, p : d = [doc EXCEPT !.rows = n] /\ page = tab.page /\ p = tab.p
    OBVIOUS
  <2>2. PICK m \in 0..1, st \in {"draft", "sent", "cancelled"} : doc = Doc("order", st, m)
    BY <1>13, DocKinds DEF Is, TabOK, TypeOK
  <2>3. d = Doc("order", st, n)
    BY <2>1, <2>2 DEF Doc
  <2>4. d \in Documents /\ Splittable(d) /\ d.kind = "order"
    BY <2>2, <2>3 DEF Documents, Doc, Unborn, Splittable
  <2>5. StateOK
    BY <1>13, <2>1, <2>4, BecomesOK
  <2>6. ASSUME who = "reader"
        PROVE  /\ r.into = "lines" /\ p \in {r.p, tab.p} /\ Place(page, p, tab.type)
               /\ page \in DocPages => d.kind \in Shows(page) /\ InPlace(p, d)
               /\ page \notin SplitPages /\ Advanced(page, d)
    <3>1. /\ page = "edit order" /\ p = Home /\ r.into = "lines"
          /\ Place(page, p, tab.type) /\ p = tab.p
      BY <1>12, <1>13, <2>1, <2>6
    <3>2. d.kind \in Shows("edit order")
      BY <2>4 DEF Shows
    <3> QED
      BY <2>4, <3>1, <3>2 DEF InPlace, SplitPages, Advanced
  <2> QED
    BY <1>1, <1>13, <2>1, <2>4, <2>5, <2>6, Replaces DEF Slots
<1>14. ASSUME r.rest \in LineRests, ~(Is("order") /\ (r.rest = "/id/line-items/item" => doc.rows = 1)),
              Keep, Reply(who, r, Refused)
       PROVE  StateOK /\ Answered(who, r)
  <2>1. who = "reader" => Fair(r)
    BY <1>2, <1>14, FreshIs DEF Fair, Warranted
  <2> QED
    BY <1>14, <2>1, KeptRefuses
<1>15. CASE HandlePOAddLineItem(who, r)
  BY <1>13, <1>14, <1>15 DEF HandlePOAddLineItem, On, EditLines
<1>16. CASE HandlePOAddLineItemFromBOQ(who, r)
  BY <1>13, <1>14, <1>16, KeptRests DEF HandlePOAddLineItemFromBOQ, On, EditLines
<1>17. CASE HandlePOUpdateLineItem(who, r)
  BY <1>13, <1>14, <1>17 DEF HandlePOUpdateLineItem, On, EditLines
<1>18. CASE HandlePODeleteLineItem(who, r)
  BY <1>13, <1>14, <1>18 DEF HandlePODeleteLineItem, On, EditLines
<1>19. CASE HandlePOBOQPicker(who, r)
  <2>1. PICK d, page, p : d = tab.seen /\ page = tab.page /\ p = tab.p /\ d \in Documents
    BY DEF TabOK, TypeOK
  <2>2. /\ Keep /\ r.rest = "/id/boq-picker"
        /\ Reply(who, r, Piece("picker", page, p, d))
    BY <1>19, <2>1 DEF HandlePOBOQPicker, On
  <2>3. ASSUME who = "reader"
        PROVE  /\ r.into = "picker" /\ p \in {r.p, tab.p} /\ Place(page, p, tab.type)
               /\ page \in DocPages => d.kind \in Shows(page) /\ InPlace(p, d)
               /\ page \notin SplitPages /\ Advanced(page, d)
    BY <1>12, <2>1, <2>2, <2>3 DEF Shows, InPlace, SplitPages, Advanced
  <2> QED
    BY <1>1, <2>1, <2>2, <2>3, Replaces, KeepOK DEF Slots
<1> QED
  BY <1>5, <1>6, <1>7, <1>8, <1>9, <1>10, <1>11, <1>15, <1>16, <1>17, <1>18, <1>19 DEF ServePO

\* Vendors: the toggle comes only from the list of a project.
LEMMA VendorsServed ==
  ASSUME TabOK, NEW who, NEW r, Plausible(r), who = "reader" => Sent(r), r.at = "vendors",
         ServeVendors(who, r)
  PROVE  StateOK /\ Answered(who, r)
<1>1. r.p \in Projects \cup {Nothing} /\ ~Switches(r) /\ Home \in Projects /\ Home # Nothing
  BY PagesAssumption DEF Plausible
<1>2. r.rest \in IdRests /\ ~Is("vendor") => (who = "reader" => Fair(r))
  BY FairKind DEF KindsAt, Is
<1>3. Is("vendor") => doc.kind \in Shows("edit vendor") /\ InPlace(Nothing, doc)
  BY DEF Is, Shows, InPlace
<1>4. /\ Place("edit vendor", Nothing, "-") /\ Advanced("edit vendor", doc)
      /\ "edit vendor" \notin SplitPages /\ "edit vendor" \in DocPages
  BY DEF Place, RootPages, AddressPages, ImportPages, Advanced, SplitPages, DocPages
<1>5. CASE HandleVendorList(who, r)
  BY <1>1, <1>5, KeptLists DEF HandleVendorList, On, ListPages, OpenPages, Asides, Excused
<1>6. CASE HandleVendorCreate(who, r)
  BY <1>1, <1>6, KeptLists DEF HandleVendorCreate, On, ListPages, OpenPages, Asides, Excused
<1>7. CASE HandleVendorSave(who, r)
  <2>1. CASE Keep /\ Reply(who, r, Content("new vendor", r.p, doc))
    <3>1. ~Asides(r) \/ Excused(r)
      BY <1>1, <1>7 DEF HandleVendorSave, On, Asides, Excused
    <3> QED
      BY <1>1, <2>1, <3>1, KeptLists DEF ListPages, OpenPages
  <2>2. CASE /\ doc = Unborn
             /\ Becomes(Doc("vendor", IF r.p = Home THEN "linked" ELSE "unlinked", 0))
             /\ Reply(who, r, GoTo("vendors", "-", r.p))
    <3>1. PICK d : d = Doc("vendor", IF r.p = Home THEN "linked" ELSE "unlinked", 0)
      OBVIOUS
    <3>2. d \in Documents
      BY <3>1 DEF Documents
    <3> QED
      BY <1>1, <2>2, <3>1, <3>2, BecomesLeads DEF Splittable, Goes
  <2> QED
    BY <1>7, <2>1, <2>2 DEF HandleVendorSave
<1>8. CASE HandleVendorEdit(who, r)
  <2>1. r.rest \in IdRests /\ (~Asides(r) \/ Excused(r))
    BY <1>1, <1>8 DEF HandleVendorEdit, On, Asides, Excused
  <2>2. CASE Is("vendor")
    BY <1>1, <1>3, <1>4, <1>8, <2>1, <2>2, KeptShows DEF HandleVendorEdit, Found
  <2>3. CASE ~Is("vendor")
    BY <1>2, <1>8, <2>1, <2>3, KeptRefuses DEF HandleVendorEdit, Found
  <2> QED
    BY <2>2, <2>3
<1>9. CASE HandleVendorUpdate(who, r)
  <2>1. r.rest \in IdRests /\ (~Asides(r) \/ Excused(r))
    BY <1>1, <1>9 DEF HandleVendorUpdate, On, Asides, Excused
  <2>2. CASE Is("vendor") /\ Keep /\ Reply(who, r, Content("edit vendor", Nothing, doc))
    BY <1>1, <1>3, <1>4, <2>1, <2>2, KeptShows
  <2>3. CASE Keep /\ Reply(who, r, GoTo("vendors", "-", Nothing))
    BY <2>3, KeptLeads DEF Goes
  <2>4. CASE ~Is("vendor")
    BY <1>2, <1>9, <2>1, <2>4, KeptRefuses DEF HandleVendorUpdate, Found
  <2> QED
    BY <1>9, <2>2, <2>3, <2>4 DEF HandleVendorUpdate, Found
<1>10. CASE HandleVendorDelete(who, r)
  <2>1. r.rest \in IdRests /\ r.verb = "DELETE"
    BY <1>10 DEF HandleVendorDelete, On
  <2>2. CASE Is("vendor") /\ doc.st # "ordered"
    <3>1. Becomes(Gone) /\ Reply(who, r, GoTo("vendors", "-", Nothing))
      BY <1>10, <2>2 DEF HandleVendorDelete, Found
    <3> QED
      BY <1>1, <3>1, GoneOK, BecomesLeads DEF Goes
  <2>3. CASE ~(Is("vendor") /\ doc.st # "ordered")
    <3>1. PICK d : d = doc /\ d \in Documents
      BY DEF TabOK, TypeOK
    <3>2. Becomes(d) /\ Reply(who, r, Refused)
      BY <1>10, <2>3, <3>1 DEF HandleVendorDelete, Found
    <3>3. who = "reader" => Fair(r)
      BY <1>2, <2>1, <2>3 DEF Fair, Refusable
    <3> QED
      BY <3>1, <3>2, <3>3, BecomesOK, Refuses
  <2> QED
    BY <2>2, <2>3
<1>11. ASSUME NEW st \in {"unlinked", "linked", "ordered"}, Is("vendor"), r.rest = "/id/link",
              Becomes([doc EXCEPT !.st = st]),
              Reply(who, r, Piece("toggle", tab.page, tab.p, [doc EXCEPT !.st = st]))
       PROVE  StateOK /\ Answered(who, r)
  <2>1. PICK d, page, p : d = [doc EXCEPT !.st = st] /\ page = tab.page /\ p = tab.p
    OBVIOUS
  <2>2. PICK old \in {"unlinked", "linked", "ordered"} : doc = Doc("vendor", old, 0)
    BY <1>11, DocKinds DEF Is, TabOK, TypeOK
  <2>3. d = Doc("vendor", st, 0)
    BY <2>1, <2>2 DEF Doc
  <2>4. d \in Documents /\ Splittable(d)
    BY <2>2, <2>3 DEF Documents, Doc, Unborn, Splittable
  <2>5. StateOK
    BY <1>11, <2>1, <2>4, BecomesOK
  <2>6. ASSUME who = "reader"
        PROVE  /\ r.into = "toggle" /\ p \in {r.p, tab.p} /\ Place(page, p, tab.type)
               /\ page \in DocPages => d.kind \in Shows(page) /\ InPlace(p, d)
               /\ page \notin SplitPages /\ Advanced(page, d)
    <3>1. tab.wait = Nothing
      BY <1>11, <2>6 DEF Sent, Awaited
    <3>2. page = "vendors" /\ r.into = "toggle" /\ p = tab.p
      BY <1>1, <1>11, <2>1, <2>6, <3>1 DEF Sent, OfferOK, Fits
    <3>3. p \in Projects \cup {Nothing}
      BY <2>1 DEF TabOK, TypeOK
    <3> QED
      BY <3>2, <3>3 DEF Place, OpenPages, AddressPages, ImportPages, DocPages, SplitPages, Advanced
  <2> QED
    BY <1>1, <1>11, <2>1, <2>4, <2>5, <2>6, Replaces DEF Slots
<1>12. CASE HandleVendorLink(who, r)
  <2>1. r.rest = "/id/link" /\ r.rest \in IdRests
    BY <1>12 DEF HandleVendorLink, On
  <2>2. PICK st : st = IF doc.st = "ordered" THEN "ordered" ELSE "linked"
    OBVIOUS
  <2>3. CASE Live(r) /\ Is("vendor")
    <3>1. /\ Becomes([doc EXCEPT !.st = st])
          /\ Reply(who, r, Piece("toggle", tab.page, tab.p, [doc EXCEPT !.st = st]))
      BY <1>12, <2>2, <2>3 DEF HandleVendorLink, Linked
    <3> QED
      BY <1>11, <2>1, <2>2, <2>3, <3>1
  <2>4. CASE ~(Live(r) /\ Is("vendor"))
    <3>1. Keep /\ Reply(who, r, Refused)
      BY <1>12, <2>4 DEF HandleVendorLink, Linked
    <3>2. who = "reader" => Fair(r)
      <4>1. CASE ~Is("vendor")
        BY <1>2, <2>1, <4>1
      <4>2. CASE ~Live(r)
        <5>1. who = "reader" => r.p # Nothing \/ tab.wait # Nothing
          BY <1>1, <2>1 DEF Sent, OfferOK, Fits
        <5> QED
          BY <4>2, <5>1, FreshIs DEF Fair, Live
      <4> QED
        BY <2>4, <4>1, <4>2
    <3> QED
      BY <3>1, <3>2, KeptRefuses
  <2> QED
    BY <2>3, <2>4
<1>13. CASE HandleVendorUnlink(who, r)
  <2>1. r.rest = "/id/link" /\ r.rest \in IdRests /\ r.verb = "DELETE"
    BY <1>13 DEF HandleVendorUnlink, On
  <2>2. CASE Is("vendor") /\ doc.st # "ordered"
    BY <1>11, <1>13, <2>1, <2>2 DEF HandleVendorUnlink, Linked
  <2>3. CASE ~(Is("vendor") /\ doc.st # "ordered")
    <3>1. Keep /\ Reply(who, r, Refused)
      BY <1>13, <2>3 DEF HandleVendorUnlink, Linked
    <3>2. who = "reader" => Fair(r)
      BY <1>2, <2>1, <2>3 DEF Fair, Refusable
    <3> QED
      BY <3>1, <3>2, KeptRefuses
  <2> QED
    BY <2>2, <2>3
<1> QED
  BY <1>5, <1>6, <1>7, <1>8, <1>9, <1>10, <1>12, <1>13 DEF ServeVendors

\* Transporters and their vehicles.
LEMMA TransportersServed ==
  ASSUME TabOK, NEW who, NEW r, Plausible(r), who = "reader" => Sent(r), r.at = "transporters",
         ServeTransporters(who, r)
  PROVE  StateOK /\ Answered(who, r)
<1>1. /\ r.p \in Projects /\ ~Switches(r) /\ Home \in Projects
      /\ (r.rest \in IdRests => r.p = Home) /\ ~Excused(r)
  BY PagesAssumption DEF Plausible, RootAts, Switches, Excused
<1>2. r.rest \in IdRests /\ ~Is("transporter") => (who = "reader" => Fair(r))
  BY FairKind DEF KindsAt, Is
<1>3. Is("transporter") => /\ doc.kind \in Shows("transporter")
                           /\ doc.kind \in Shows("edit transporter")
  BY DEF Is, Shows
<1>4. /\ r.p = Home => /\ Place("transporter", r.p, "-") /\ Place("edit transporter", r.p, "-")
                       /\ InPlace(r.p, doc)
      /\ Advanced("transporter", doc) /\ Advanced("edit transporter", doc)
      /\ {"transporter", "edit transporter"} \cap SplitPages = {}
      /\ {"transporter", "edit transporter"} \subseteq DocPages
  BY <1>1 DEF Place, ProjectPages, AddressPages, ImportPages, InPlace, Advanced, SplitPages, DocPages
<1>5. CASE HandleTransporterList(who, r)
  BY <1>1, <1>5, KeptLists DEF HandleTransporterList, On, ListPages, Asides
<1>6. CASE HandleTransporterCreate(who, r)
  BY <1>1, <1>6, KeptLists DEF HandleTransporterCreate, On, ListPages, Asides
<1>7. CASE HandleTransporterSave(who, r)
  <2>1. CASE Keep /\ Reply(who, r, Content("new transporter", r.p, doc))
    <3>1. ~Asides(r)
      BY <1>1, <1>7 DEF HandleTransporterSave, On, Asides
    <3> QED
      BY <1>1, <2>1, <3>1, KeptLists DEF ListPages
  <2>2. CASE /\ Creates(r) /\ Becomes(Doc("transporter", "-", 0))
             /\ Reply(who, r, GoTo("transporters", "/id", r.p))
    BY <1>1, <2>2, BecomesLeads DEF Creates, Documents, Splittable, Goes
  <2> QED
    BY <1>7, <2>1, <2>2 DEF HandleTransporterSave
<1>8. CASE HandleTransporterDetail(who, r)
  <2>1. r.rest \in IdRests /\ ~Asides(r)
    BY <1>1, <1>8 DEF HandleTransporterDetail, On, Asides
  <2>2. CASE Is("transporter")
    BY <1>1, <1>3, <1>4, <1>8, <2>1, <2>2, KeptShows DEF HandleTransporterDetail, Found
  <2>3. CASE ~Is("transporter")
    BY <1>2, <1>8, <2>1, <2>3, KeptRefuses DEF HandleTransporterDetail, Found
  <2> QED
    BY <2>2, <2>3
<1>9. CASE HandleTransporterEdit(who, r)
  <2>1. r.rest \in IdRests /\ ~Asides(r)
    BY <1>1, <1>9 DEF HandleTransporterEdit, On, Asides
  <2>2. CASE Is("transporter")
    BY <1>1, <1>3, <1>4, <1>9, <2>1, <2>2, KeptShows DEF HandleTransporterEdit, Found
  <2>3. CASE ~Is("transporter")
    BY <1>2, <1>9, <2>1, <2>3, KeptRefuses DEF HandleTransporterEdit, Found
  <2> QED
    BY <2>2, <2>3
<1>10. ASSUME r.p = Home, Keep, Reply(who, r, GoTo("transporters", "/id", r.p))
       PROVE  StateOK /\ Answered(who, r)
  BY <1>1, <1>10, KeptLeads DEF Goes
<1>11. CASE HandleTransporterUpdate(who, r)
  <2>1. r.rest \in IdRests /\ ~Asides(r)
    BY <1>1, <1>11 DEF HandleTransporterUpdate, On, Asides
  <2>2. CASE Is("transporter") /\ Keep /\ Reply(who, r, Content("edit transporter", r.p, doc))
    BY <1>1, <1>3, <1>4, <2>1, <2>2, KeptShows
  <2>3. CASE Is("transporter") /\ Keep /\ Reply(who, r, GoTo("transporters", "/id", r.p))
    BY <1>1, <1>10, <2>1, <2>3
  <2>4. CASE ~Is("transporter")
    BY <1>2, <1>11, <2>1, <2>4, KeptRefuses DEF HandleTransporterUpdate, Found
  <2> QED
    BY <1>11, <2>2, <2>3, <2>4 DEF HandleTransporterUpdate, Found
<1>12. CASE HandleTransporterToggle(who, r)
  <2>1. r.rest \in IdRests
    BY <1>12 DEF HandleTransporterToggle, On
  <2>2. CASE Is("transporter")
    BY <1>1, <1>10, <1>12, <2>1, <2>2 DEF HandleTransporterToggle, Found
  <2>3. CASE ~Is("transporter")
    BY <1>2, <1>12, <2>1, <2>3, KeptRefuses DEF HandleTransporterToggle, Found
  <2> QED
    BY <2>2, <2>3
<1>13. ASSUME Is("transporter"), NEW n \in 0..1
       PROVE  /\ [doc EXCEPT !.rows = n] \in Documents
              /\ Splittable([doc EXCEPT !.rows = n])
  <2>1. PICK m \in 0..1 : doc = Doc("transporter", "-", m)
    BY <1>13, DocKinds DEF Is, TabOK, TypeOK
  <2>2. [doc EXCEPT !.rows = n] = Doc("transporter", "-", n)
    BY <2>1 DEF Doc
  <2>3. Doc("transporter", "-", n) \in Documents /\ Splittable(Doc("transporter", "-", n))
    BY DEF Documents, Doc, Unborn, Splittable
  <2> QED
    BY <2>2, <2>3
<1>14. CASE HandleVehicleAdd(who, r)
  <2>1. r.rest \in IdRests
    BY <1>14 DEF HandleVehicleAdd, On
  <2>2. CASE Keep /\ Found(who, r, Is("transporter"), Complain)
    <3>1. CASE Is("transporter")
      BY <2>2, <3>1, KeptRests DEF Found
    <3>2. CASE ~Is("transporter")
      BY <1>2, <2>1, <2>2, <3>2, KeptRefuses DEF Found
    <3> QED
      BY <3>1, <3>2
  <2>3. CASE /\ Is("transporter") /\ Becomes([doc EXCEPT !.rows = 1])
             /\ Reply(who, r, GoTo("transporters", "/id", r.p))
    <3>1. PICK d : d = [doc EXCEPT !.rows = 1]
      OBVIOUS
    <3>2. d \in Documents /\ Splittable(d)
      BY <1>13, <2>3, <3>1
    <3> QED
      BY <1>1, <2>1, <2>3, <3>1, <3>2, BecomesLeads DEF Goes
  <2> QED
    BY <1>14, <2>2, <2>3 DEF HandleVehicleAdd
<1>15. CASE HandleVehicleDelete(who, r)
  <2>1. r.rest \in IdRests /\ r.rest = "/id/vehicles/vid"
    BY <1>15 DEF HandleVehicleDelete, On
  <2>2. CASE Is("transporter") /\ doc.rows = 1
    <3>1. PICK n \in 0..1 : Becomes([doc EXCEPT !.rows = n])
      BY <1>15, <2>2 DEF HandleVehicleDelete
    <3>2. PICK d : d = [doc EXCEPT !.rows = n]
      OBVIOUS
    <3>3. d \in Documents /\ Splittable(d) /\ Becomes(d)
      BY <1>13, <2>2, <3>1, <3>2
    <3>4. Reply(who, r, GoTo("transporters", "/id", r.p))
      BY <1>15, <2>2 DEF HandleVehicleDelete, Found
    <3> QED
      BY <1>1, <2>1, <3>3, <3>4, BecomesLeads DEF Goes
  <2>3. CASE ~(Is("transporter") /\ doc.rows = 1)
    <3>1. PICK d : d = doc /\ d \in Documents
      BY DEF TabOK, TypeOK
    <3>2. Becomes(d) /\ Reply(who, r, Refused)
      BY <1>15, <2>3, <3>1 DEF HandleVehicleDelete, Found
    <3>3. who = "reader" => Fair(r)
      BY <1>2, <2>1, <2>3, FreshIs DEF Fair, Warranted
    <3> QED
      BY <3>1, <3>2, <3>3, BecomesOK, Refuses
  <2> QED
    BY <2>2, <2>3
<1> QED
  BY <1>5, <1>6, <1>7, <1>8, <1>9, <1>11, <1>12, <1>14, <1>15 DEF ServeTransporters

\* Challan templates.
LEMMA TemplatesServed ==
  ASSUME TabOK, NEW who, NEW r, Plausible(r), who = "reader" => Sent(r), r.at = "dc-templates",
         ServeTemplates(who, r)
  PROVE  StateOK /\ Answered(who, r)
<1>1. /\ r.p \in Projects /\ ~Switches(r) /\ Home \in Projects
      /\ (r.rest \in IdRests => r.p = Home)
  BY PagesAssumption DEF Plausible, RootAts, Switches
<1>2. r.rest \in IdRests /\ ~Is("template") => (who = "reader" => Fair(r))
  BY FairKind DEF KindsAt, Is
<1>3. Is("template") => doc.kind \in Shows("edit template")
  BY DEF Is, Shows
<1>4. /\ r.p = Home => Place("edit template", r.p, "-") /\ InPlace(r.p, doc)
      /\ Advanced("edit template", doc)
      /\ "edit template" \notin SplitPages /\ "edit template" \in DocPages
  BY <1>1 DEF Place, ProjectPages, AddressPages, ImportPages, InPlace, Advanced, SplitPages, DocPages
<1>5. CASE HandleDCTemplateList(who, r)
  BY <1>1, <1>5, KeptLists DEF HandleDCTemplateList, On, ListPages, Asides
<1>6. CASE HandleDCTemplateCreate(who, r)
  BY <1>1, <1>6, KeptLists DEF HandleDCTemplateCreate, On, ListPages, Asides
<1>7. ASSUME Keep, Reply(who, r, GoTo("dc-templates", "/", r.p))
      PROVE  StateOK /\ Answered(who, r)
  BY <1>1, <1>7, KeptLeads DEF Goes
<1>8. CASE HandleDCTemplateSave(who, r)
  <2>1. CASE Keep /\ Reply(who, r, Content("new template", r.p, doc))
    <3>1. ~Asides(r)
      BY <1>1, <1>8 DEF HandleDCTemplateSave, On, Asides
    <3> QED
      BY <1>1, <2>1, <3>1, KeptLists DEF ListPages
  <2>2. CASE /\ Creates(r) /\ Becomes(Doc("template", "-", 0))
             /\ Reply(who, r, GoTo("dc-templates", "/", r.p))
    BY <1>1, <2>2, BecomesLeads DEF Creates, Documents, Splittable, Goes
  <2> QED
    BY <1>8, <2>1, <2>2 DEF HandleDCTemplateSave
<1>9. CASE HandleDCTemplateEdit(who, r)
  <2>1. r.rest \in IdRests /\ ~Asides(r)
    BY <1>1, <1>9 DEF HandleDCTemplateEdit, On, Asides
  <2>2. CASE Is("template")
    BY <1>1, <1>3, <1>4, <1>9, <2>1, <2>2, KeptShows DEF HandleDCTemplateEdit, Found
  <2>3. CASE ~Is("template")
    BY <1>2, <1>9, <2>1, <2>3, KeptRefuses DEF HandleDCTemplateEdit, Found
  <2> QED
    BY <2>2, <2>3
<1>10. CASE HandleDCTemplateUpdate(who, r)
  <2>1. r.rest \in IdRests /\ ~Asides(r)
    BY <1>1, <1>10 DEF HandleDCTemplateUpdate, On, Asides
  <2>2. CASE Is("template") /\ Keep /\ Reply(who, r, Content("edit template", r.p, doc))
    BY <1>1, <1>3, <1>4, <2>1, <2>2, KeptShows
  <2>3. CASE Keep /\ Reply(who, r, GoTo("dc-templates", "/", r.p))
    BY <1>7, <2>3
  <2>4. CASE ~Is("template")
    BY <1>2, <1>10, <2>1, <2>4, KeptRefuses DEF HandleDCTemplateUpdate, Found
  <2> QED
    BY <1>10, <2>2, <2>3, <2>4 DEF HandleDCTemplateUpdate, Found
<1>11. CASE HandleDCTemplateDelete(who, r)
  <2>1. r.rest \in IdRests
    BY <1>11 DEF HandleDCTemplateDelete, On
  <2>2. CASE Is("template")
    <3>1. Becomes(Gone) /\ Reply(who, r, GoTo("dc-templates", "/", r.p))
      BY <1>11, <2>2 DEF HandleDCTemplateDelete, Found
    <3> QED
      BY <1>1, <3>1, GoneOK, BecomesLeads DEF Goes
  <2>3. CASE ~Is("template")
    <3>1. PICK d : d = doc /\ d \in Documents
      BY DEF TabOK, TypeOK
    <3>2. Becomes(d) /\ Reply(who, r, Refused)
      BY <1>11, <2>3, <3>1 DEF HandleDCTemplateDelete, Found
    <3> QED
      BY <1>2, <2>1, <2>3, <3>1, <3>2, BecomesOK, Refuses
  <2> QED
    BY <2>2, <2>3
<1>12. CASE HandleDCTemplateDuplicate(who, r)
  <2>1. r.rest \in IdRests
    BY <1>12 DEF HandleDCTemplateDuplicate, On
  <2>2. CASE Is("template")
    BY <1>7, <1>12, <2>2 DEF HandleDCTemplateDuplicate, Found
  <2>3. CASE ~Is("template")
    BY <1>2, <1>12, <2>1, <2>3, KeptRefuses DEF HandleDCTemplateDuplicate, Found
  <2> QED
    BY <2>2, <2>3
<1> QED
  BY <1>5, <1>6, <1>8, <1>9, <1>10, <1>11, <1>12 DEF ServeTemplates

-----------------------------------------------------------------------------
(* Addresses: the handlers read the type from the path.                      *)
LEMMA OutOfRoutes ==
  ASSUME NEW R, NEW at, NEW v, NEW at2, NEW rest, <<v, at2, rest>> \in Routes(R, at)
  PROVE  at2 = at /\ \E q \in R : q[1] = v /\ q[2] = rest
<1>1. PICK q \in R : <<v, at2, rest>> = <<q[1], at, q[2]>>
  BY DEF Routes
<1> QED
  BY <1>1

\* The lists and forms are registered under slugs only.
LEMMA TypedOnly ==
  ASSUME NEW r, r.p # Nothing, r.at = "addresses", Routed(r),
         r.rest \in {"-", "/new", "/id/edit"}
  PROVE  r.type \in RegisteredSlugs
<1>1. PICK v, at, rest : v = r.verb /\ at = r.at /\ rest = r.rest
  OBVIOUS
<1>2. <<v, at, rest>> \notin ProjectRoutes.scoped
  BY <1>1, OutOfRoutes DEF ProjectRoutes
<1>3. <<v, at, rest>> \notin VendorRoutes.scoped
  BY <1>1, OutOfRoutes DEF VendorRoutes
<1>4. <<v, at, rest>> \notin BOQRoutes
  BY <1>1, OutOfRoutes DEF BOQRoutes
<1>5. <<v, at, rest>> \notin PORoutes
  BY <1>1, OutOfRoutes DEF PORoutes
<1>6. <<v, at, rest>> \notin DCTemplateRoutes
  BY <1>1, OutOfRoutes DEF DCTemplateRoutes
<1>7. <<v, at, rest>> \notin TransporterRoutes
  BY <1>1, OutOfRoutes DEF TransporterRoutes
<1>8. <<v, at, rest>> \notin DCRoutes
  BY <1>1, OutOfRoutes DEF DCRoutes
<1>9. <<v, at, rest>> \notin SplitRoutes
  BY <1>1, OutOfRoutes DEF SplitRoutes
<1>10. <<v, at, rest>> \notin GroupRoutes
  BY <1>1, OutOfRoutes DEF GroupRoutes
<1>11. <<v, at, rest>> \notin AnyAddressRoutes
  <2> SUFFICES ASSUME <<v, at, rest>> \in AnyAddressRoutes PROVE FALSE
    OBVIOUS
  <2> DEFINE R == {<<"GET", "/template">>, <<"GET", "/import">>, <<"POST", "/import">>,
                   <<"POST", "/import/commit">>, <<"POST", "/import/errors">>,
                   <<"GET", "/export">>, <<"DELETE", "/bulk">>,
                   <<"GET", "/id/delete-info">>, <<"DELETE", "/id">>}
  <2>1. <<v, at, rest>> \in Routes(R, "addresses")
    BY DEF AnyAddressRoutes
  <2>2. PICK q \in R : q[2] = rest
    <3> HIDE DEF R
    <3> QED
      BY <2>1, OutOfRoutes
  <2>3. q[2] \in {"/template", "/import", "/import/commit", "/import/errors", "/export",
                  "/bulk", "/id/delete-info", "/id"}
    OBVIOUS
  <2> QED
    BY <1>1, <2>2, <2>3
<1> QED
  BY <1>1, <1>2, <1>3, <1>4, <1>5, <1>6, <1>7, <1>8, <1>9, <1>10, <1>11 DEF Routed

\* The types and slugs the handlers understand.
LEMMA TypesNamed ==
  ASSUME NEW type, type \in AllTypes \/ type \in RegisteredSlugs
  PROVE  /\ TypeNamed(type) # {}
         /\ type \in AllTypes => (Importable(type) <=> type \in {"ship_to", "install_at"})
<1>1. TypeNamed(type) # {}
  <2>1. CASE type \in AllTypes
    <3>1. type \in TypeNamed(type)
      BY <2>1 DEF TypeNamed, AddressTypeDisplayLabels
    <3> QED
      BY <3>1
  <2>2. CASE type \in RegisteredSlugs
    <3>1. PICK t \in AllTypes : type = addressTypeToSlug[t]
      BY <2>2 DEF RegisteredSlugs
    <3>2. t # "dispatch_from"
      BY DEF AllTypes
    <3>3. t \in TypeNamed(type)
      BY <3>1, <3>2 DEF TypeNamed, AddressTypeDisplayLabels, Dashed
    <3> QED
      BY <3>3
  <2> QED
    BY <2>1, <2>2
<1>2. ASSUME type \in AllTypes
      PROVE  Importable(type) <=> type \in {"ship_to", "install_at"}
  BY <1>2 DEF Importable, slugToDBType, AllTypes
<1> QED
  BY <1>1, <1>2

\* A redirect to the list of the type.
LEMMA TypeLeads ==
  ASSUME NEW who, NEW r, NEW p, p \in Projects, p = r.p, r.at = "addresses",
         who = "reader" => \/ r.type \in RegisteredSlugs /\ TypeOfSlug(r.type) \in AddressTypes
                           \/ r.type = "dispatch-from",
         Reply(who, r, GoToType("-", p, r.type)),
         ActiveProjectMiddleware' = ActiveProjectMiddleware
  PROVE  Answered(who, r)
<1>1. PICK slug : slug = r.type
  OBVIOUS
<1>2. PICK to : to = [Send("GET", "addresses", "-", p, "page") EXCEPT !.type = slug]
  OBVIOUS
<1>3. /\ to.verb = "GET" /\ to.at = "addresses" /\ to.rest = "-" /\ to.p = p
      /\ to.type = slug /\ to.into = "page"
  BY <1>2 DEF Send
<1>4. PICK a : a = GoToType("-", p, slug)
  OBVIOUS
<1>5. a.kind = "goto" /\ a.to = to
  BY <1>2, <1>4, AnswerIs DEF GoToType
<1>6. who = "reader" => AnswerOK(r, a)
  <2> HAVE who = "reader"
  <2>1. \/ slug \in RegisteredSlugs /\ TypeOfSlug(slug) \in AddressTypes
        \/ slug = "dispatch-from" /\ slug \notin RegisteredSlugs
    BY <1>1, Dispatch
  <2>2. Plausible(to)
    BY <1>3, <2>1, PagesAssumption DEF Plausible
  <2>3. Routed(to) \/ DeadRedirect(to)
    BY <1>3, <2>1, TypedRouted DEF DeadRedirect, On
  <2>4. Awaited(to)
    BY <1>3, <2>2, <2>3, PagesAssumption DEF Awaited
  <2>5. LeadsOn(r, to)
    BY <1>3, <2>4 DEF LeadsOn, Kept, Switches
  <2> QED
    BY <1>5, <2>5 DEF AnswerOK
<1> QED
  BY <1>1, <1>4, <1>6 DEF Answered

\* A page of the type.
LEMMA TypedShows ==
  ASSUME TabOK, NEW who, NEW r, who = "reader" => Sent(r), NEW page, NEW p, NEW type,
         Reply(who, r, Typed(page, p, type)), ~Switches(r), ~Asides(r), p = r.p,
         page \in {"addresses", "new address", "edit address", "import"},
         who = "reader" => Place(page, p, type),
         page = "edit address" => doc.kind = "address" /\ p = Home
  PROVE  Answered(who, r)
<1>1. PICK d : d = doc /\ d \in Documents
  BY DEF TabOK, TypeOK
<1>2. page \in DocPages => d.kind \in Shows(page) /\ InPlace(p, d)
  BY <1>1 DEF DocPages, SplitPages, Shows, InPlace
<1>3. page \notin SplitPages /\ Advanced(page, d)
  BY DEF SplitPages, Advanced
<1>4. who = "reader" => AnswerOK(r, Typed(page, p, type))
  <2> HAVE who = "reader"
  <2>1. r.into \in {"page", "main"}
    BY SentIs
  <2>2. AnswerOK(r, Answer("content", page, p, type, d, Nothing))
    BY <1>1, <1>2, <1>3, <2>1, ShowOK
  <2> QED
    BY <1>1, <2>2 DEF Typed
<1> QED
  BY <1>4 DEF Answered

\* The address handlers; a type no handler knows is a dead link.
LEMMA AddressesServed ==
  ASSUME TabOK, NEW who, NEW r, Plausible(r), who = "reader" => Sent(r), r.at = "addresses",
         Routed(r), ServeAddresses(who, r)
  PROVE  StateOK /\ Answered(who, r)
<1>1. /\ r.p \in Projects /\ ~Switches(r) /\ Home \in Projects
      /\ (r.rest \in IdRests => r.p = Home) /\ Home # Nothing
      /\ r.p # Nothing
  BY PagesAssumption DEF Plausible
<1>2. r.rest \in IdRests /\ ~Is("address") => (who = "reader" => Fair(r))
  BY FairKind DEF KindsAt, Is
<1>3. ~Live(r) => (who = "reader" => Fair(r))
  BY <1>1, FairGone DEF Live
<1>4. PICK p, type : p = r.p /\ type = TypeOfSlug(r.type)
  OBVIOUS
<1>5. r.rest \in {"-", "/new", "/id/edit"}
      => /\ r.type \in RegisteredSlugs /\ type \in AddressTypes
         /\ \A page \in AddressPages : Place(page, p, type)
  <2> HAVE r.rest \in {"-", "/new", "/id/edit"}
  <2>1. r.type \in RegisteredSlugs
    BY <1>1, TypedOnly
  <2>2. type \in AddressTypes
    BY <1>4, <2>1 DEF Plausible
  <2> QED
    BY <1>1, <1>4, <2>1, <2>2 DEF Place, AddressPages, ProjectPages, ImportPages
<1>6. Visit(p) => StateOK
  BY <1>1, <1>4, VisitOK
<1>7. /\ "addresses" \in AddressPages /\ "new address" \in AddressPages
      /\ "edit address" \in AddressPages
  BY DEF AddressPages
<1>8. CASE HandleAddressList(who, r)
  <2>1. r.rest = "-" /\ ~Asides(r) /\ Visit(p)
    BY <1>1, <1>4, <1>8 DEF HandleAddressList, On, Asides
  <2>2. CASE Live(r)
    <3>1. Reply(who, r, Typed("addresses", p, type))
      BY <1>4, <1>8, <2>2 DEF HandleAddressList, Found
    <3> QED
      BY <1>1, <1>4, <1>5, <1>6, <1>7, <2>1, <3>1, TypedShows
  <2>3. CASE ~Live(r)
    <3>1. Reply(who, r, Refused)
      BY <1>8, <2>3 DEF HandleAddressList, Found
    <3> QED
      BY <1>3, <1>6, <2>1, <2>3, <3>1, Refuses
  <2> QED
    BY <2>2, <2>3
<1>9. CASE HandleAddressCreate(who, r)
  <2>1. r.rest = "/new" /\ ~Asides(r) /\ Visit(p)
    BY <1>1, <1>4, <1>9 DEF HandleAddressCreate, On, Asides
  <2>2. CASE Live(r)
    <3>1. Reply(who, r, Typed("new address", p, type))
      BY <1>4, <1>9, <2>2 DEF HandleAddressCreate, Found
    <3> QED
      BY <1>1, <1>4, <1>5, <1>6, <1>7, <2>1, <3>1, TypedShows
  <2>3. CASE ~Live(r)
    <3>1. Reply(who, r, Refused)
      BY <1>9, <2>3 DEF HandleAddressCreate, Found
    <3> QED
      BY <1>3, <1>6, <2>1, <2>3, <3>1, Refuses
  <2> QED
    BY <2>2, <2>3
<1>10. ASSUME r.rest \in {"/new", "/id/edit"}, Keep,
              Reply(who, r, GoToType("-", p, r.type))
       PROVE  StateOK /\ Answered(who, r)
  BY <1>1, <1>4, <1>5, <1>10, KeepOK, TypeLeads
<1>11. CASE HandleAddressSave(who, r)
  <2>1. r.rest = "/new" /\ Wholes(r)
    BY <1>11 DEF HandleAddressSave, On, Wholes
  <2>2. CASE Keep /\ Found(who, r, Live(r), Full("new address", p, type))
    <3>1. CASE Live(r)
      <4>1. Keep /\ Reply(who, r, Full("new address", p, type))
        BY <2>2, <3>1 DEF Found
      <4>2. Place("new address", p, type) /\ p \in {Nothing, r.p}
        BY <1>4, <1>5, <1>7, <2>1
      <4> QED
        BY <1>1, <2>1, <4>1, <4>2, KeptFull
    <3>2. CASE ~Live(r)
      BY <1>3, <2>2, <3>2, KeptRefuses DEF Found
    <3> QED
      BY <3>1, <3>2
  <2>3. CASE Becomes(Doc("address", type, 0)) /\ doc = Unborn /\ Reply(who, r, GoToType("-", p, r.type))
    <3>1. PICK d : d = Doc("address", type, 0)
      OBVIOUS
    <3>2. d \in Documents
      BY <1>5, <2>1, <3>1 DEF Documents
    <3>3. StateOK /\ ActiveProjectMiddleware' = ActiveProjectMiddleware
      BY <2>3, <3>1, <3>2, BecomesOK DEF Splittable
    <3> QED
      BY <1>1, <1>4, <1>5, <2>1, <2>3, <3>3, TypeLeads
  <2> QED
    BY <1>4, <1>11, <2>2, <2>3 DEF HandleAddressSave, Creates
<1>12. CASE HandleAddressEdit(who, r)
  <2>1. r.rest = "/id/edit" /\ ~Asides(r) /\ Visit(p) /\ r.rest \in IdRests
    BY <1>1, <1>4, <1>12 DEF HandleAddressEdit, On, Asides
  <2>2. CASE Live(r) /\ Is("address")
    <3>1. Reply(who, r, Typed("edit address", p, type))
      BY <1>4, <1>12, <2>2 DEF HandleAddressEdit, Found
    <3>2. doc.kind = "address" /\ p = Home /\ Place("edit address", p, type)
      BY <1>1, <1>4, <1>5, <1>7, <2>1, <2>2 DEF Is
    <3> QED
      BY <1>1, <1>4, <1>6, <2>1, <3>1, <3>2, TypedShows
  <2>3. CASE ~(Live(r) /\ Is("address"))
    <3>1. Reply(who, r, Refused)
      BY <1>12, <2>3 DEF HandleAddressEdit, Found
    <3> QED
      BY <1>2, <1>3, <1>6, <2>1, <2>3, <3>1, Refuses
  <2> QED
    BY <2>2, <2>3
<1>13. CASE HandleAddressUpdate(who, r)
  <2>1. r.rest = "/id/edit" /\ Wholes(r) /\ Keep /\ r.rest \in IdRests
    BY <1>13 DEF HandleAddressUpdate, On, Wholes
  <2>2. CASE Live(r) /\ Is("address")
    <3>1. CASE Reply(who, r, Full("edit address", p, type))
      <4>1. doc.kind = "address" /\ p = Home /\ Place("edit address", p, type) /\ p \in {Nothing, r.p}
        BY <1>1, <1>4, <1>5, <1>7, <2>1, <2>2 DEF Is
      <4> QED
        BY <1>1, <2>1, <3>1, <4>1, KeptFull
    <3>2. CASE Reply(who, r, GoToType("-", p, r.type))
      BY <1>10, <2>1, <3>2
    <3> QED
      BY <1>4, <1>13, <2>2, <3>1, <3>2 DEF HandleAddressUpdate, Found
  <2>3. CASE ~(Live(r) /\ Is("address"))
    <3>1. Reply(who, r, Refused)
      BY <1>13, <2>3 DEF HandleAddressUpdate, Found
    <3> QED
      BY <1>2, <1>3, <2>1, <2>3, <3>1, KeptRefuses
  <2> QED
    BY <2>2, <2>3
<1>14. ASSUME who = "reader", tab.wait = Nothing
       PROVE  /\ Warranted(r, tab.seen) /\ Fits(r, tab.page)
              /\ PageOK(tab.page, tab.p, tab.type, tab.seen)
  BY <1>14 DEF Sent, OfferOK, TabOK
<1>15. CASE HandleAddressDelete(who, r)
  <2>1. r.verb = "DELETE" /\ r.rest = "/id" /\ r.rest \in IdRests
    BY <1>15 DEF HandleAddressDelete, On
  <2>2. who = "reader" => \/ r.type = "dispatch-from"
                          \/ r.type \in RegisteredSlugs /\ type \in AddressTypes
    <3>1. who = "reader" => tab.wait = Nothing
      BY <2>1 DEF Sent, Awaited
    <3>2. who = "reader" => r.type = "dispatch-from" \/ r.type \in RegisteredSlugs
      BY <1>14, <2>1, <3>1 DEF Warranted
    <3> QED
      BY <1>4, <3>2 DEF Plausible
  <2>3. who = "reader" => TypeNamed(r.type) # {}
    <3>1. CASE r.type = "dispatch-from"
      BY <3>1 DEF TypeNamed, AddressTypeDisplayLabels, Dashed
    <3>2. CASE r.type \in RegisteredSlugs
      BY <3>2, TypesNamed
    <3> QED
      BY <2>2, <3>1, <3>2
  <2>4. CASE Is("address") /\ TypeNamed(r.type) # {}
    <3>1. Becomes(Gone) /\ Reply(who, r, GoToType("-", p, r.type))
      BY <1>4, <1>15, <2>4 DEF HandleAddressDelete, Found
    <3>2. StateOK /\ ActiveProjectMiddleware' = ActiveProjectMiddleware
      BY <3>1, GoneOK, BecomesOK
    <3> QED
      BY <1>1, <1>4, <2>2, <3>1, <3>2, TypeLeads
  <2>5. CASE ~(Is("address") /\ TypeNamed(r.type) # {})
    <3>1. PICK d : d = doc /\ d \in Documents
      BY DEF TabOK, TypeOK
    <3>2. Becomes(d) /\ Reply(who, r, Refused)
      BY <1>15, <2>5, <3>1 DEF HandleAddressDelete, Found
    <3>3. who = "reader" => Fair(r)
      BY <1>2, <2>1, <2>3, <2>5
    <3> QED
      BY <3>1, <3>2, <3>3, BecomesOK, Refuses
  <2> QED
    BY <2>4, <2>5
<1>16. CASE HandleAddressBulkDelete(who, r)
  <2>1. Fair(r)
    BY <1>16 DEF HandleAddressBulkDelete, On, Fair, Refusable
  <2> QED
    BY <1>16, <2>1, KeptRefuses DEF HandleAddressBulkDelete
<1>17. CASE HandleAddressDeleteInfo(who, r)
  BY <1>17, KeptRests DEF HandleAddressDeleteInfo
<1>18. CASE HandleAddressExportExcel(who, r)
  <2>1. r.rest = "/export"
    BY <1>18 DEF HandleAddressExportExcel, On
  <2>2. CASE TypeNamed(r.type) # {} /\ Live(r)
    BY <1>18, <2>2, KeptRests DEF HandleAddressExportExcel, Found
  <2>3. CASE ~(TypeNamed(r.type) # {} /\ Live(r))
    <3>1. who = "reader" /\ tab.wait = Nothing => TypeNamed(r.type) # {}
      BY <1>14, <2>1, TypesNamed DEF Warranted
    <3>2. who = "reader" => Fair(r)
      BY <1>3, <2>3, <3>1 DEF Fair
    <3> QED
      BY <1>18, <2>3, <3>2, KeptRefuses DEF HandleAddressExportExcel, Found
  <2> QED
    BY <2>2, <2>3
<1>19. CASE HandleAddressTemplateDownload(who, r)
  <2>1. r.rest = "/template"
    BY <1>19 DEF HandleAddressTemplateDownload, On
  <2>2. CASE r.type \in {"ship_to", "install_at"} /\ Live(r)
    BY <1>19, <2>2, KeptRests DEF HandleAddressTemplateDownload, Found
  <2>3. CASE ~(r.type \in {"ship_to", "install_at"} /\ Live(r))
    <3>1. who = "reader" /\ tab.wait = Nothing /\ Live(r) => ~Importable(r.type)
      BY <1>14, <2>1, <2>3, TypesNamed DEF Warranted
    <3>2. who = "reader" => Fair(r)
      BY <1>3, <2>1, <3>1 DEF Fair, Refusable
    <3> QED
      BY <1>19, <2>3, <3>2, KeptRefuses DEF HandleAddressTemplateDownload, Found
  <2> QED
    BY <2>2, <2>3
<1>20. CASE HandleAddressImportPage(who, r)
  <2>1. r.verb = "GET" /\ r.rest = "/import" /\ ~Asides(r) /\ Keep
    BY <1>1, <1>20 DEF HandleAddressImportPage, On, Asides
  <2>2. PICK slug : slug = r.type
    OBVIOUS
  <2>3. CASE Importable(r.type) /\ Live(r)
    <3>1. Reply(who, r, Typed("import", p, slug))
      BY <1>4, <1>20, <2>2, <2>3 DEF HandleAddressImportPage, Found
    <3>2. slug \in AddressTypes /\ slug \in AllTypes
      BY <2>1, <2>2, PagesAssumption DEF Plausible
    <3>3. slug \in {"ship_to", "install_at"}
      BY <2>2, <2>3, <3>2, TypesNamed
    <3>4. Place("import", p, slug)
      BY <1>1, <1>4, <3>2, <3>3 DEF Place, ProjectPages, AddressPages
    <3> QED
      BY <1>1, <1>4, <2>1, <3>1, <3>4, TypedShows, KeepOK
  <2>4. CASE ~(Importable(r.type) /\ Live(r))
    <3>1. who = "reader" => Fair(r)
      BY <1>3, <2>1, <2>4 DEF Fair, Refusable
    <3> QED
      BY <1>20, <2>4, <3>1, KeptRefuses DEF HandleAddressImportPage, Found
  <2> QED
    BY <2>3, <2>4
<1>21. ASSUME r.verb = "POST", r.rest \in {"/import", "/import/commit"}, Keep, NEW page,
              page \in {"import checked", "import done", "import failed"},
              Reply(who, r, Piece("results", page, r.p, doc))
       PROVE  StateOK /\ Answered(who, r)
  <2>1. PICK d : d = doc /\ d \in Documents
    BY DEF TabOK, TypeOK
  <2>2. Reply(who, r, Piece("results", page, p, d))
    BY <1>4, <1>21, <2>1
  <2>3. ASSUME who = "reader"
        PROVE  /\ r.into = "results" /\ ~Switches(r) /\ p \in {r.p, tab.p}
               /\ Place(page, p, tab.type)
               /\ page \in DocPages => d.kind \in Shows(page) /\ InPlace(p, d)
               /\ page \notin SplitPages /\ Advanced(page, d)
    <3>1. tab.wait = Nothing
      BY <1>21, <2>3 DEF Sent, Awaited
    <3>2. r.into = "results" /\ tab.page \in ImportPages
      BY <1>14, <1>21, <2>3, <3>1 DEF Fits
    <3>3. tab.type \in AddressTypes \cap {"ship_to", "install_at"}
      BY <1>14, <2>3, <3>1, <3>2 DEF PageOK
    <3>4. page \in ProjectPages /\ page \notin DocPages \cup SplitPages \cup AddressPages /\ page # "group"
      BY <1>21 DEF ProjectPages, DocPages, SplitPages, AddressPages
    <3> QED
      BY <1>1, <1>4, <3>2, <3>3, <3>4 DEF Place, Advanced
  <2>4. "results" \in Slots
    BY DEF Slots
  <2> QED
    BY <1>21, <2>1, <2>2, <2>3, <2>4, Replaces, KeepOK
<1>22. CASE HandleAddressValidate(who, r)
  <2>1. r.verb = "POST" /\ r.rest = "/import" /\ Keep
    BY <1>22 DEF HandleAddressValidate, On
  <2>2. CASE Reply(who, r, Complain)
    BY <2>1, <2>2, KeptRests
  <2>3. CASE Importable(r.type) /\ Reply(who, r, Piece("results", "import checked", r.p, doc))
    BY <1>21, <2>1, <2>3
  <2>4. CASE ~Importable(r.type) /\ Reply(who, r, Refused)
    <3>1. Fair(r)
      BY <2>1, <2>4 DEF Fair, Refusable
    <3> QED
      BY <2>1, <2>4, <3>1, KeptRefuses
  <2> QED
    BY <1>22, <2>2, <2>3, <2>4 DEF HandleAddressValidate, Found
<1>23. CASE HandleAddressErrorReport(who, r)
  BY <1>23, KeptRests DEF HandleAddressErrorReport
<1>24. CASE HandleAddressImportCommit(who, r)
  <2>1. r.verb = "POST" /\ r.rest = "/import/commit" /\ Keep
    BY <1>24 DEF HandleAddressImportCommit, On
  <2>2. CASE Importable(r.type) /\ Live(r)
    <3>1. PICK result \in {"import done", "import failed"} :
            Reply(who, r, Piece("results", result, r.p, doc))
      BY <1>24, <2>2 DEF HandleAddressImportCommit, Found
    <3> QED
      BY <1>21, <2>1, <3>1
  <2>3. CASE ~(Importable(r.type) /\ Live(r))
    <3>1. who = "reader" /\ tab.wait = Nothing => Importable(r.type)
      BY <1>14, <2>1 DEF Warranted
    <3>2. who = "reader" => Fair(r)
      BY <1>3, <2>3, <3>1 DEF Fair
    <3> QED
      BY <1>24, <2>3, <3>2, KeptRefuses DEF HandleAddressImportCommit, Found
  <2> QED
    BY <2>2, <2>3
<1> QED
  BY <1>8, <1>9, <1>11, <1>12, <1>13, <1>15, <1>16, <1>17, <1>18, <1>19, <1>20, <1>22,
     <1>23, <1>24 DEF ServeAddresses

-----------------------------------------------------------------------------
(* Challans, their splits and their groups.                                  *)
LEMMA Drafts ==
  ASSUME TabOK, doc.kind \in Challans, doc.st = "draft"
  PROVE  /\ [doc EXCEPT !.st = "issued"] \in Documents
         /\ Splittable([doc EXCEPT !.st = "issued"])
<1>1. PICK kind \in Challans : doc = Doc(kind, "draft", 0)
  <2>1. doc \in Documents /\ doc.kind \in {"transit", "transfer"}
    BY DEF TabOK, TypeOK, Challans
  <2>2. CASE doc.kind = "transit"
    <3>1. PICK st \in {"draft", "issued"} : doc = Doc("transit", st, 0)
      BY <2>1, <2>2, DocKinds
    <3>2. st = "draft"
      BY <3>1 DEF Doc
    <3> QED
      BY <3>1, <3>2 DEF Challans
  <2>3. CASE doc.kind = "transfer"
    <3>1. PICK st \in {"draft", "issued", "exhausted", "split"} : doc = Doc("transfer", st, 0)
      BY <2>1, <2>3, DocKinds
    <3>2. st = "draft"
      BY <3>1 DEF Doc
    <3> QED
      BY <3>1, <3>2 DEF Challans
  <2> QED
    BY <2>1, <2>2, <2>3
<1>2. [doc EXCEPT !.st = "issued"] = Doc(kind, "issued", 0)
  BY <1>1 DEF Doc
<1>3. Doc(kind, "issued", 0) \in Documents
  BY DEF Documents, Challans
<1>4. Splittable(Doc(kind, "issued", 0))
  BY DEF Doc, Unborn, Splittable
<1> QED
  BY <1>2, <1>3, <1>4

\* Issuing leads from a draft to an issued challan.
LEMMA IssuesOK ==
  ASSUME TabOK, NEW who, NEW r, who = "reader" => Sent(r), r.p = Home, ~Switches(r),
         NEW at, NEW rest, Goes(at, rest, Home),
         r.rest \in IdRests, NEW may, may \in BOOLEAN,
         may => doc.kind \in Challans /\ doc.st = "draft",
         ~may /\ who = "reader" => Fair(r),
         Issues(who, r, may, GoTo(at, rest, r.p))
  PROVE  StateOK /\ Answered(who, r)
<1>1. CASE Keep /\ Found(who, r, may, Complain)
  BY <1>1, KeptRests, KeptRefuses DEF Found
<1>2. CASE may /\ Becomes([doc EXCEPT !.st = "issued"]) /\ Reply(who, r, GoTo(at, rest, r.p))
  <2>1. PICK d : d = [doc EXCEPT !.st = "issued"]
    OBVIOUS
  <2>2. d \in Documents /\ Splittable(d)
    BY <1>2, <2>1, Drafts
  <2>3. PICK p : p = r.p
    OBVIOUS
  <2> QED
    BY <1>2, <2>1, <2>2, <2>3, BecomesLeads
<1> QED
  BY <1>1, <1>2 DEF Issues

\* Deleting leads back to the list.
LEMMA DeletesOK ==
  ASSUME TabOK, NEW who, NEW r, who = "reader" => Sent(r), r.p = Home, ~Switches(r),
         NEW may, may \in BOOLEAN, ~may /\ who = "reader" => Fair(r), Deletes(who, r, may)
  PROVE  StateOK /\ Answered(who, r)
<1>1. CASE may
  <2>1. PICK p : p = r.p
    OBVIOUS
  <2>2. Becomes(Gone) /\ Reply(who, r, GoTo("dcs", "/", p))
    BY <1>1, <2>1 DEF Deletes, Found
  <2>3. Goes("dcs", "/", p)
    BY <2>1, PagesAssumption DEF Goes
  <2> QED
    BY <2>1, <2>2, <2>3, GoneOK, BecomesLeads
<1>2. CASE ~may
  <2>1. PICK d : d = doc /\ d \in Documents
    BY DEF TabOK, TypeOK
  <2>2. Becomes(d) /\ Reply(who, r, Refused)
    BY <1>2, <2>1 DEF Deletes, Found
  <2> QED
    BY <1>2, <2>1, <2>2, BecomesOK, Refuses
<1> QED
  BY <1>1, <1>2

\* Challans: only a page showing a draft offers what needs one.
LEMMA DCsServed ==
  ASSUME TabOK, NEW who, NEW r, Plausible(r), who = "reader" => Sent(r), r.at = "dcs",
         ServeDCs(who, r)
  PROVE  StateOK /\ Answered(who, r)
<1>1. /\ r.p \in Projects /\ ~Switches(r) /\ Home \in Projects
      /\ (r.rest \in IdRests => r.p = Home)
  BY PagesAssumption DEF Plausible
<1>2. r.rest \in IdRests /\ ~Challan => (who = "reader" => Fair(r))
  BY FairKind DEF KindsAt, Challan
<1>3. Challan => doc.kind \in Shows("challan")
  BY DEF Challan, Shows
<1>4. /\ r.p = Home => Place("challan", r.p, "-") /\ InPlace(r.p, doc)
      /\ Advanced("challan", doc)
      /\ "challan" \notin SplitPages /\ "challan" \in DocPages
  BY <1>1 DEF Place, ProjectPages, AddressPages, ImportPages, InPlace, Advanced, SplitPages, DocPages
<1>5. CASE HandleDCList(who, r)
  BY <1>1, <1>5, KeptLists DEF HandleDCList, On, ListPages, Asides
<1>6. CASE HandleDCWizardStep1(who, r)
  BY <1>1, <1>6, KeptLists DEF HandleDCWizardStep1, On, ListPages, Asides
<1>7. ASSUME NEW rest \in {"/create/step2", "/create/step3", "/create/step4",
                  "/create/back-to-step1", "/create/back-to-step2", "/create/back-to-step3"},
             NEW pages \in SUBSET {"wizard 1", "wizard 2", "wizard 3", "wizard 4"},
             WizardStep(who, r, rest, pages)
      PROVE  StateOK /\ Answered(who, r)
  <2>1. PICK page \in pages : Keep /\ Reply(who, r, Content(page, r.p, doc))
    BY <1>7 DEF WizardStep
  <2>2. ~Asides(r)
    BY <1>1, <1>7 DEF WizardStep, On, Asides
  <2>3. page \in ListPages
    BY <1>7 DEF ListPages
  <2> QED
    BY <1>1, <2>1, <2>2, <2>3, KeptLists
<1>8. CASE HandleDCWizardStep2(who, r)
  <2>1. {"wizard 1", "wizard 2"} \in SUBSET {"wizard 1", "wizard 2", "wizard 3", "wizard 4"}
    OBVIOUS
  <2> QED
    BY <1>7, <1>8, <2>1 DEF HandleDCWizardStep2
<1>9. CASE HandleDCWizardStep3(who, r)
  <2>1. {"wizard 2", "wizard 3"} \in SUBSET {"wizard 1", "wizard 2", "wizard 3", "wizard 4"}
    OBVIOUS
  <2> QED
    BY <1>7, <1>9, <2>1 DEF HandleDCWizardStep3
<1>10. CASE HandleDCWizardStep4(who, r)
  <2>1. {"wizard 4"} \in SUBSET {"wizard 1", "wizard 2", "wizard 3", "wizard 4"}
    OBVIOUS
  <2> QED
    BY <1>7, <1>10, <2>1 DEF HandleDCWizardStep4
<1>11. CASE \/ HandleDCWizardBackToStep1(who, r) \/ HandleDCWizardBackToStep2(who, r)
            \/ HandleDCWizardBackToStep3(who, r)
  <2>1. /\ {"wizard 1"} \in SUBSET {"wizard 1", "wizard 2", "wizard 3", "wizard 4"}
        /\ {"wizard 2"} \in SUBSET {"wizard 1", "wizard 2", "wizard 3", "wizard 4"}
        /\ {"wizard 3"} \in SUBSET {"wizard 1", "wizard 2", "wizard 3", "wizard 4"}
    OBVIOUS
  <2> QED
    BY <1>7, <1>11, <2>1 DEF HandleDCWizardBackToStep1, HandleDCWizardBackToStep2, HandleDCWizardBackToStep3
<1>12. CASE HandleDCCreate(who, r)
  <2>1. CASE Keep /\ Reply(who, r, Complain)
    BY <2>1, KeptRests
  <2>2. CASE /\ Creates(r)
             /\ \E kind \in Challans : Becomes(Doc(kind, "draft", 0))
             /\ Reply(who, r, GoTo("dcs", "/id", r.p))
    <3>1. PICK kind \in Challans : Becomes(Doc(kind, "draft", 0))
      BY <2>2
    <3>2. PICK d : d = Doc(kind, "draft", 0)
      OBVIOUS
    <3>3. d \in Documents
      BY <3>2 DEF Documents, Challans
    <3>4. ~Splittable(doc) /\ r.p = Home
      BY <2>2 DEF Splittable, Creates
    <3> QED
      BY <1>1, <2>2, <3>1, <3>2, <3>3, <3>4, BecomesLeads DEF Goes
  <2> QED
    BY <1>12, <2>1, <2>2 DEF HandleDCCreate
<1>13. CASE HandleDCDetail(who, r)
  <2>1. r.rest \in IdRests /\ ~Asides(r)
    BY <1>1, <1>13 DEF HandleDCDetail, On, Asides
  <2>2. CASE Challan
    BY <1>1, <1>3, <1>4, <1>13, <2>1, <2>2, KeptShows DEF HandleDCDetail, Found
  <2>3. CASE ~Challan
    BY <1>2, <1>13, <2>1, <2>3, KeptRefuses DEF HandleDCDetail, Found
  <2> QED
    BY <2>2, <2>3
<1>14. r.rest \in {"/id/edit", "/id/issue"} \/ (r.rest = "/id" /\ r.verb = "DELETE")
       => (~(Challan /\ doc.st = "draft") /\ who = "reader" => Fair(r))
  <2> SUFFICES ASSUME r.rest \in {"/id/edit", "/id/issue"} \/ (r.rest = "/id" /\ r.verb = "DELETE"),
                      ~(Challan /\ doc.st = "draft"), who = "reader"
               PROVE  Fair(r)
    OBVIOUS
  <2>1. r.rest \in IdRests
    OBVIOUS
  <2>2. CASE ~Challan
    BY <1>2, <2>1, <2>2
  <2>3. CASE doc.st # "draft"
    BY <2>1, <2>3, FreshIs DEF Fair, Warranted
  <2> QED
    BY <2>2, <2>3
<1>15. CASE HandleDCEdit(who, r)
  <2>1. r.rest = "/id/edit"
    BY <1>15 DEF HandleDCEdit, On
  <2>2. CASE Challan /\ doc.st = "draft"
    BY <1>1, <1>15, <2>2, KeptLeads DEF HandleDCEdit, Found, Goes
  <2>3. CASE ~(Challan /\ doc.st = "draft")
    BY <1>14, <1>15, <2>1, <2>3, KeptRefuses DEF HandleDCEdit, Found
  <2> QED
    BY <2>2, <2>3
<1>16. PICK may \in BOOLEAN : may = (Challan /\ doc.st = "draft")
  OBVIOUS
<1>17. may => doc.kind \in Challans /\ doc.st = "draft"
  BY <1>16 DEF Challan
<1>18. CASE HandleDCIssue(who, r)
  <2>1. r.rest = "/id/issue" /\ r.rest \in IdRests /\ r.p = Home
    BY <1>1, <1>18 DEF HandleDCIssue, On
  <2>2. Issues(who, r, may, GoTo("dcs", "/id", r.p))
    BY <1>16, <1>18 DEF HandleDCIssue
  <2>3. Goes("dcs", "/id", Home)
    BY DEF Goes
  <2> QED
    BY <1>1, <1>14, <1>16, <1>17, <2>1, <2>2, <2>3, IssuesOK
<1>19. CASE HandleDCDelete(who, r)
  <2>1. r.rest = "/id" /\ r.verb = "DELETE" /\ r.p = Home
    BY <1>1, <1>19 DEF HandleDCDelete, On
  <2>2. Deletes(who, r, may)
    BY <1>16, <1>19 DEF HandleDCDelete
  <2> QED
    BY <1>1, <1>14, <1>16, <2>1, <2>2, DeletesOK
<1>20. CASE HandleDCExport(who, r)
  <2>1. r.rest \in IdRests
    BY <1>20 DEF HandleDCExport
  <2>2. CASE Challan
    BY <1>20, <2>2, KeptRests DEF HandleDCExport, Found
  <2>3. CASE ~Challan
    BY <1>2, <1>20, <2>1, <2>3, KeptRefuses DEF HandleDCExport, Found
  <2> QED
    BY <2>2, <2>3
<1> QED
  BY <1>5, <1>6, <1>8, <1>9, <1>10, <1>11, <1>12, <1>13, <1>15, <1>18, <1>19, <1>20 DEF ServeDCs

\* Groups, likewise.
LEMMA GroupsServed ==
  ASSUME TabOK, NEW who, NEW r, Plausible(r), who = "reader" => Sent(r),
         r.at = "shipment-groups", ServeGroups(who, r)
  PROVE  StateOK /\ Answered(who, r)
<1>1. /\ r.p \in Projects /\ ~Switches(r) /\ Home \in Projects
      /\ (r.rest \in IdRests => r.p = Home)
  BY PagesAssumption DEF Plausible
<1>2. r.rest \in IdRests /\ ~Is("transit") => (who = "reader" => Fair(r))
  BY FairKind DEF KindsAt, Is
<1>3. Is("transit") => doc.kind \in Shows("group") /\ Advanced("group", doc)
  BY DEF Is, Shows, Advanced, SplitPages, Challans
<1>4. /\ r.p = Home => Place("group", r.p, "-") /\ InPlace(r.p, doc)
      /\ "group" \notin SplitPages /\ "group" \in DocPages
  BY <1>1 DEF Place, ProjectPages, AddressPages, ImportPages, InPlace, SplitPages, DocPages
<1>5. CASE HandleShipmentGroupDetail(who, r)
  <2>1. r.rest \in IdRests /\ ~Asides(r)
    BY <1>1, <1>5 DEF HandleShipmentGroupDetail, On, Asides
  <2>2. CASE Is("transit")
    BY <1>1, <1>3, <1>4, <1>5, <2>1, <2>2, KeptShows DEF HandleShipmentGroupDetail, Found
  <2>3. CASE ~Is("transit")
    BY <1>2, <1>5, <2>1, <2>3, KeptRefuses DEF HandleShipmentGroupDetail, Found
  <2> QED
    BY <2>2, <2>3
<1>6. r.rest = "/id/issue" \/ (r.rest = "/id" /\ r.verb = "DELETE")
      => (~(Is("transit") /\ doc.st = "draft") /\ who = "reader" => Fair(r))
  <2> SUFFICES ASSUME r.rest = "/id/issue" \/ (r.rest = "/id" /\ r.verb = "DELETE"),
                      ~(Is("transit") /\ doc.st = "draft"), who = "reader"
               PROVE  Fair(r)
    OBVIOUS
  <2>1. r.rest \in IdRests
    OBVIOUS
  <2>2. CASE ~Is("transit")
    BY <1>2, <2>1, <2>2
  <2>3. CASE doc.st # "draft"
    BY <2>1, <2>3, FreshIs DEF Fair, Warranted
  <2> QED
    BY <2>2, <2>3
<1>7. PICK may \in BOOLEAN : may = (Is("transit") /\ doc.st = "draft")
  OBVIOUS
<1>8. may => doc.kind \in Challans /\ doc.st = "draft"
  BY <1>7 DEF Is, Challans
<1>9. CASE HandleShipmentGroupIssueAll(who, r)
  <2>1. r.rest = "/id/issue" /\ r.rest \in IdRests /\ r.p = Home
    BY <1>1, <1>9 DEF HandleShipmentGroupIssueAll, On
  <2>2. Issues(who, r, may, GoTo("shipment-groups", "/id", r.p))
    BY <1>7, <1>9 DEF HandleShipmentGroupIssueAll
  <2>3. Goes("shipment-groups", "/id", Home)
    BY DEF Goes
  <2> QED
    BY <1>1, <1>6, <1>7, <1>8, <2>1, <2>2, <2>3, IssuesOK
<1>10. CASE HandleShipmentGroupDelete(who, r)
  <2>1. r.rest = "/id" /\ r.verb = "DELETE" /\ r.p = Home
    BY <1>1, <1>10 DEF HandleShipmentGroupDelete, On
  <2>2. Deletes(who, r, may)
    BY <1>7, <1>10 DEF HandleShipmentGroupDelete
  <2> QED
    BY <1>1, <1>6, <1>7, <2>1, <2>2, DeletesOK
<1> QED
  BY <1>5, <1>9, <1>10 DEF ServeGroups

\* Splits: whoever posts a step came from a step, so the transfer was issued.
LEMMA SplitsServed ==
  ASSUME TabOK, NEW who, NEW r, Plausible(r), who = "reader" => Sent(r),
         r.at = "transfer-dcs", ServeSplits(who, r)
  PROVE  StateOK /\ Answered(who, r)
<1>1. /\ r.p \in Projects /\ ~Switches(r) /\ Home \in Projects
      /\ (r.rest \in IdRests => r.p = Home)
  BY PagesAssumption DEF Plausible
<1>2. r.rest \in IdRests /\ ~Is("transfer") => (who = "reader" => Fair(r))
  BY FairKind DEF KindsAt, Is
<1>3. PICK d : d = doc /\ d \in Documents
  BY DEF TabOK, TypeOK
<1>4. Is("transfer") => \E st \in {"draft", "issued", "exhausted", "split"} : d = Doc("transfer", st, 0)
  BY <1>3, DocKinds DEF Is
<1>5. Is("transfer") /\ doc.st # "draft"
      => Splittable(doc) /\ \A page \in SplitPages : Advanced(page, doc)
  <2> HAVE Is("transfer") /\ doc.st # "draft"
  <2>1. Splittable(doc)
    BY Born DEF Splittable, Unborn, Doc, Is
  <2>2. \A page \in SplitPages : Advanced(page, doc)
    BY DEF SplitPages, Advanced
  <2> QED
    BY <2>1, <2>2
<1>6. r.p = Home => /\ \A page \in SplitPages : Place(page, r.p, "-")
                    /\ InPlace(r.p, doc)
  BY <1>1 DEF Place, ProjectPages, AddressPages, ImportPages, InPlace, SplitPages
<1>7. \A page \in SplitPages : page \in DocPages /\ (Is("transfer") => doc.kind \in Shows(page))
  BY DEF DocPages, SplitPages, Is, Shows
<1>8. ASSUME NEW page, page \in SplitPages, Is("transfer"), r.rest \in IdRests, ~Asides(r), Keep,
             who = "reader" => doc.st # "draft", Reply(who, r, Content(page, r.p, doc))
      PROVE  StateOK /\ Answered(who, r)
  <2>1. page \in DocPages /\ doc.kind \in Shows(page)
    BY <1>7, <1>8
  <2>2. who = "reader" => Advanced(page, doc) /\ Splittable(doc)
    BY <1>5, <1>8
  <2>3. PICK p : p = r.p
    OBVIOUS
  <2>4. Place(page, p, "-") /\ InPlace(p, doc) /\ Reply(who, r, Content(page, p, doc))
    BY <1>1, <1>6, <1>8, <2>3
  <2> QED
    BY <1>1, <1>8, <2>1, <2>2, <2>3, <2>4, KeptShows
<1>9. CASE HandleSplitStep1(who, r)
  <2>1. r.rest \in IdRests /\ ~Asides(r) /\ Keep /\ "split 1" \in SplitPages
    BY <1>1, <1>9 DEF HandleSplitStep1, On, Asides, SplitPages
  <2>2. CASE Is("transfer") /\ doc.st = "issued"
    BY <1>8, <1>9, <2>1, <2>2 DEF HandleSplitStep1, Found
  <2>3. CASE ~(Is("transfer") /\ doc.st = "issued")
    <3>1. ASSUME who = "reader", Is("transfer"), tab.wait = Nothing, Fresh(r)
          PROVE  Refusable(r)
      <4>1. doc.st # "draft"
        BY <2>1, <3>1, FreshIs DEF Warranted
      <4>2. doc.st \in {"draft", "issued", "exhausted", "split"}
        BY <1>3, <1>4, <3>1 DEF Doc
      <4> QED
        BY <2>3, <3>1, <4>1, <4>2 DEF Refusable
    <3>2. who = "reader" => Fair(r)
      BY <1>2, <2>1, <3>1 DEF Fair
    <3> QED
      BY <1>9, <2>3, <3>2, KeptRefuses DEF HandleSplitStep1, Found
  <2> QED
    BY <2>2, <2>3
<1>10. r.verb = "POST" => (who = "reader" => Splittable(doc))
  <2> HAVE r.verb = "POST"
  <2> HAVE who = "reader"
  <2>1. tab.wait = Nothing
    BY DEF Sent, Awaited
  <2>2. tab.page \in SplitPages
    BY <2>1 DEF Sent, OfferOK, Fits
  <2> QED
    BY <2>2 DEF TabOK
<1>11. ASSUME NEW rest \in {"/id/split/step2", "/id/split/step3"}, NEW pages \in SUBSET SplitPages,
              SplitStep(who, r, rest, pages)
       PROVE  StateOK /\ Answered(who, r)
  <2>1. r.rest \in IdRests /\ ~Asides(r) /\ r.verb = "POST" /\ Keep
    BY <1>1, <1>11 DEF SplitStep, On, Asides
  <2>2. CASE Is("transfer")
    <3>1. PICK page \in pages : Reply(who, r, Content(page, r.p, doc))
      BY <1>11, <2>2 DEF SplitStep, Found
    <3>2. who = "reader" => doc.st # "draft"
      BY <1>10, <2>1, <2>2 DEF Splittable, Is
    <3> QED
      BY <1>8, <1>11, <2>1, <2>2, <3>1, <3>2
  <2>3. CASE ~Is("transfer")
    BY <1>2, <1>11, <2>1, <2>3, KeptRefuses DEF SplitStep, Found
  <2> QED
    BY <2>2, <2>3
<1>12. CASE HandleSplitStep2(who, r)
  <2>1. {"split 1", "split 2"} \in SUBSET SplitPages
    BY DEF SplitPages
  <2> QED
    BY <1>11, <1>12, <2>1 DEF HandleSplitStep2
<1>13. CASE HandleSplitStep3(who, r)
  <2>1. {"split 3"} \in SUBSET SplitPages
    BY DEF SplitPages
  <2> QED
    BY <1>11, <1>13, <2>1 DEF HandleSplitStep3
<1>14. CASE HandleSplitCreate(who, r)
  <2>1. r.rest \in IdRests /\ r.p = Home
    BY <1>1, <1>14 DEF HandleSplitCreate, On
  <2>2. CASE ~Is("transfer") /\ Keep /\ Reply(who, r, Refused)
    BY <1>2, <2>1, <2>2, KeptRefuses
  <2>3. CASE Keep /\ Reply(who, r, Complain)
    BY <2>3, KeptRests
  <2>4. CASE /\ Is("transfer") /\ doc.st = "issued"
             /\ IF who = "elsewhere"
                THEN \E st \in {"issued", "exhausted", "split"} : Becomes([doc EXCEPT !.st = st])
                ELSE Becomes(Doc("transit", "draft", 0))
             /\ Reply(who, r, GoTo("dcs", "/id", r.p))
    <3>1. PICK e \in Documents : Becomes(e) /\ Splittable(e)
      <4>1. CASE who = "elsewhere"
        <5>1. PICK st \in {"issued", "exhausted", "split"} : Becomes([doc EXCEPT !.st = st])
          BY <2>4, <4>1
        <5>2. [doc EXCEPT !.st = st] = Doc("transfer", st, 0)
          BY <1>3, <1>4, <2>4 DEF Doc
        <5>3. Doc("transfer", st, 0) \in Documents /\ Splittable(Doc("transfer", st, 0))
          BY DEF Documents, Doc, Unborn, Splittable
        <5> QED
          BY <5>1, <5>2, <5>3
      <4>2. CASE who # "elsewhere"
        <5>1. Doc("transit", "draft", 0) \in Documents /\ Splittable(Doc("transit", "draft", 0))
          BY DEF Documents, Doc, Unborn, Splittable
        <5> QED
          BY <2>4, <4>2, <5>1
      <4> QED
        BY <4>1, <4>2
    <3> QED
      BY <1>1, <2>1, <2>4, <3>1, BecomesLeads DEF Goes
  <2> QED
    BY <1>14, <2>2, <2>3, <2>4 DEF HandleSplitCreate
<1> QED
  BY <1>9, <1>12, <1>13, <1>14 DEF ServeSplits

-----------------------------------------------------------------------------
(* Projects, settings and the old paths.                                     *)
LEMMA Shown ==
  ASSUME TabOK, NEW who, NEW r, who = "reader" => Sent(r), NEW page, NEW p,
         Reply(who, r, Content(page, p, doc)), ~Asides(r), page \notin DocPages,
         Place(page, p, "-"), p \in {Nothing, r.p},
         ~Switches(r) \/ p \in {Nothing, ActiveProjectMiddleware}
  PROVE  Answered(who, r)
<1>1. PICK d : d = doc /\ d \in Documents
  BY DEF TabOK, TypeOK
<1>2. page \notin SplitPages /\ Advanced(page, d)
  BY DEF DocPages, Advanced
<1>3. who = "reader" => AnswerOK(r, Content(page, p, d))
  <2> HAVE who = "reader"
  <2>1. r.into \in {"page", "main"}
    BY SentIs
  <2> HIDE DEF Switches
  <2>2. AnswerOK(r, Answer("content", page, p, "-", d, Nothing))
    BY <1>1, <1>2, <2>1, ShowOK
  <2> QED
    BY <2>2 DEF Content
<1> QED
  BY <1>1, <1>3 DEF Answered

\* What the deletion of a project leaves of the document.
LEMMA OrphanedOK ==
  ASSUME TabOK, NEW d \in Orphaned
  PROVE  d \in Documents /\ (Splittable(doc) => Splittable(d))
<1>1. doc \in Documents
  BY DEF TabOK, TypeOK
<1>2. Doc("vendor", "unlinked", 0) \in Documents /\ Splittable(Doc("vendor", "unlinked", 0))
  BY DEF Documents, Doc, Unborn, Splittable
<1>3. CASE doc = Unborn
  BY <1>1, <1>3 DEF Orphaned
<1>4. CASE doc # Unborn
  BY <1>1, <1>2, <1>4, GoneOK DEF Orphaned
<1> QED
  BY <1>3, <1>4

\* Projects: whoever switches loads the shell again.
LEMMA ProjectsServed ==
  ASSUME TabOK, NEW who, NEW r, Plausible(r), who = "reader" => Sent(r), r.at = "projects",
         ServeProjects(who, r)
  PROVE  StateOK /\ Answered(who, r)
<1>1. r.p \in Projects \cup {Nothing} /\ Nothing \notin Projects
  BY PagesAssumption DEF Plausible
<1>2. PICK p : p = r.p
  OBVIOUS
<1>3. ASSUME Keep, Reply(who, r, GoTo("projects", "-", Nothing))
      PROVE  StateOK /\ Answered(who, r)
  <2>1. Goes("projects", "-", Nothing)
    BY DEF Goes
  <2> QED
    BY <1>3, <2>1, KeptLeads
<1>4. CASE r.p = Nothing
  <2>1. Place("new project", Nothing, "-") /\ Place("projects", Nothing, "-")
        /\ "projects" \notin DocPages
    BY DEF Place, RootPages, AddressPages, ImportPages, DocPages, SplitPages
  <2>2. CASE HandleProjectList(who, r)
    <3>1. r.rest = "-" /\ r.verb = "GET" /\ Keep /\ Reply(who, r, Content("projects", Nothing, doc))
      BY <2>2 DEF HandleProjectList, On
    <3>2. ~Asides(r)
      BY <3>1 DEF Asides
    <3>3. Answered(who, r)
      BY <2>1, <3>1, <3>2, Shown
    <3> QED
      BY <3>1, <3>3, KeepOK
  <2>3. CASE HandleProjectCreate(who, r)
    <3>1. r.rest = "/create" /\ r.verb = "GET" /\ Keep /\ Reply(who, r, Full("new project", Nothing, "-"))
      BY <2>3 DEF HandleProjectCreate, On
    <3>2. Excused(r) /\ ~Switches(r)
      BY <3>1 DEF Excused
    <3> QED
      BY <2>1, <3>1, <3>2, KeptFull
  <2>4. CASE HandleProjectSave(who, r)
    <3>1. r.rest = "-" /\ r.verb = "POST" /\ Keep
      BY <2>4 DEF HandleProjectSave, On
    <3>2. Wholes(r) /\ ~Switches(r)
      BY <1>4, <3>1 DEF Wholes
    <3>3. CASE Reply(who, r, Full("new project", Nothing, "-"))
      BY <2>1, <3>1, <3>2, <3>3, KeptFull
    <3>4. CASE Reply(who, r, GoTo("projects", "-", Nothing))
      BY <1>3, <3>1, <3>4
    <3> QED
      BY <2>4, <3>3, <3>4 DEF HandleProjectSave
  <2> QED
    BY <1>4, <2>2, <2>3, <2>4 DEF ServeProjects
<1>5. CASE r.p \in Projects
  <2>1. Live(r) => /\ Visit(r.p) => StateOK /\ ActiveProjectMiddleware' = r.p
    BY <1>5, VisitOK DEF Live
  <2>2. ASSUME ~Live(r), Keep, Reply(who, r, Refused)
        PROVE  StateOK /\ Answered(who, r)
    <3>1. who = "reader" => Fair(r)
      BY <1>5, <2>2, FairGone DEF Live
    <3> QED
      BY <2>2, <3>1, KeptRefuses
  <2>3. \A page \in {"project", "edit project", "project settings"} :
          Place(page, p, "-") /\ page \notin DocPages
    BY <1>2, <1>5 DEF Place, ProjectPages, AddressPages, ImportPages, DocPages, SplitPages
  <2>4. ASSUME NEW page \in {"edit project", "project settings"}, Keep,
               Reply(who, r, Content(page, r.p, doc)), ~Asides(r), ~Switches(r)
        PROVE  StateOK /\ Answered(who, r)
    <3>1. Place(page, p, "-") /\ page \notin DocPages /\ p \in {Nothing, r.p}
      BY <1>2, <2>3
    <3>2. Answered(who, r)
      BY <1>2, <2>4, <3>1, Shown
    <3> QED
      BY <2>4, <3>2, KeepOK
  <2>5. Goes("projects", "-", p) /\ Goes("projects", "/settings", p)
    BY <1>2, <1>5 DEF Goes
  <2>6. CASE HandleProjectView(who, r)
    <3>1. r.verb = "GET" /\ r.rest = "-" /\ ~Asides(r)
      BY <1>5, <2>6 DEF HandleProjectView, On, Asides
    <3>2. CASE ~Live(r)
      BY <2>2, <2>6, <3>2 DEF HandleProjectView
    <3>3. CASE Live(r)
      <4>1. Visit(r.p) /\ StateOK /\ ActiveProjectMiddleware' = p
        BY <1>2, <2>1, <2>6, <3>3 DEF HandleProjectView
      <4>2. CASE r.into # "page" /\ ActiveProjectMiddleware # r.p
        <5>1. Reply(who, r, GoTo("projects", "-", p))
          BY <1>2, <2>6, <3>3, <4>2 DEF HandleProjectView
        <5> QED
          BY <2>5, <4>1, <5>1, Leads
      <4>3. CASE ~(r.into # "page" /\ ActiveProjectMiddleware # r.p)
        <5>1. Reply(who, r, Content("project", p, doc))
          BY <1>2, <2>6, <3>3, <4>3 DEF HandleProjectView
        <5>2. ~Switches(r) \/ p \in {Nothing, ActiveProjectMiddleware}
          BY <1>2, <3>1, <4>3
        <5>3. Place("project", p, "-") /\ "project" \notin DocPages /\ p \in {Nothing, r.p}
          BY <1>2, <2>3
        <5>4. Answered(who, r)
          BY <3>1, <5>1, <5>2, <5>3, Shown
        <5> QED
          BY <4>1, <5>4
      <4> QED
        BY <4>2, <4>3
    <3> QED
      BY <3>2, <3>3
  <2>7. CASE HandleProjectEdit(who, r)
    <3>1. r.verb = "GET" /\ r.rest = "/edit" /\ ~Asides(r) /\ ~Switches(r) /\ Keep
      BY <1>5, <2>7 DEF HandleProjectEdit, On, Asides
    <3>2. CASE Live(r)
      BY <2>4, <2>7, <3>1, <3>2 DEF HandleProjectEdit, Found
    <3>3. CASE ~Live(r)
      BY <2>2, <2>7, <3>1, <3>3 DEF HandleProjectEdit, Found
    <3> QED
      BY <3>2, <3>3
  <2>8. CASE HandleProjectUpdate(who, r)
    <3>1. r.verb = "POST" /\ r.rest = "/save" /\ ~Asides(r) /\ ~Switches(r) /\ Keep
      BY <1>5, <2>8 DEF HandleProjectUpdate, On, Asides
    <3>2. CASE Live(r)
      BY <1>3, <2>4, <2>8, <3>1, <3>2 DEF HandleProjectUpdate, Found
    <3>3. CASE ~Live(r)
      BY <2>2, <2>8, <3>1, <3>3 DEF HandleProjectUpdate, Found
    <3> QED
      BY <3>2, <3>3
  <2>9. CASE HandleProjectSettings(who, r)
    <3>1. r.verb = "GET" /\ r.rest = "/settings" /\ ~Asides(r) /\ ~Switches(r) /\ Keep
      BY <1>5, <2>9 DEF HandleProjectSettings, On, Asides
    <3>2. CASE Live(r)
      BY <2>4, <2>9, <3>1, <3>2 DEF HandleProjectSettings, Found
    <3>3. CASE ~Live(r)
      BY <2>2, <2>9, <3>1, <3>3 DEF HandleProjectSettings, Found
    <3> QED
      BY <3>2, <3>3
  <2>10. CASE HandleProjectSettingsSave(who, r)
    <3>1. r.verb = "POST" /\ r.rest = "/settings" /\ ~Switches(r) /\ Keep
      BY <2>10 DEF HandleProjectSettingsSave, On
    <3>2. CASE Live(r)
      <4>1. Reply(who, r, GoTo("projects", "/settings", p))
        BY <1>2, <2>10, <3>2 DEF HandleProjectSettingsSave, Found
      <4> QED
        BY <1>2, <2>5, <3>1, <4>1, KeptLeads
    <3>3. CASE ~Live(r)
      BY <2>2, <2>10, <3>1, <3>3 DEF HandleProjectSettingsSave, Found
    <3> QED
      BY <3>2, <3>3
  <2>11. CASE HandleProjectActivate(who, r)
    <3>1. CASE Live(r)
      <4>1. Visit(r.p) /\ StateOK /\ ActiveProjectMiddleware' = p
        BY <1>2, <2>1, <2>11, <3>1 DEF HandleProjectActivate
      <4>2. Reply(who, r, GoTo("projects", "-", p))
        BY <1>2, <2>11, <3>1 DEF HandleProjectActivate, Found
      <4> QED
        BY <2>5, <4>1, <4>2, Leads
    <3>2. CASE ~Live(r)
      BY <2>2, <2>11, <3>2 DEF HandleProjectActivate, Found
    <3> QED
      BY <3>1, <3>2
  <2>12. CASE HandleProjectDelete(who, r)
    <3>1. /\ active' = ActiveProjectMiddleware /\ projects' = projects \ {r.p}
          /\ doc' \in Orphaned \/ doc' = doc
      BY <2>12 DEF HandleProjectDelete
    <3>2. doc' \in Documents /\ (Splittable(doc) => Splittable(doc'))
      <4>1. CASE doc' = doc
        BY <4>1 DEF TabOK, TypeOK
      <4>2. CASE doc' \in Orphaned
        <5>1. PICK d \in Orphaned : d = doc'
          BY <4>2
        <5> QED
          BY <5>1, OrphanedOK
      <4> QED
        BY <3>1, <4>1, <4>2
    <3>3. StateOK
      BY <3>1, <3>2 DEF StateOK, TabOK, TypeOK, ActiveProjectMiddleware, Splittable
    <3>4. CASE Live(r)
      <4>1. Reply(who, r, GoTo("projects", "-", Nothing))
        BY <2>12, <3>4 DEF HandleProjectDelete, Found
      <4>2. Goes("projects", "-", Nothing)
        BY DEF Goes
      <4> QED
        BY <3>3, <4>1, <4>2, Leads
    <3>5. CASE ~Live(r)
      <4>1. who = "reader" => Fair(r)
        BY <1>5, <3>5, FairGone DEF Live
      <4>2. Reply(who, r, Refused)
        BY <2>12, <3>5 DEF HandleProjectDelete, Found
      <4> QED
        BY <3>3, <4>1, <4>2, Refuses
    <3> QED
      BY <3>4, <3>5
  <2> QED
    BY <1>1, <1>5, <2>6, <2>7, <2>8, <2>9, <2>10, <2>11, <2>12 DEF ServeProjects
<1> QED
  BY <1>1, <1>4, <1>5

LEMMA SettingsServed ==
  ASSUME TabOK, NEW who, NEW r, who = "reader" => Sent(r), r.at = "settings",
         HandleAppSettings(who, r) \/ HandleAppSettingsSave(who, r)
  PROVE  StateOK /\ Answered(who, r)
<1>1. r.rest = "-" /\ Keep /\ ~Asides(r) /\ ~Switches(r)
  BY DEF HandleAppSettings, HandleAppSettingsSave, On, Asides
<1>2. CASE Reply(who, r, Content("settings", Nothing, doc))
  <2>1. Place("settings", Nothing, "-") /\ "settings" \notin DocPages
    BY DEF Place, RootPages, AddressPages, ImportPages, DocPages, SplitPages
  <2>2. Answered(who, r)
    BY <1>1, <1>2, <2>1, Shown
  <2> QED
    BY <1>1, <2>2, KeepOK
<1>3. CASE Reply(who, r, GoTo("settings", "-", Nothing))
  <2>1. Goes("settings", "-", Nothing)
    BY DEF Goes
  <2> QED
    BY <1>1, <1>3, <2>1, KeptLeads
<1> QED
  BY <1>2, <1>3 DEF HandleAppSettings, HandleAppSettingsSave

\* A redirect that HTMX follows.
LEMMA Moves ==
  ASSUME NEW who, NEW r, NEW at, NEW rest, NEW p, NEW into, Reply(who, r, Moved(at, rest, p, into)),
         who = "reader" => \/ /\ at = "projects" /\ rest = "-" /\ p = Nothing
                              /\ into \in {"page", "main"}
                           \/ at = "boq" /\ rest = "-" /\ p \in Projects /\ into = "page"
                           \/ at = "boq" /\ rest = "/id" /\ p = Home /\ into = "page",
         who = "reader" => \/ p \in {Nothing, ActiveProjectMiddleware'}
                           \/ r \in Plain("boq", "/id", Nothing)
  PROVE  Answered(who, r)
<1>1. PICK to : to = Send("GET", at, rest, p, into)
  OBVIOUS
<1>2. Asks(to, "GET", at, rest, p, {into}) /\ to.type = "-"
  BY <1>1, SendIs
<1>3. PICK a : a = Moved(at, rest, p, into)
  OBVIOUS
<1>4. a.kind = "moved" /\ a.to = to
  BY <1>1, <1>3, AnswerIs DEF Moved
<1>5. who = "reader" => AnswerOK(r, a)
  <2> HAVE who = "reader"
  <2>1. Home \in Projects /\ Nothing \notin Projects
    BY PagesAssumption
  <2>2. Routed(to)
    BY <1>2, <2>1, ProjectsRouted, BOQRouted DEF Asks
  <2>3. Plausible(to)
    BY <1>2, <2>1 DEF Asks, Plausible
  <2>4. Awaited(to)
    BY <1>2, <2>1, <2>2, <2>3 DEF Asks, Awaited
  <2>5. r \in Plain("boq", "/id", Nothing) => ~Switches(r)
    BY PlainIs DEF Asks
  <2>6. LeadsOn(r, to)
    BY <1>2, <2>4, <2>5 DEF Asks, LeadsOn
  <2> QED
    BY <1>4, <2>6 DEF AnswerOK
<1> QED
  BY <1>3, <1>5 DEF Answered

\* Only the root itself is routed there.
LEMMA HomeOnly ==
  ASSUME NEW r, r.at = "home", Routed(r)
  PROVE  r.p = Nothing /\ r.rest = "-"
<1>1. PICK v, at, rest : v = r.verb /\ at = r.at /\ rest = r.rest
  OBVIOUS
<1>2. <<v, at, rest>> \notin ProjectRoutes.global
  BY <1>1, OutOfRoutes DEF ProjectRoutes
<1>3. <<v, at, rest>> \notin VendorRoutes.global
  BY <1>1, OutOfRoutes DEF VendorRoutes
<1>4. <<v, at, rest>> \notin Routes({<<"GET", "-">>, <<"POST", "-">>}, "settings")
  BY <1>1, OutOfRoutes
<1>5. <<v, at, rest>> \notin Routes({<<"GET", "-">>, <<"GET", "/id">>}, "boq")
  BY <1>1, OutOfRoutes
<1>6. <<v, at, rest>> \in Routes({<<"GET", "-">>}, "home") => rest = "-"
  <2> DEFINE R == {<<"GET", "-">>}
  <2>1. \A q \in R : q[2] = "-"
    OBVIOUS
  <2> HIDE DEF R
  <2>2. <<v, at, rest>> \in Routes(R, "home") => rest = "-"
    BY <2>1, OutOfRoutes
  <2> QED
    BY <2>2 DEF R
<1>7. <<v, at, rest>> \notin ProjectRoutes.scoped
  BY <1>1, OutOfRoutes DEF ProjectRoutes
<1>8. <<v, at, rest>> \notin VendorRoutes.scoped
  BY <1>1, OutOfRoutes DEF VendorRoutes
<1>9. <<v, at, rest>> \notin TypedAddressRoutes
  BY <1>1, OutOfRoutes DEF TypedAddressRoutes
<1>10. <<v, at, rest>> \notin AnyAddressRoutes
  BY <1>1, OutOfRoutes DEF AnyAddressRoutes
<1>11. <<v, at, rest>> \notin BOQRoutes
  BY <1>1, OutOfRoutes DEF BOQRoutes
<1>12. <<v, at, rest>> \notin PORoutes
  BY <1>1, OutOfRoutes DEF PORoutes
<1>13. <<v, at, rest>> \notin DCTemplateRoutes
  BY <1>1, OutOfRoutes DEF DCTemplateRoutes
<1>14. <<v, at, rest>> \notin TransporterRoutes
  BY <1>1, OutOfRoutes DEF TransporterRoutes
<1>15. <<v, at, rest>> \notin DCRoutes
  BY <1>1, OutOfRoutes DEF DCRoutes
<1>16. <<v, at, rest>> \notin SplitRoutes
  BY <1>1, OutOfRoutes DEF SplitRoutes
<1>17. <<v, at, rest>> \notin GroupRoutes
  BY <1>1, OutOfRoutes DEF GroupRoutes
<1>18. CASE r.p = Nothing
  BY <1>1, <1>2, <1>3, <1>4, <1>5, <1>6, <1>18 DEF Routed, RootRoutes
<1>19. CASE r.p # Nothing
  BY <1>1, <1>7, <1>8, <1>9, <1>10, <1>11, <1>12, <1>13, <1>14, <1>15, <1>16, <1>17, <1>19 DEF Routed
<1> QED
  BY <1>18, <1>19

LEMMA HomeServed ==
  ASSUME TabOK, NEW who, NEW r, Plausible(r), who = "reader" => Sent(r), r.at = "home",
         Routed(r), RedirectHome(who, r)
  PROVE  StateOK /\ Answered(who, r)
<1>1. r.rest = "-"
  BY HomeOnly
<1>2. ~Asides(r)
  BY <1>1 DEF Asides
<1>3. PICK into : into = r.into
  OBVIOUS
<1>4. who = "reader" => into \in {"page", "main"}
  BY <1>2, <1>3, SentIs
<1>5. Keep /\ Reply(who, r, Moved("projects", "-", Nothing, into))
  BY <1>3 DEF RedirectHome
<1> QED
  BY <1>4, <1>5, Moves, KeepOK

\* Only a typed address leads to the old paths of the BOQs.
LEMMA OldBOQServed ==
  ASSUME TabOK, NEW who, NEW r, Plausible(r), who = "reader" => Sent(r), r.at = "boq",
         r.p = Nothing, RedirectBOQ(who, r) \/ RedirectBOQView(who, r)
  PROVE  StateOK /\ Answered(who, r)
<1>1. Keep
  BY DEF RedirectBOQ, RedirectBOQView
<1>2. StateOK /\ ActiveProjectMiddleware' = ActiveProjectMiddleware
  BY <1>1, KeepOK
<1>3. who = "reader" => /\ tab.wait # Nothing
                        /\ r \in Plain("boq", "-", Nothing) \cup Plain("boq", "/id", Nothing)
  BY DEF Sent, OfferOK, Belongs, Awaited
<1>4. PICK into, p : into = r.into /\ p = ActiveProjectMiddleware
  OBVIOUS
<1>5. who = "reader" => into = "page"
  BY <1>3, <1>4, PlainIs DEF Asks
<1>6. p \in Projects \cup {Nothing}
  BY <1>4 DEF TabOK, TypeOK, ActiveProjectMiddleware
<1>7. CASE Reply(who, r, Moved("projects", "-", Nothing, into))
  BY <1>2, <1>5, <1>7, Moves
<1>8. CASE p # Nothing /\ Reply(who, r, Moved("boq", "-", p, into))
  <2>1. p = ActiveProjectMiddleware'
    BY <1>2, <1>4
  <2> QED
    BY <1>2, <1>5, <1>6, <1>8, <2>1, Moves
<1>9. CASE r.rest = "/id" /\ Reply(who, r, Moved("boq", "/id", Home, into))
  <2>1. who = "reader" => r \in Plain("boq", "/id", Nothing)
    BY <1>3, <1>9, PlainIs DEF Asks
  <2> QED
    BY <1>2, <1>5, <1>9, <2>1, Moves
<1>10. CASE Reply(who, r, Refused)
  BY <1>1, <1>3, <1>10, KeptRefuses DEF Fair
<1> QED
  BY <1>4, <1>7, <1>8, <1>9, <1>10 DEF RedirectBOQ, RedirectBOQView, Found

\* Whatever is asked, by whomever: the handler leaves the data right and answers right.
LEMMA Served ==
  ASSUME TabOK, NEW who, NEW r, Plausible(r), who = "reader" => Sent(r), Serve(who, r)
  PROVE  StateOK /\ Answered(who, r)
<1>1. CASE ~Routed(r) /\ Keep /\ Reply(who, r, Refused)
  <2>1. ASSUME who = "reader", tab.wait = Nothing
        PROVE  Refusable(r)
    <3>1. Dead(r, tab.page)
      BY <1>1, <2>1 DEF Sent, OfferOK
    <3>2. DeadLinks(r)
      BY <3>1 DEF Dead, DeadLinks, ImportPages
    <3> QED
      BY <3>2 DEF Refusable
  <2> QED
    BY <1>1, <2>1, KeptRefuses DEF Fair
<1>2. CASE r.at = "projects" /\ ServeProjects(who, r)
  BY <1>2, ProjectsServed
<1>3. CASE r.at = "settings" /\ (HandleAppSettings(who, r) \/ HandleAppSettingsSave(who, r))
  BY <1>3, SettingsServed
<1>4. CASE Routed(r) /\ r.at = "home" /\ RedirectHome(who, r)
  BY <1>4, HomeServed
<1>5. CASE r.at = "boq" /\ r.p = Nothing /\ (RedirectBOQ(who, r) \/ RedirectBOQView(who, r))
  BY <1>5, OldBOQServed
<1>6. CASE r.at = "boq" /\ r.p # Nothing /\ ServeBOQ(who, r)
  BY <1>6, BOQServed
<1>7. CASE r.at = "po" /\ ServePO(who, r)
  BY <1>7, POServed
<1>8. CASE r.at = "vendors" /\ ServeVendors(who, r)
  BY <1>8, VendorsServed
<1>9. CASE r.at = "transporters" /\ ServeTransporters(who, r)
  BY <1>9, TransportersServed
<1>10. CASE r.at = "dc-templates" /\ ServeTemplates(who, r)
  BY <1>10, TemplatesServed
<1>11. CASE Routed(r) /\ r.at = "addresses" /\ ServeAddresses(who, r)
  BY <1>11, AddressesServed
<1>12. CASE r.at = "dcs" /\ ServeDCs(who, r)
  BY <1>12, DCsServed
<1>13. CASE r.at = "transfer-dcs" /\ ServeSplits(who, r)
  BY <1>13, SplitsServed
<1>14. CASE r.at = "shipment-groups" /\ ServeGroups(who, r)
  BY <1>14, GroupsServed
<1> QED
  BY <1>1, <1>2, <1>3, <1>4, <1>5, <1>6, <1>7, <1>8, <1>9, <1>10, <1>11, <1>12, <1>13, <1>14
     DEF Serve

-----------------------------------------------------------------------------
(* What an answer does to the reader's tab.                                  *)
ShellKept ==
  /\ tab' # tab /\ last'.how # "typed" /\ Consistent
  /\ tab.wait \notin Plain("boq", "/id", Nothing)
  /\ tab.wait = Nothing => tab.shell = ActiveProjectMiddleware
  => Consistent'
OffersKept ==
  last'.how = "refused" /\ tab.wait = Nothing /\ Fresh(last'.req) => Refusable(last'.req)

\* A tab is right when each of its parts is.
LEMMA NextTab ==
  ASSUME StateOK, NEW t, tab' = t,
         t = [page |-> t.page, p |-> t.p, type |-> t.type, seen |-> t.seen,
              shell |-> t.shell, wait |-> t.wait],
         t.p \in Projects \cup {Nothing}, t.shell \in Projects \cup {Nothing},
         PageOK(t.page, t.p, t.type, t.seen), Advanced(t.page, t.seen),
         t.wait # Nothing => t.page = "loading" /\ Awaited(t.wait),
         t.page \in SplitPages => Splittable(doc'),
         last'.how \in {"taken", "refused", "misfit", "typed"}
  PROVE  TabOK'
<1>1. TypeOK'
  BY DEF StateOK, TypeOK, PageOK
<1>2. WholeTab'
  BY DEF WholeTab
<1>3. PageOK(tab'.page, tab'.p, tab'.type, tab'.seen) /\ Advanced(tab'.page, tab'.seen)
  OBVIOUS
<1>4. tab'.wait # Nothing => tab'.page = "loading" /\ Awaited(tab'.wait)
  OBVIOUS
<1> QED
  BY <1>1, <1>2, <1>3, <1>4 DEF TabOK

LEMMA SameTab ==
  ASSUME TabOK, StateOK, tab' = tab, last'.how \in {"taken", "refused", "misfit", "typed"}
  PROVE  TabOK'
<1>1. PICK t : t = tab
  OBVIOUS
<1>2. t = [page |-> t.page, p |-> t.p, type |-> t.type, seen |-> t.seen,
           shell |-> t.shell, wait |-> t.wait]
  BY <1>1 DEF TabOK, WholeTab
<1>3. /\ t.p \in Projects \cup {Nothing} /\ t.shell \in Projects \cup {Nothing}
      /\ PageOK(t.page, t.p, t.type, t.seen) /\ Advanced(t.page, t.seen)
      /\ t.wait # Nothing => t.page = "loading" /\ Awaited(t.wait)
  BY <1>1 DEF TabOK, TypeOK
<1>4. t.page \in SplitPages => Splittable(doc')
  BY <1>1 DEF TabOK, StateOK
<1> QED
  BY <1>1, <1>2, <1>3, <1>4, NextTab

\* It waits for a request it may await.
LEMMA Loads ==
  ASSUME StateOK, NEW to, Awaited(to), NEW s \in Projects \cup {Nothing}, tab' = Loading(to, s),
         last'.how \in {"taken", "refused", "misfit", "typed"}
  PROVE  TabOK'
<1>1. PICK t : t = Loading(to, s)
  OBVIOUS
<1>2. /\ t = [page |-> t.page, p |-> t.p, type |-> t.type, seen |-> t.seen,
              shell |-> t.shell, wait |-> t.wait]
      /\ t.page = "loading" /\ t.p = Nothing /\ t.type = "-" /\ t.seen = Unborn
      /\ t.shell = s /\ t.wait = to
  BY <1>1 DEF Loading
<1>3. PageOK("loading", Nothing, "-", Unborn) /\ Advanced("loading", Unborn)
      /\ "loading" \notin SplitPages
  BY DEF PageOK, Advanced, RootPages, AddressPages, ImportPages, DocPages, SplitPages, Documents
<1> QED
  BY <1>1, <1>2, <1>3, NextTab

\* It shows a page.
LEMMA ShowsTab ==
  ASSUME StateOK, NEW page, NEW p \in Projects \cup {Nothing}, NEW type, NEW seen,
         NEW s \in Projects \cup {Nothing}, tab' = Showing(page, p, type, seen, s),
         PageOK(page, p, type, seen), Advanced(page, seen), page \in SplitPages => Splittable(doc'),
         last'.how \in {"taken", "refused", "misfit", "typed"}
  PROVE  TabOK'
<1>1. PICK t : t = Showing(page, p, type, seen, s)
  OBVIOUS
<1>2. /\ t = [page |-> t.page, p |-> t.p, type |-> t.type, seen |-> t.seen,
              shell |-> t.shell, wait |-> t.wait]
      /\ t.page = page /\ t.p = p /\ t.type = type /\ t.seen = seen
      /\ t.shell = s /\ t.wait = Nothing
  BY <1>1 DEF Showing
<1> QED
  BY <1>1, <1>2, NextTab

\* Before the answer, a request of a consistent tab is about the project that is
\* active, or switches to its own.
LEMMA Faithful ==
  ASSUME TabOK, NEW r, Sent(r), Consistent, tab.wait \notin Plain("boq", "/id", Nothing),
         tab.wait = Nothing => tab.shell = ActiveProjectMiddleware
  PROVE  /\ tab.p \in {Nothing, ActiveProjectMiddleware}
         /\ (Kept(r) /\ r \notin Plain("boq", "/id", Nothing)) \/ Switches(r)
<1>1. CASE tab.wait = Nothing
  <2>1. tab.p \in {Nothing, ActiveProjectMiddleware}
    BY <1>1 DEF Consistent
  <2>2. r.at = "boq" => r.p # Nothing
    BY <1>1 DEF Sent, OfferOK, Belongs
  <2>3. r \notin Plain("boq", "/id", Nothing)
    BY <2>2, PlainIs DEF Asks
  <2>4. Kept(r) \/ Switches(r)
    BY <1>1, <2>1 DEF Sent, OfferOK, Belongs, Kept
  <2> QED
    BY <2>1, <2>3, <2>4
<1>2. CASE tab.wait # Nothing
  <2>1. r = tab.wait /\ tab.page = "loading"
    BY <1>2 DEF Sent, TabOK
  <2>2. PageOK("loading", tab.p, tab.type, tab.seen)
    BY <2>1 DEF TabOK
  <2>3. tab.p = Nothing
    BY <2>2 DEF PageOK, ProjectPages, OpenPages
  <2>4. Kept(r)
    BY <1>2, <2>1 DEF Consistent, Kept
  <2> QED
    BY <2>1, <2>3, <2>4
<1> QED
  BY <1>1, <1>2

\* A right answer leaves the reader's tab right, where it fits, fairly, in its shell.
LEMMA Lands ==
  ASSUME TabOK, NEW r, Sent(r), NEW a, AnswerOK(r, a), Reply("reader", r, a), StateOK
  PROVE  TabOK' /\ LandsWhereItFits' /\ OffersKept /\ ShellKept
<1>1. /\ tab' = Landed(r, a)
      /\ last' = [how |-> Outcome(r, a), req |-> IF Outcome(r, a) = "taken" THEN Nothing ELSE r]
  BY DEF Reply
<1>2. Outcome(r, a) \in {"taken", "refused", "misfit"}
  BY DEF Outcome
<1>3. last'.how = Outcome(r, a) /\ (last'.how # "taken" => last'.req = r)
  BY <1>1
<1>4. last'.how \in {"taken", "refused", "misfit", "typed"}
  BY <1>2, <1>3
<1>5. OffersKept
  <2>1. a.kind = "refused" => Fair(r)
    BY DEF AnswerOK, Slots
  <2>2. last'.how = "refused" => a.kind = "refused" /\ last'.req = r
    BY <1>3 DEF Outcome
  <2> QED
    BY <2>1, <2>2 DEF OffersKept, Fair
<1>6. LandsWhereItFits'
  <2>1. Misfit(r, a) => Excused(r)
    BY DEF AnswerOK, Misfit, Slots
  <2>2. last'.how = "misfit" => Misfit(r, a) /\ last'.req = r
    BY <1>3 DEF Outcome
  <2> QED
    BY <2>1, <2>2 DEF LandsWhereItFits, Excused
<1>7. /\ tab.shell \in Projects \cup {Nothing} /\ tab.p \in Projects \cup {Nothing}
      /\ ActiveProjectMiddleware \in Projects \cup {Nothing}
  BY DEF TabOK, TypeOK, ActiveProjectMiddleware
<1>8. r.p \in Projects \cup {Nothing}
  BY SentIs DEF Plausible
<1>9. ASSUME a.kind \in {"goto", "moved"}
      PROVE  TabOK' /\ ShellKept
  <2>1. LeadsOn(r, a.to)
    BY <1>9 DEF AnswerOK, Slots
  <2>2. PICK to, s : to = a.to /\ s \in {Nothing, tab.shell} /\ tab' = Loading(to, s)
    BY <1>1, <1>9 DEF Landed
  <2>3. TabOK'
    BY <1>4, <1>7, <2>1, <2>2, Loads DEF LeadsOn
  <2>4. tab'.p = Nothing /\ tab'.wait = to
    BY <2>2 DEF Loading
  <2>5. ShellKept
    <3> SUFFICES ASSUME Consistent, tab.wait \notin Plain("boq", "/id", Nothing),
                        tab.wait = Nothing => tab.shell = ActiveProjectMiddleware
                 PROVE  Consistent'
      BY DEF ShellKept
    <3>1. to.p \in {Nothing, ActiveProjectMiddleware'}
      <4> HIDE DEF Switches
      <4> QED
        BY <2>1, <2>2, Faithful DEF LeadsOn
    <3> QED
      BY <2>4, <3>1 DEF Consistent
  <2> QED
    BY <2>3, <2>5
<1>10. ASSUME a.kind \in {"refused", "complaint"}, r.into = "page"
       PROVE  TabOK' /\ ShellKept
  <2>1. tab' = Showing("error", Nothing, "-", Unborn, Nothing)
    BY <1>1, <1>10 DEF Landed, ErrorPage
  <2>2. PageOK("error", Nothing, "-", Unborn) /\ Advanced("error", Unborn) /\ "error" \notin SplitPages
    BY DEF PageOK, Advanced, RootPages, AddressPages, ImportPages, DocPages, SplitPages, Documents
  <2>3. TabOK'
    BY <1>4, <2>1, <2>2, ShowsTab
  <2>4. tab'.p = Nothing /\ tab'.wait = Nothing
    BY <2>1 DEF Showing
  <2> QED
    BY <2>3, <2>4 DEF ShellKept, Consistent
<1>11. ASSUME a.kind \in {"refused", "complaint", "stay"},
              ~(a.kind \in {"refused", "complaint"} /\ r.into = "page")
       PROVE  TabOK' /\ ShellKept
  <2>1. tab' = [tab EXCEPT !.wait = Nothing]
    BY <1>1, <1>11 DEF Landed
  <2>2. PICK page, p, type, seen, s : /\ page = tab.page /\ p = tab.p /\ type = tab.type
                                      /\ seen = tab.seen /\ s = tab.shell
    OBVIOUS
  <2>3. tab' = Showing(page, p, type, seen, s)
    BY <2>1, <2>2 DEF TabOK, WholeTab, Showing
  <2>4. PageOK(page, p, type, seen) /\ Advanced(page, seen)
    BY <2>2 DEF TabOK
  <2>5. page \in SplitPages => Splittable(doc')
    BY <2>2 DEF TabOK, StateOK
  <2>6. TabOK'
    BY <1>4, <1>7, <2>2, <2>3, <2>4, <2>5, ShowsTab
  <2>7. ShellKept
    <3> SUFFICES ASSUME tab' # tab PROVE Consistent'
      BY DEF ShellKept
    <3>1. tab.wait # Nothing
      BY <2>1 DEF TabOK, WholeTab
    <3>2. page = "loading"
      BY <2>2, <3>1 DEF TabOK
    <3>3. p = Nothing
      BY <2>4, <3>2 DEF PageOK, ProjectPages, OpenPages
    <3>4. tab'.p = Nothing /\ tab'.wait = Nothing
      BY <2>3, <3>3 DEF Showing
    <3> QED
      BY <3>4 DEF Consistent
  <2> QED
    BY <2>6, <2>7
<1>12. ASSUME a.kind \in {"content", "full"} \cup Slots
       PROVE  TabOK' /\ ShellKept
  <2>1. ShowsWell(r, a.page, a.p, a.type, a.seen)
    BY <1>12 DEF AnswerOK, Slots
  <2>2. PICK page, p, type, seen : page = a.page /\ p = a.p /\ type = a.type /\ seen = a.seen
    OBVIOUS
  <2>3. /\ PageOK(page, p, type, seen) /\ Advanced(page, seen)
        /\ page \in SplitPages => Splittable(doc')
        /\ p \in {Nothing, r.p, tab.p}
        /\ Switches(r) => p \in {Nothing, ActiveProjectMiddleware}
    <3> HIDE DEF Switches
    <3> QED
      BY <2>1, <2>2 DEF ShowsWell
  <2>4. p \in Projects \cup {Nothing}
    BY <1>7, <1>8, <2>3
  <2>5. CASE tab' = tab
    BY <1>4, <2>5, SameTab DEF ShellKept
  <2>6. ASSUME NEW s, s \in {ActiveProjectMiddleware, tab.shell},
               s = ActiveProjectMiddleware \/ r.into # "page",
               tab' = Showing(page, p, type, seen, s)
        PROVE  TabOK' /\ ShellKept
    <3>1. TabOK'
      BY <1>4, <1>7, <2>3, <2>4, <2>6, ShowsTab
    <3>2. tab'.p = p /\ tab'.wait = Nothing /\ tab'.shell = s
      BY <2>6 DEF Showing
    <3>3. ShellKept
      <4> SUFFICES ASSUME Consistent, tab.wait \notin Plain("boq", "/id", Nothing),
                          tab.wait = Nothing => tab.shell = ActiveProjectMiddleware
                   PROVE  Consistent'
        BY DEF ShellKept
      <4>1. p \in {Nothing, ActiveProjectMiddleware}
        <5> HIDE DEF Switches
        <5> QED
          BY <2>3, Faithful DEF Kept
      <4>2. p \in {Nothing, s}
        <5>1. CASE tab.wait = Nothing
          BY <2>6, <4>1, <5>1
        <5>2. CASE tab.wait # Nothing /\ r.into = "page"
          BY <2>6, <4>1, <5>2
        <5>3. CASE tab.wait # Nothing /\ r.into # "page"
          <6>1. r.p = Nothing /\ tab.page = "loading"
            BY <5>3 DEF Sent, Awaited, TabOK
          <6>2. PageOK("loading", tab.p, tab.type, tab.seen)
            BY <6>1 DEF TabOK
          <6>3. tab.p = Nothing
            BY <6>2 DEF PageOK, ProjectPages, OpenPages
          <6> QED
            BY <2>3, <6>1, <6>3
        <5> QED
          BY <5>1, <5>2, <5>3
      <4> QED
        BY <3>2, <4>2 DEF Consistent
    <3> QED
      BY <3>1, <3>3
  <2>7. \/ tab' = tab
        \/ \E s : /\ s \in {ActiveProjectMiddleware, tab.shell}
                  /\ s = ActiveProjectMiddleware \/ r.into # "page"
                  /\ tab' = Showing(page, p, type, seen, s)
    <3>1. a.kind \notin {"goto", "moved", "refused", "complaint", "stay"}
      BY <1>12 DEF Slots
    <3>2. Landed(r, a) = IF r.into = "page"
                         THEN Showing(page, p, type, seen, ActiveProjectMiddleware)
                         ELSE IF Misfit(r, a) /\ r.into # "main" THEN tab
                         ELSE Showing(page, p, type, seen, tab.shell)
      BY <2>2, <3>1 DEF Landed
    <3> QED
      BY <1>1, <3>2
  <2> QED
    BY <2>5, <2>6, <2>7
<1>13. a.kind \in {"goto", "moved"} \cup {"refused", "complaint", "stay"}
                  \cup {"content", "full"} \cup Slots
  BY DEF AnswerOK
<1> QED
  BY <1>5, <1>6, <1>9, <1>10, <1>11, <1>12, <1>13

\* The other tabs do not touch it.
LEMMA LandsElsewhere ==
  ASSUME TabOK, NEW r, NEW a, Reply("elsewhere", r, a), StateOK
  PROVE  TabOK' /\ LandsWhereItFits' /\ OffersKept /\ ShellKept
<1>1. tab' = tab /\ last' = [how |-> "taken", req |-> Nothing]
  BY DEF Reply, Quiet
<1>2. last'.how = "taken"
  BY <1>1
<1>3. TabOK'
  BY <1>1, <1>2, SameTab
<1> QED
  BY <1>1, <1>2, <1>3 DEF LandsWhereItFits, OffersKept, ShellKept

-----------------------------------------------------------------------------
(* The steps.                                                                *)
LEMMA BookmarksAwaited ==
  ASSUME NEW r \in Bookmarks
  PROVE  Awaited(r)
<1>1. Home \in Projects /\ Nothing \notin Projects /\ AddressTypes \subseteq AllTypes
  BY PagesAssumption
<1>2. ASSUME NEW at, NEW rest, NEW p, r \in Plain(at, rest, p),
             \/ at = "home" /\ rest = "-" /\ p = Nothing
             \/ at = "boq" /\ rest \in {"-", "/id"} /\ p = Nothing
             \/ at \in {"shipment-groups", "dcs"} /\ rest = "/id" /\ p = Home
             \/ at \in {"projects", "po"} /\ rest = "-" /\ p \in Projects
      PROVE  Awaited(r)
  <2>1. Asks(r, "GET", at, rest, p, {"page"})
    BY <1>2, PlainIs
  <2>2. Routed(r)
    BY <1>1, <1>2, <2>1, HomeRouted, BillsRouted, GroupsRouted, DCsRouted, ProjectRouted, PORouted
       DEF Asks
  <2>3. Plausible(r)
    BY <1>1, <1>2, <2>1 DEF Asks, Plausible
  <2>4. r.at = "boq" /\ r.p = Nothing => r \in Plain("boq", "-", Nothing) \cup Plain("boq", "/id", Nothing)
    BY <1>1, <1>2, <2>1 DEF Asks
  <2> QED
    BY <1>2, <2>1, <2>2, <2>3, <2>4 DEF Asks, Awaited
<1>3. ASSUME NEW q \in Projects, NEW t \in AddressTypes,
             r \in OfType(Plain("addresses", "-", q), addressTypeToSlug[t])
      PROVE  Awaited(r)
  <2>1. PICK slug : slug = addressTypeToSlug[t]
    OBVIOUS
  <2>2. r.verb = "GET" /\ r.at = "addresses" /\ r.rest = "-" /\ r.p = q /\ r.type = slug /\ r.into = "page"
    BY <1>3, <2>1, OfTypeIs, PlainIs DEF Asks
  <2>3. slug \in RegisteredSlugs /\ TypeOfSlug(slug) \in AddressTypes
    BY <1>1, <2>1, Slugs
  <2>4. Routed(r)
    BY <2>2, <2>3, TypedRouted
  <2>5. Plausible(r)
    BY <1>1, <2>2, <2>3 DEF Plausible
  <2> QED
    BY <1>1, <2>2, <2>4, <2>5 DEF Awaited
<1> QED
  BY <1>2, <1>3 DEF Bookmarks

\* The first request is for the root.
LEMMA Starts == Init => TabOK /\ LandsWhereItFits
<1> SUFFICES ASSUME Init PROVE TabOK /\ LandsWhereItFits
  OBVIOUS
<1>1. PICK to : to = Send("GET", "home", "-", Nothing, "page") /\ tab = Loading(to, Nothing)
  BY DEF Init
<1>2. Awaited(to)
  <2>1. to \in Plain("home", "-", Nothing)
    BY <1>1 DEF Plain
  <2>2. to \in Bookmarks
    BY <2>1 DEF Bookmarks
  <2> QED
    BY <2>2, BookmarksAwaited
<1>3. /\ tab.page = "loading" /\ tab.p = Nothing /\ tab.type = "-" /\ tab.seen = Unborn
      /\ tab.shell = Nothing /\ tab.wait = to /\ WholeTab
  BY <1>1 DEF Loading, WholeTab
<1>4. PageOK("loading", Nothing, "-", Unborn) /\ Advanced("loading", Unborn)
      /\ "loading" \notin SplitPages
  BY DEF PageOK, Advanced, RootPages, AddressPages, ImportPages, DocPages, SplitPages, Documents
<1>5. doc \in Documents /\ Unborn \in Documents
  BY DEF Init, Documents
<1>6. last.how = "taken"
  BY DEF Init, Quiet
<1>7. TypeOK
  BY <1>3, <1>5, <1>6 DEF Init, TypeOK
<1>8. TabOK
  BY <1>2, <1>3, <1>4, <1>7 DEF TabOK
<1> QED
  BY <1>6, <1>8 DEF LandsWhereItFits

\* One step, of the reader or of another tab.
LEMMA Steps ==
  ASSUME TabOK, LandsWhereItFits, [Next]_vars
  PROVE  TabOK' /\ LandsWhereItFits' /\ (OffersKept \/ UNCHANGED vars) /\ ShellKept
<1>1. CASE Follow
  <2>1. PICK r \in Offered : Serve("reader", r)
    BY <1>1 DEF Follow
  <2>2. Sent(r)
    BY <2>1, OffersSent
  <2>3. Plausible(r)
    BY <2>2, SentIs
  <2>4. StateOK /\ Answered("reader", r)
    BY <2>1, <2>2, <2>3, Served
  <2>5. PICK a : Reply("reader", r, a) /\ AnswerOK(r, a)
    BY <2>4 DEF Answered
  <2> QED
    BY <2>2, <2>4, <2>5, Lands
<1>2. CASE Load
  <2>1. PICK r : r = tab.wait /\ tab.wait # Nothing /\ Serve("reader", r)
    BY <1>2 DEF Load
  <2>2. Sent(r)
    BY <2>1 DEF Sent, TabOK
  <2>3. Plausible(r)
    BY <2>2, SentIs
  <2>4. StateOK /\ Answered("reader", r)
    BY <2>1, <2>2, <2>3, Served
  <2>5. PICK a : Reply("reader", r, a) /\ AnswerOK(r, a)
    BY <2>4 DEF Answered
  <2> QED
    BY <2>2, <2>4, <2>5, Lands
<1>3. CASE Type
  <2>1. PICK r \in Bookmarks : tab' = Loading(r, Nothing)
    BY <1>3 DEF Type
  <2>2. last'.how = "typed" /\ UNCHANGED <<projects, doc, active>>
    BY <1>3 DEF Type
  <2>3. StateOK
    BY <2>2 DEF StateOK, TabOK, TypeOK
  <2>4. TabOK'
    BY <2>1, <2>2, <2>3, BookmarksAwaited, Loads
  <2> QED
    BY <2>2, <2>4 DEF LandsWhereItFits, OffersKept, ShellKept
<1>4. CASE Elsewhere
  <2>1. PICK r \in Changes : Serve("elsewhere", r)
    BY <1>4 DEF Elsewhere
  <2>2. Plausible(r)
    BY <2>1, ChangesPlausible
  <2>3. PICK who : who = "elsewhere"
    OBVIOUS
  <2>4. StateOK /\ Answered(who, r)
    BY <2>1, <2>2, <2>3, Served
  <2>5. PICK a : Reply("elsewhere", r, a)
    BY <2>3, <2>4 DEF Answered
  <2> QED
    BY <2>4, <2>5, LandsElsewhere
<1>5. CASE UNCHANGED vars
  <2>1. tab' = tab /\ last' = last /\ UNCHANGED <<projects, doc, active>>
    BY <1>5 DEF vars
  <2>2. StateOK /\ last'.how \in {"taken", "refused", "misfit", "typed"}
    BY <2>1 DEF StateOK, TabOK, TypeOK
  <2>3. TabOK'
    BY <2>1, <2>2, SameTab
  <2> QED
    BY <1>5, <2>1, <2>3 DEF LandsWhereItFits, ShellKept
<1> QED
  BY <1>1, <1>2, <1>3, <1>4, <1>5 DEF Next

-----------------------------------------------------------------------------
\* The invariant: the page, the document it shows, the project and the type it
\* is about, and the request it waits for, fit each other.
THEOREM TabStaysOK == Spec => [](TabOK /\ LandsWhereItFits)
<1>1. TabOK /\ LandsWhereItFits /\ [Next]_vars => (TabOK /\ LandsWhereItFits)'
  BY Steps
<1> QED
  BY Starts, <1>1, PTL DEF Spec

\* For any projects and address types: every link, button, form and redirect of
\* every page leads to a registered handler, but for the dead links that
\* DeadLinks names and the redirect that DeadRedirect names; and every variable
\* has its type.
THEOREM EveryLinkLeads == Spec => []NoDeadLinks
<1>1. TabOK => NoDeadLinks
  <2> SUFFICES ASSUME TabOK PROVE NoDeadLinks
    OBVIOUS
  <2>1. TypeOK /\ (tab.wait # Nothing => Routed(tab.wait) \/ DeadRedirect(tab.wait))
    BY DEF TabOK, Awaited
  <2>2. ASSUME NEW r \in Offered
        PROVE  Routed(r) \/ DeadLinks(r)
    <3>1. OfferOK(r, tab.page, tab.p, tab.shell, tab.seen)
      BY <2>2, OffersSent DEF Sent
    <3> QED
      BY <3>1 DEF OfferOK, Dead, DeadLinks, ImportPages
  <2> QED
    BY <2>1, <2>2 DEF NoDeadLinks
<1> QED
  BY <1>1, TabStaysOK, PTL

\* For any projects and address types: what a handler renders fits the place it
\* is put in, but for the two requests that LandsWhereItFits names.
THEOREM EveryAnswerFits == Spec => []LandsWhereItFits
BY TabStaysOK, PTL

\* For any projects and address types: a page that is not stale offers nothing
\* that is refused, but for the buttons that Refusable names.
THEOREM FreshOffersAreTaken == Spec => OffersAreTaken
<1>1. TabOK /\ LandsWhereItFits /\ [Next]_vars
      => [last'.how = "refused" /\ tab.wait = Nothing /\ Fresh(last'.req)
          => Refusable(last'.req)]_vars
  BY Steps DEF OffersKept
<1> QED
  BY <1>1, TabStaysOK, PTL DEF Spec, OffersAreTaken

\* For any projects and address types: as long as no other tab switches projects,
\* the sidebar belongs to the project of the page.
THEOREM SidebarFollows == Spec => ShellFollowsBody
<1>1. TabOK /\ LandsWhereItFits /\ [Next]_vars
      => [/\ tab' # tab /\ last'.how # "typed" /\ Consistent
          /\ tab.wait \notin Plain("boq", "/id", Nothing)
          /\ tab.wait = Nothing => tab.shell = ActiveProjectMiddleware
          => Consistent']_vars
  BY Steps DEF ShellKept
<1> QED
  BY <1>1, TabStaysOK, PTL DEF Spec, ShellFollowsBody
=============================================================================
