------------------------------- MODULE Startup -------------------------------
(****************************************************************************)
(* Projects and what belongs to them across restarts: the seed and the      *)
(* three migrations main.go runs before it serves (collections/seed.go,     *)
(* migrate_projects.go, migrate_address_settings.go, migrate_addresses.go), *)
(* and the handlers that create and delete projects, BOQs and addresses     *)
(* between two starts.  Each Save and Delete is a step, a crash may fall    *)
(* between any two of them, and any of them may fail.                       *)
(*                                                                          *)
(* Only the relations are modelled: which project a BOQ, an address, a row  *)
(* of project_address_settings or of address_configs belongs to.            *)
(****************************************************************************)
EXTENDS Naturals, FiniteSets

CONSTANTS
    Projects, BOQs, Addresses,  \* record ids; an id nothing mentions is reused
    AddressTypes,  \* values of addresses.address_type
    SettingTypes,  \* the types project_address_settings is filled for
    ConfigTypes,   \* the types address_configs is filled for at start-up
    Requests,      \* request goroutines
    Main,          \* the goroutine that starts the server
    MaxLive,       \* bound: projects and BOQs are created by hand below it only
    MaxFaults,     \* bound: crashes and failed calls together
    NoProject,     \* boqs.project is empty
    Gone,          \* no such record
    None           \* nothing picked

ASSUME StartupAssumption ==
    /\ NoProject \notin Projects /\ Gone \notin Projects \cup {NoProject}
    /\ None \notin BOQs
    /\ Main \notin Requests /\ IsFiniteSet(Requests)
    /\ MaxLive \in Nat /\ MaxFaults \in Nat

Workers == Requests \cup {Main}

VARIABLES
    live,      \* projects
    named,     \* the BOQ whose title a project was given as its name
    link,      \* boqs.project
    addr,      \* addresses
    settings,  \* project_address_settings, as pairs of project and type
    config,    \* address_configs, as pairs of project and type
    mode,      \* the server process
    job,       \* what each goroutine is in the middle of
    clean,     \* ghost: no save has failed since the process was started
    faults     \* ghost: crashes and failed calls so far

db == <<live, named, link, addr, settings, config>>
vars == <<db, mode, job, clean, faults>>

\* op: the loop the goroutine is in; todo: what is left of the rows it has
\* queried; p, x: the project and the row it is at.
Idle == [op |-> "idle", todo |-> {}, p |-> NoProject, x |-> None]
Job(op, todo, p, x) == [op |-> op, todo |-> todo, p |-> p, x |-> x]

Address == [p : Projects, type : AddressTypes, config : BOOLEAN]
NewAddress(p, type, hasConfig) == [p |-> p, type |-> type, config |-> hasConfig]

ConfigType(type) == IF type = "ship_from" THEN "dispatch_from" ELSE type

Exists(a) == addr[a] # Gone
AddressesOf(p) == {a \in Addresses : Exists(a) /\ addr[a].p = p}
BOQsOf(p) == {b \in BOQs : link[b] = p}
Orphans == BOQsOf(NoProject)
Of(rows, p) == {r \in rows : r[1] = p}

Mentioned == {job[w].p : w \in Workers}
    \cup UNION {{r[1] : r \in {t \in job[w].todo : t \notin BOQs}} : w \in Workers}
FreeProjects == Projects \ (live \cup Mentioned)

\* A database from any earlier version: BOQs that know no project, projects
\* without settings and configs, addresses that have only the fixed columns.
Init ==
    /\ live \in SUBSET Projects /\ Cardinality(live) <= MaxLive
    /\ named = [p \in Projects |-> None]
    /\ link \in [BOQs -> live \cup {NoProject, Gone}]
    /\ addr \in [Addresses -> {Gone} \cup {NewAddress(p, t, FALSE) : p \in live, t \in AddressTypes}]
    /\ settings = {} /\ config = {}
    /\ mode = "down" /\ job = [w \in Workers |-> Idle]
    /\ clean = TRUE /\ faults = 0

-----------------------------------------------------------------------------
At(w, op) == job[w].op = op
Go(w, j) == job' = [job EXCEPT ![w] = j] /\ UNCHANGED mode
Rest(w, t) == job[w].todo \ {t}

Saved == UNCHANGED <<clean, faults>>
\* PocketBase refuses a record whose required relation does not exist.
Refused == UNCHANGED db /\ clean' = FALSE /\ UNCHANGED faults
Fails == UNCHANGED db /\ clean' = FALSE /\ faults < MaxFaults /\ faults' = faults + 1

NewProject(p, name) ==
    /\ live' = live \cup {p}
    /\ named' = [named EXCEPT ![p] = name]
    /\ UNCHANGED <<link, addr, settings, config>>

\* The seed saves a project, then its BOQ, addresses and settings one by one.
\* Where the bounds leave no id for a BOQ or an address, that save is left out.
After == [project |-> "boq", boq |-> "address", address |-> "settings", settings |-> "done"]
SeedGoes(w, p) == Go(w, Job("seed", {}, p, After[job[w].x]))

SeedProject(w) ==
    /\ At(w, "seed") /\ job[w].x = "project"
    /\ \E p \in FreeProjects : NewProject(p, None) /\ SeedGoes(w, p)
    /\ Saved

SeedBOQ(w) ==
    /\ At(w, "seed") /\ job[w].x = "boq" /\ SeedGoes(w, job[w].p)
    /\ \/ \E b \in BOQsOf(Gone) : link' = [link EXCEPT ![b] = job[w].p]
       \/ BOQsOf(Gone) = {} /\ UNCHANGED link
    /\ UNCHANGED <<live, named, addr, settings, config>> /\ Saved

SeedAddress(w) ==
    /\ At(w, "seed") /\ job[w].x = "address" /\ SeedGoes(w, job[w].p)
    /\ \/ \E a \in Addresses, t \in AddressTypes :
            ~Exists(a) /\ addr' = [addr EXCEPT ![a] = NewAddress(job[w].p, t, FALSE)]
       \/ (\A a \in Addresses : Exists(a)) /\ UNCHANGED addr
    /\ UNCHANGED <<live, named, link, settings, config>> /\ Saved

SeedSettings(w) ==
    /\ At(w, "seed") /\ job[w].x = "settings" /\ SeedGoes(w, job[w].p)
    /\ settings' = settings \cup ({job[w].p} \X SettingTypes)
    /\ UNCHANGED <<live, named, link, addr, config>> /\ Saved

\* A seed that fails half way is logged, and the start goes on.
SeedEnds(w) ==
    /\ At(w, "seed") /\ Go(w, Job("orphans", {}, NoProject, None))
    /\ \/ job[w].x = "done" /\ UNCHANGED db /\ Saved
       \/ job[w].x # "done" /\ Fails

\* Mutant: the start goes straight to the migration of the addresses.
SeedOrSkip == Job("configs", {}, NoProject, None)

\* OnServe: Setup, and the seed unless there is a project.
SeedOrNot == IF live = {} THEN Job("seed", {}, NoProject, "project")
                          ELSE Job("orphans", {}, NoProject, None)

Start ==
    /\ mode = "down" /\ mode' = "starting" /\ clean' = TRUE
    /\ job' = [job EXCEPT ![Main] = SeedOrNot]
    /\ UNCHANGED <<db, faults>>

-----------------------------------------------------------------------------
\* MigrateOrphanBOQsToProjects: query once, then for each BOQ save a project
\* and save the link; a failed save goes on to the next BOQ.
QueryOrphans(w) ==
    /\ At(w, "orphans") /\ Go(w, Job("adopt", Orphans, NoProject, None))
    /\ UNCHANGED db /\ Saved

\* Mutant: as HandleProjectSave does, refuse a name that is taken.
AdoptProjectOnce(w) ==
    /\ At(w, "adopt") /\ job[w].x = None
    /\ \E b \in job[w].todo :
        \/ \E p \in FreeProjects :
             /\ \A q \in live : named[q] # b
             /\ NewProject(p, b) /\ Saved /\ Go(w, Job("adopt", Rest(w, b), p, b))
        \/ /\ \E q \in live : named[q] = b
           /\ UNCHANGED db /\ Saved /\ Go(w, Job("adopt", Rest(w, b), NoProject, None))
        \/ Fails /\ Go(w, Job("adopt", Rest(w, b), NoProject, None))

AdoptProject(w) ==
    /\ At(w, "adopt") /\ job[w].x = None
    /\ \E b \in job[w].todo :
        \/ \E p \in FreeProjects :
             NewProject(p, b) /\ Saved /\ Go(w, Job("adopt", Rest(w, b), p, b))
        \/ Fails /\ Go(w, Job("adopt", Rest(w, b), NoProject, None))

\* Mutant: the link is set on the record and the record is not saved.
AdoptLinkUnsaved(w) ==
    /\ At(w, "adopt") /\ job[w].x # None
    /\ UNCHANGED db /\ Saved
    /\ Go(w, Job("adopt", job[w].todo, NoProject, None))

AdoptLink(w) ==
    /\ At(w, "adopt") /\ job[w].x # None
    /\ \/ link' = [link EXCEPT ![job[w].x] = job[w].p]
          /\ UNCHANGED <<live, named, addr, settings, config>> /\ Saved
       \/ Fails
    /\ Go(w, Job("adopt", job[w].todo, NoProject, None))

AdoptEnds(w) ==
    /\ At(w, "adopt") /\ job[w].x = None /\ job[w].todo = {}
    /\ Go(w, Job("settings", {}, NoProject, None)) /\ UNCHANGED db /\ Saved

\* MigrateDefaultAddressSettings: one row for every project and type that has
\* none, of all projects; also the second half of HandleProjectSave.
QuerySettings(w) ==
    /\ At(w, "settings") /\ Go(w, Job("setting", live \X SettingTypes, NoProject, None))
    /\ UNCHANGED db /\ Saved

\* Mutant: the relation is not checked.
SaveSettingBlindly(w) ==
    /\ At(w, "setting")
    /\ \E r \in job[w].todo :
        /\ Go(w, Job("setting", Rest(w, r), NoProject, None))
        /\ settings' = settings \cup {r}
        /\ UNCHANGED <<live, named, link, addr, config>> /\ Saved

SaveSetting(w) ==
    /\ At(w, "setting")
    /\ \E r \in job[w].todo :
        /\ Go(w, Job("setting", Rest(w, r), NoProject, None))
        /\ \/ /\ r \in settings \/ r[1] \in live
              /\ settings' = settings \cup {r}
              /\ UNCHANGED <<live, named, link, addr, config>> /\ Saved
           \/ r \notin settings /\ r[1] \notin live /\ Refused
           \/ r \notin settings /\ r[1] \in live /\ Fails

SettingsEnd(w) ==
    /\ At(w, "setting") /\ job[w].todo = {} /\ UNCHANGED db /\ Saved
    /\ Go(w, IF w = Main THEN Job("configs", {}, NoProject, None) ELSE Idle)

\* MigrateAddressesToFlexible: for every project and type without a config,
\* save the config and then every address of the type.  A config that exists
\* is taken to mean that its addresses were moved; any failed save ends it.
QueryConfigs(w) ==
    /\ At(w, "configs") /\ Go(w, Job("configure", live \X ConfigTypes, NoProject, None))
    /\ UNCHANGED db /\ Saved

OldAddresses(r) == {a \in AddressesOf(r[1]) : addr[a].type = r[2] /\ ~addr[a].config}

Configure(w) ==
    /\ At(w, "configure") /\ job[w].x = None
    /\ \E r \in job[w].todo :
        \/ /\ r \in config /\ UNCHANGED db /\ Saved
           /\ Go(w, Job("configure", Rest(w, r), NoProject, None))
        \/ /\ r \notin config /\ config' = config \cup {r}
           /\ UNCHANGED <<live, named, link, addr, settings>> /\ Saved
           /\ Go(w, Job("configure", Rest(w, r), r[1], r[2]))
        \/ r \notin config /\ Fails /\ Go(w, Job("serve", {}, NoProject, None))

MoveAddress(w) ==
    /\ At(w, "configure") /\ job[w].x # None
    /\ LET old == OldAddresses(<<job[w].p, job[w].x>>) IN
        \/ /\ old = {} /\ UNCHANGED db /\ Saved
           /\ Go(w, Job("configure", job[w].todo, NoProject, None))
        \/ \E a \in old :
           \/ /\ addr' = [addr EXCEPT ![a].config = TRUE]
              /\ UNCHANGED <<live, named, link, settings, config>> /\ Saved
              /\ UNCHANGED <<job, mode>>
           \/ Fails /\ Go(w, Job("serve", {}, NoProject, None))

ConfigsEnd(w) ==
    /\ At(w, "configure") /\ job[w].x = None /\ job[w].todo = {}
    /\ Go(w, Job("serve", {}, NoProject, None)) /\ UNCHANGED db /\ Saved

\* se.Next(): the router is built and the server answers.
Serve(w) ==
    /\ At(w, "serve") /\ mode' = "serving"
    /\ job' = [job EXCEPT ![w] = Idle] /\ UNCHANGED <<db, clean, faults>>

-----------------------------------------------------------------------------
Ready(w) == mode = "serving" /\ At(w, "idle")
Done == UNCHANGED <<mode, job>>

\* HandleProjectSave: the project, then the settings of all projects.
HandleProjectSave(w) ==
    /\ Ready(w) /\ Cardinality(live) < MaxLive
    /\ \E p \in FreeProjects : NewProject(p, None)
    /\ Saved /\ Go(w, Job("settings", {}, NoProject, None))

\* HandleProjectDelete: the BOQs found are deleted or unlinked one by one,
\* failures are logged; then the project is deleted.
HandleProjectDelete(w) ==
    /\ Ready(w)
    /\ \E p \in live, deleteBoqs \in BOOLEAN :
        Go(w, Job("leave", BOQsOf(p), p, IF deleteBoqs THEN Gone ELSE NoProject))
    /\ UNCHANGED db /\ Saved

\* A deleted BOQ is no project's name-giver any more.
Unnamed(b) == [p \in Projects |-> IF named[p] = b THEN None ELSE named[p]]

LeaveBOQ(w) ==
    /\ At(w, "leave")
    /\ \E b \in job[w].todo :
        /\ Go(w, [job[w] EXCEPT !.todo = Rest(w, b)])
        /\ \/ /\ link[b] # Gone
              /\ link' = [link EXCEPT ![b] = job[w].x]
              /\ named' = IF job[w].x = Gone THEN Unnamed(b) ELSE named
              /\ UNCHANGED <<live, addr, settings, config>> /\ Saved
           \/ link[b] = Gone /\ UNCHANGED db /\ Saved
           \/ Fails

\* Setup: addresses, settings and configs cascade with their project, and the
\* link of a BOQ that is left is emptied.
Cascade(p) ==
    /\ live' = live \ {p}
    /\ named' = [named EXCEPT ![p] = None]
    /\ link' = [b \in BOQs |-> IF link[b] = p THEN NoProject ELSE link[b]]
    /\ addr' = [a \in Addresses |-> IF a \in AddressesOf(p) THEN Gone ELSE addr[a]]
    /\ settings' = settings \ Of(settings, p)
    /\ config' = config \ Of(config, p)

\* transfer_dc_destinations.ship_to_address is required and does not cascade:
\* a project one of whose addresses is a destination may be refused to go, which
\* is a failed call like any other.
DeleteProject(w) ==
    /\ At(w, "leave") /\ job[w].todo = {} /\ Go(w, Idle)
    /\ \/ Cascade(job[w].p) /\ Saved
       \/ Fails

\* The handlers of BOQs and addresses, whose last save is the one that counts.
HandleBOQSave ==
    /\ Cardinality(live) <= MaxLive
    /\ \E b \in BOQsOf(Gone), p \in live : link' = [link EXCEPT ![b] = p]
    /\ UNCHANGED <<live, named, addr, settings, config>>

HandleBOQDelete ==
    /\ \E b \in BOQs \ BOQsOf(Gone) :
        link' = [link EXCEPT ![b] = Gone] /\ named' = Unnamed(b)
    /\ UNCHANGED <<live, addr, settings, config>>

HandleAddressSave ==
    /\ \E a \in Addresses, p \in live, t \in AddressTypes :
        /\ ~Exists(a) /\ addr' = [addr EXCEPT ![a] = NewAddress(p, t, TRUE)]
        /\ config' = config \cup {<<p, ConfigType(t)>>}
    /\ UNCHANGED <<live, named, link, settings>>

\* An import looks the config up and does not create it.
CommitAddressImport ==
    /\ \E a \in Addresses, p \in live, t \in AddressTypes :
        /\ ~Exists(a)
        /\ addr' = [addr EXCEPT ![a] = NewAddress(p, t, <<p, ConfigType(t)>> \in config)]
    /\ UNCHANGED <<live, named, link, settings, config>>

HandleAddressUpdate ==
    /\ \E a \in Addresses :
        /\ Exists(a) /\ ~addr[a].config
        /\ addr' = [addr EXCEPT ![a].config = TRUE]
        /\ config' = config \cup {<<addr[a].p, ConfigType(addr[a].type)>>}
    /\ UNCHANGED <<live, named, link, settings>>

HandleAddressDelete ==
    /\ \E a \in Addresses : Exists(a) /\ addr' = [addr EXCEPT ![a] = Gone]
    /\ UNCHANGED <<live, named, link, settings, config>>

\* HandleProjectSettingsSave creates what is missing of both.
HandleProjectSettingsSave ==
    /\ \E p \in live :
        /\ config' = config \cup ({p} \X ConfigTypes)
        /\ settings' = settings \cup ({p} \X SettingTypes)
    /\ UNCHANGED <<live, named, link, addr>>

Handle(w) ==
    /\ Ready(w) /\ Saved /\ Done
    /\ \/ HandleBOQSave \/ HandleBOQDelete
       \/ HandleAddressSave \/ CommitAddressImport \/ HandleAddressUpdate
       \/ HandleAddressDelete \/ HandleProjectSettingsSave

\* The process ends: killed in the middle of anything, or stopped at rest.
Crash ==
    /\ mode # "down" /\ faults < MaxFaults /\ faults' = faults + 1
    /\ mode' = "down" /\ job' = [w \in Workers |-> Idle]
    /\ UNCHANGED <<db, clean>>

Stop ==
    /\ mode = "serving" /\ \A w \in Workers : At(w, "idle")
    /\ mode' = "down" /\ UNCHANGED <<db, job, clean, faults>>

StartUp ==
    \/ Start \/ Serve(Main)
    \/ SeedProject(Main) \/ SeedBOQ(Main) \/ SeedAddress(Main) \/ SeedSettings(Main)
    \/ SeedEnds(Main)
    \/ QueryOrphans(Main) \/ AdoptProject(Main) \/ AdoptLink(Main) \/ AdoptEnds(Main)
    \/ QuerySettings(Main) \/ SaveSetting(Main) \/ SettingsEnd(Main)
    \/ QueryConfigs(Main) \/ Configure(Main) \/ MoveAddress(Main) \/ ConfigsEnd(Main)

Step(w) ==
    \/ QuerySettings(w) \/ SaveSetting(w) \/ SettingsEnd(w)
    \/ LeaveBOQ(w) \/ DeleteProject(w)

Next ==
    \/ StartUp
    \/ \E w \in Requests :
        Step(w) \/ HandleProjectSave(w) \/ HandleProjectDelete(w) \/ Handle(w)
    \/ Crash \/ Stop

Spec == Init /\ [][Next]_vars

\* A start and the rest of a request run to their end unless the process dies;
\* nothing makes a user call a handler.
Fairness == WF_vars(StartUp) /\ \A w \in Requests : WF_vars(Step(w))
FairSpec == Spec /\ Fairness

-----------------------------------------------------------------------------
TypeOK ==
    /\ live \subseteq Projects
    /\ named \in [Projects -> BOQs \cup {None}]
    /\ link \in [BOQs -> Projects \cup {NoProject, Gone}]
    /\ addr \in [Addresses -> Address \cup {Gone}]
    /\ settings \subseteq Projects \X SettingTypes
    /\ config \subseteq Projects \X {ConfigType(t) : t \in AddressTypes} \cup Projects \X ConfigTypes
    /\ mode \in {"down", "starting", "serving"}
    /\ clean \in BOOLEAN /\ faults \in 0..MaxFaults
    /\ \A w \in Requests : job[w].op \in {"idle", "settings", "setting", "leave"}
    /\ \A w \in Workers : job[w] # Idle =>
          mode = (IF w = Main THEN "starting" ELSE "serving")

\* Whatever belongs to a project belongs to one that exists: a project can be
\* deleted while another request saves settings for it, and a start can adopt
\* BOQs a deletion that was cut short has left.
OwnersLive ==
    /\ TypeOK
    /\ \A b \in BOQs : link[b] \in live \cup {NoProject, Gone}
    /\ \A a \in Addresses : Exists(a) => addr[a].p \in live
    /\ \A r \in settings \cup config : r[1] \in live

\* A start that is not itself hit by a fault repairs whatever earlier crashes
\* and failed saves have left: when it serves, every BOQ has a project and
\* every project all its settings and configs.  (Not so what is in an address: a
\* crash between a config's save and those of its addresses leaves their old
\* columns for good, because the migration then finds the config.)
ServingIsMigrated ==
    [][mode = "starting" /\ mode' = "serving" /\ clean =>
        /\ Orphans' = {}
        /\ live' \X SettingTypes \subseteq settings'
        /\ live' \X ConfigTypes \subseteq config']_vars

\* A BOQ gives its name to a second project that lives on only if a call has
\* failed or the process died: between the two saves of its adoption, or after
\* a project's BOQs were unlinked and before the project itself was deleted.
DuplicatesNeedFaults ==
    \A b \in BOQs : link[b] # Gone =>
        Cardinality({p \in live \ {job[Main].p} : named[p] = b /\ link[b] # p}) <=
            faults + Cardinality({w \in Requests : job[w].op = "leave"})

\* A server that is down always gets to serve, whatever the migrations meet, and
\* while it is restarted again and again a BOQ that has lost its project gets
\* one: the faults are finitely many.
EventuallyAdopted ==
    /\ mode = "down" ~> mode = "serving"
    /\ []<>(mode = "down") => \A b \in BOQs : link[b] = NoProject ~> link[b] # NoProject
=============================================================================
