---------------------------- MODULE StartupProofs ----------------------------
(* Proofs about Startup, for any number of projects, BOQs, addresses and      *)
(* requests, and whatever the bounds.                                         *)
EXTENDS Startup, FiniteSetTheorems, TLAPS

Stages == {"project", "boq", "address", "settings", "done"}
Pairs == Projects \X (SettingTypes \cup ConfigTypes)

Jobs ==
    {Idle} \cup
    [op : {"seed", "orphans", "adopt", "settings", "setting", "configs", "configure", "serve",
           "leave"},
     todo : (SUBSET BOQs) \cup (SUBSET Pairs), p : Projects \cup {NoProject},
     x : BOQs \cup Stages \cup ConfigTypes \cup {None, NoProject, Gone}]

Typed == TypeOK /\ job \in [Workers -> Jobs]

Owned ==
    /\ \A b \in BOQs : link[b] \in live \cup {NoProject, Gone}
    /\ \A a \in Addresses : Exists(a) => addr[a].p \in live
    /\ \A r \in settings \cup config : r[1] \in live

\* What the start has in hand: rows that exist, BOQs without a project.
MainKnows ==
    /\ At(Main, "seed") => /\ job[Main].x \in Stages
                           /\ job[Main].x # "project" => job[Main].p \in live
    /\ At(Main, "adopt") =>
          /\ job[Main].todo \subseteq Orphans
          /\ job[Main].x # None =>
                /\ job[Main].x \in Orphans \ job[Main].todo
                /\ job[Main].p \in live /\ named[job[Main].p] = job[Main].x
    /\ At(Main, "configure") => job[Main].todo \subseteq live \X ConfigTypes

MainAt(ops) == job[Main].op \in ops

\* What a start without a fault has done by then, or has left to do.
MigratedSoFar ==
    clean /\ mode = "starting" =>
        /\ MainAt({"adopt"}) => Orphans \subseteq job[Main].todo \cup {job[Main].x}
        /\ MainAt({"settings", "setting", "configs", "configure", "serve"}) => Orphans = {}
        /\ MainAt({"setting"}) => live \X SettingTypes \subseteq settings \cup job[Main].todo
        /\ MainAt({"configs", "configure", "serve"}) => live \X SettingTypes \subseteq settings
        /\ MainAt({"configure"}) => live \X ConfigTypes \subseteq config \cup job[Main].todo
        /\ MainAt({"serve"}) => live \X ConfigTypes \subseteq config

SettingsInHand ==
    \A w \in Workers : At(w, "setting") => job[w].todo \subseteq Projects \X SettingTypes

\* A BOQ that a deletion has found, if it names a project, has not been made anew.
LeavesOwn ==
    \A r \in Requests : At(r, "leave") =>
        /\ job[r].x \in {Gone, NoProject} /\ job[r].p \in Projects /\ job[r].todo \subseteq BOQs
        /\ \A b \in job[r].todo : (\E q \in live : named[q] = b) =>
              link[b] \in {job[r].p, NoProject, Gone}

\* A new BOQ has named nothing yet.
NamersExist == \A b \in BOQs : link[b] = Gone => \A p \in live : named[p] # b

\* The projects a BOQ has named without being theirs, and the one being adopted.
Twice(b) == {p \in live : named[p] = b /\ link[b] # p}
InHand == IF At(Main, "adopt") /\ job[Main].x # None THEN {job[Main].p} ELSE {}

\* One of them has been left by its BOQ and is about to go.
Leaving(b) == link[b] = NoProject /\ \E r \in Requests : At(r, "leave") /\ job[r].p \in Twice(b)

Accounted ==
    \A b \in BOQs :
        /\ IsFiniteSet(Twice(b))
        /\ link[b] # Gone =>
              Cardinality(Twice(b) \ InHand) <= faults + (IF Leaving(b) THEN 1 ELSE 0)

IInv ==
    /\ Typed /\ Owned /\ MainKnows /\ MigratedSoFar /\ SettingsInHand /\ LeavesOwn
    /\ NamersExist /\ Accounted

-----------------------------------------------------------------------------
\* What every step does to the memory of one goroutine.
LEMMA Goes ==
    ASSUME Typed, NEW w \in Workers, NEW j \in Jobs, Go(w, j)
    PROVE  /\ job' \in [Workers -> Jobs] /\ job'[w] = j /\ mode' = mode
           /\ \A v \in Workers : v # w => job'[v] = job[v]
BY DEF Typed, Go

LEMMA MainIsNoRequest ==
    Main \in Workers /\ Requests \subseteq Workers /\ Main \notin Requests
        /\ \A w \in Workers : w # Main => w \in Requests
BY StartupAssumption DEF Workers, StartupAssumption

\* While the start runs, no request does; while the server answers, no start runs.
LEMMA Phases ==
    ASSUME Typed
    PROVE  /\ job[Main] # Idle => mode = "starting"
           /\ \A r \in Requests : job[r] # Idle => mode = "serving"
           /\ mode = "starting" => \A r \in Requests : job[r] = Idle
           /\ mode = "serving" => job[Main] = Idle
           /\ mode = "down" => \A w \in Workers : job[w] = Idle
           /\ Idle.op = "idle"
<1>1. \A w \in Workers : job[w] # Idle => mode = (IF w = Main THEN "starting" ELSE "serving")
  BY DEF Typed, TypeOK
<1>2. Idle.op = "idle"
  BY DEF Idle
<1> QED
  BY <1>1, <1>2, MainIsNoRequest

LEMMA IdleIsJob == Idle \in Jobs
BY DEF Idle, Jobs

DbTyped ==
    /\ live \subseteq Projects
    /\ named \in [Projects -> BOQs \cup {None}]
    /\ link \in [BOQs -> Projects \cup {NoProject, Gone}]
    /\ addr \in [Addresses -> Address \cup {Gone}]
    /\ settings \subseteq Projects \X SettingTypes
    /\ config \subseteq (Projects \X {ConfigType(t) : t \in AddressTypes}) \cup (Projects \X ConfigTypes)

\* The ghosts after a step, as a save or a failure leaves them.
Ghosts ==
    /\ clean' \in BOOLEAN /\ (clean' => clean)
    /\ faults \in Nat /\ faults' \in 0..MaxFaults /\ faults' \in Nat /\ faults <= faults'

LEMMA GhostsStep ==
    ASSUME Typed, Saved \/ Refused \/ Fails
    PROVE  Ghosts
<1>1. PICK f : f = faults
  OBVIOUS
<1>2. f \in 0..MaxFaults /\ clean \in BOOLEAN /\ MaxFaults \in Nat
  BY <1>1, StartupAssumption DEF Typed, TypeOK, StartupAssumption
<1>3. CASE Saved
  BY <1>1, <1>2, <1>3 DEF Saved, Ghosts
<1>4. CASE Refused
  <2>1. faults' = f /\ clean' = FALSE
    BY <1>1, <1>4 DEF Refused
  <2>2. f \in Nat /\ f <= f
    BY <1>2
  <2> QED
    BY <1>1, <1>2, <2>1, <2>2 DEF Ghosts
<1>5. CASE Fails
  <2>1. f < MaxFaults /\ faults' = f + 1 /\ clean' = FALSE
    BY <1>1, <1>5 DEF Fails
  <2>2. f \in Nat /\ f + 1 \in 0..MaxFaults /\ f <= f + 1 /\ f + 1 \in Nat
    BY <1>2, <2>1
  <2> QED
    BY <1>1, <2>1, <2>2 DEF Ghosts
<1> QED
  BY <1>3, <1>4, <1>5

LEMMA FaultCounts ==
    ASSUME Typed, Fails
    PROVE  UNCHANGED db /\ faults \in Nat /\ faults' = faults + 1 /\ faults < faults' /\ ~clean'
<1>1. faults \in Nat
  BY StartupAssumption DEF Typed, TypeOK, StartupAssumption
<1>2. faults' = faults + 1 /\ UNCHANGED db /\ ~clean'
  BY DEF Fails
<1> QED
  BY <1>1, <1>2

LEMMA TypedStep ==
    ASSUME Typed, NEW w \in Workers, NEW j \in Jobs, Go(w, j), Ghosts, DbTyped',
           mode = (IF w = Main THEN "starting" ELSE "serving"),
           w # Main => j.op \in {"idle", "settings", "setting", "leave"}
    PROVE  Typed'
<1>1. /\ job' \in [Workers -> Jobs] /\ job'[w] = j /\ mode' = mode
      /\ \A v \in Workers : v # w => job'[v] = job[v]
  BY Goes
<1>2. \A r \in Requests : job'[r].op \in {"idle", "settings", "setting", "leave"}
  BY <1>1, MainIsNoRequest DEF Typed, TypeOK
<1>3. \A v \in Workers : job'[v] # Idle => mode' = (IF v = Main THEN "starting" ELSE "serving")
  BY <1>1 DEF Typed, TypeOK
<1>4. mode' \in {"down", "starting", "serving"}
  BY <1>1 DEF Typed, TypeOK
<1> QED
  BY <1>1, <1>2, <1>3, <1>4 DEF Typed, TypeOK, DbTyped, Ghosts

\* The account of one BOQ.
AccountedFor(b) ==
    /\ IsFiniteSet(Twice(b))
    /\ link[b] # Gone => Cardinality(Twice(b) \ InHand) <= faults + (IF Leaving(b) THEN 1 ELSE 0)

\* It stays when nothing is added and what is forgiven is a fault.
LEMMA AccountKept ==
    ASSUME Accounted, NEW b \in BOQs, IsFiniteSet(Twice(b)'), Ghosts,
           (Twice(b) \ InHand)' \subseteq Twice(b) \ InHand,
           link'[b] # Gone => link[b] # Gone,
           Leaving(b) => Leaving(b)' \/ faults < faults'
    PROVE  AccountedFor(b)'
<1>1. IsFiniteSet(Twice(b)) /\
         (link[b] # Gone => Cardinality(Twice(b) \ InHand) <= faults + (IF Leaving(b) THEN 1 ELSE 0))
  BY DEF Accounted
<1>2. PICK S, T, n, m, f, g :
         /\ S = Twice(b) \ InHand /\ T = (Twice(b) \ InHand)'
         /\ n = Cardinality(S) /\ m = Cardinality(T) /\ f = faults /\ g = faults'
  OBVIOUS
<1>3. IsFiniteSet(S) /\ T \in SUBSET S
  BY <1>1, <1>2, FS_Subset
<1>4. n \in Nat /\ m \in Nat /\ m <= n
  BY <1>2, <1>3, FS_Subset, FS_CardinalityType
<1>5. f \in Nat /\ g \in Nat /\ f <= g
  BY <1>2 DEF Ghosts
<1>6. ASSUME link'[b] # Gone
      PROVE  m <= g + (IF Leaving(b)' THEN 1 ELSE 0)
  <2>1. n <= f + (IF Leaving(b) THEN 1 ELSE 0)
    BY <1>1, <1>2, <1>6
  <2>2. Leaving(b) => Leaving(b)' \/ f < g
    BY <1>2
  <2>3. CASE Leaving(b)'
    <3>1. n <= f + 1
      BY <1>4, <1>5, <2>1
    <3> QED
      BY <1>4, <1>5, <2>3, <3>1
  <2>4. CASE ~Leaving(b)' /\ Leaving(b)
    BY <1>4, <1>5, <2>1, <2>2, <2>4
  <2>5. CASE ~Leaving(b)' /\ ~Leaving(b)
    BY <1>4, <1>5, <2>1, <2>5
  <2> QED
    BY <2>3, <2>4, <2>5
<1> QED
  BY <1>2, <1>6 DEF AccountedFor

LEMMA AccountsAre == Accounted <=> \A b \in BOQs : AccountedFor(b)
BY DEF Accounted, AccountedFor

\* While the start runs nobody is leaving.
LEMMA NobodyLeaves ==
    ASSUME Typed, mode # "serving"
    PROVE  \A b : ~Leaving(b)
BY Phases DEF Leaving, At

\* It stays as well when one more project is counted and a fault is, too.
LEMMA AccountFaulted ==
    ASSUME Accounted, NEW b \in BOQs, NEW p, IsFiniteSet(Twice(b)'), Ghosts, faults < faults',
           (Twice(b) \ InHand)' \subseteq (Twice(b) \ InHand) \cup {p},
           link'[b] # Gone => link[b] # Gone, ~Leaving(b)
    PROVE  AccountedFor(b)'
<1>1. IsFiniteSet(Twice(b)) /\ (link[b] # Gone => Cardinality(Twice(b) \ InHand) <= faults)
  <2>1. link[b] # Gone => Cardinality(Twice(b) \ InHand) <= faults + 0
    BY DEF Accounted
  <2>2. faults \in Nat
    BY DEF Ghosts
  <2> QED
    BY <2>1, <2>2 DEF Accounted
<1>2. PICK S, T, n, m, f, g :
         /\ S = Twice(b) \ InHand /\ T = (Twice(b) \ InHand)'
         /\ n = Cardinality(S) /\ m = Cardinality(T) /\ f = faults /\ g = faults'
  OBVIOUS
<1>3. IsFiniteSet(S) /\ IsFiniteSet(S \cup {p}) /\ T \in SUBSET (S \cup {p})
  BY <1>1, <1>2, FS_Subset, FS_AddElement
<1>4. n \in Nat /\ m \in Nat /\ m <= n + 1
  <2>1. Cardinality(S \cup {p}) \in {n, n + 1} /\ n \in Nat
    BY <1>2, <1>3, FS_AddElement, FS_CardinalityType
  <2>2. m \in Nat /\ m <= Cardinality(S \cup {p})
    BY <1>2, <1>3, FS_Subset, FS_CardinalityType
  <2> QED
    BY <2>1, <2>2
<1>5. f \in Nat /\ g \in Nat /\ f < g
  BY <1>2 DEF Ghosts
<1>6. link'[b] # Gone => m <= g /\ m <= g + 1 /\ m <= g + 0
  BY <1>1, <1>2, <1>4, <1>5
<1> QED
  BY <1>2, <1>6 DEF AccountedFor

LEMMA MainRuns ==
    ASSUME Typed, ~At(Main, "idle")
    PROVE  mode = "starting" /\ \A b : ~Leaving(b)
BY Phases, NobodyLeaves DEF At

\* A step of the start: the requests are at rest.
LEMMA MainStep ==
    ASSUME IInv, mode = "starting", NEW j \in Jobs, Go(Main, j), Ghosts, DbTyped', Owned',
           MainKnows', MigratedSoFar', NamersExist', Accounted',
           j.op = "setting" => j.todo \subseteq Projects \X SettingTypes
    PROVE  IInv'
<1>1. /\ job' \in [Workers -> Jobs] /\ job'[Main] = j /\ mode' = mode
      /\ \A v \in Workers : v # Main => job'[v] = job[v]
  BY Goes, MainIsNoRequest DEF IInv
<1>2. \A r \in Requests : job'[r] = Idle
  BY <1>1, Phases, MainIsNoRequest DEF IInv
<1>3. Typed'
  BY TypedStep, MainIsNoRequest DEF IInv
<1>4. SettingsInHand'
  BY <1>1, <1>2, MainIsNoRequest DEF SettingsInHand, At, Idle
<1>5. LeavesOwn'
  BY <1>2 DEF LeavesOwn, At, Idle
<1> QED
  BY <1>3, <1>4, <1>5 DEF IInv

\* A step that leaves the database alone.
LEMMA MainQuiet ==
    ASSUME IInv, mode = "starting", NEW j \in Jobs, Go(Main, j), Ghosts, UNCHANGED db,
           MainKnows', MigratedSoFar',
           InHand = {} \/ faults < faults',
           j.op = "setting" => j.todo \subseteq Projects \X SettingTypes
    PROVE  IInv'
<1>1. UNCHANGED <<live, named, link, addr, settings, config>>
  BY DEF db
<1>2. DbTyped'
  BY <1>1 DEF IInv, Typed, TypeOK, DbTyped
<1>3. Owned'
  BY <1>1 DEF IInv, Owned, Exists
<1>4. NamersExist'
  BY <1>1 DEF IInv, NamersExist
<1>5. ASSUME NEW b \in BOQs PROVE AccountedFor(b)'
  <2>1. Twice(b)' = Twice(b) /\ IsFiniteSet(Twice(b)) /\ link'[b] = link[b]
    BY <1>1 DEF IInv, Accounted, Twice
  <2>2. ~Leaving(b)
    BY NobodyLeaves DEF IInv
  <2>3. CASE InHand = {}
    <3>1. (Twice(b) \ InHand)' \subseteq Twice(b) \ InHand
      BY <2>1, <2>3
    <3> QED
      BY <2>1, <2>2, <3>1, AccountKept DEF IInv
  <2>4. CASE faults < faults'
    <3>1. PICK p : InHand \subseteq {p}
      BY DEF InHand
    <3>2. (Twice(b) \ InHand)' \subseteq (Twice(b) \ InHand) \cup {p}
      BY <2>1, <3>1
    <3> QED
      BY <2>1, <2>2, <2>4, <3>2, AccountFaulted DEF IInv
  <2> QED
    BY <2>3, <2>4
<1>6. Accounted'
  BY <1>5 DEF Accounted, AccountedFor
<1> QED
  BY <1>2, <1>3, <1>4, <1>6, MainStep

\* The jobs the steps go to.
LEMMA JobsAre ==
    ASSUME NEW op \in {"seed", "orphans", "adopt", "settings", "setting", "configs",
                       "configure", "serve", "leave"},
           NEW todo \in (SUBSET BOQs) \cup (SUBSET Pairs), NEW p \in Projects \cup {NoProject},
           NEW x \in BOQs \cup Stages \cup ConfigTypes \cup {None, NoProject, Gone}
    PROVE  /\ Job(op, todo, p, x) \in Jobs
           /\ Job(op, todo, p, x).op = op /\ Job(op, todo, p, x).todo = todo
           /\ Job(op, todo, p, x).p = p /\ Job(op, todo, p, x).x = x
BY DEF Job, Jobs

LEMMA MainJob ==
    ASSUME Typed
    PROVE  /\ job[Main].op \in {"idle", "seed", "orphans", "adopt", "settings", "setting",
                                "configs", "configure", "serve", "leave"}
           /\ job[Main].todo \in (SUBSET BOQs) \cup (SUBSET Pairs)
           /\ job[Main].p \in Projects \cup {NoProject}
           /\ job[Main].x \in BOQs \cup Stages \cup ConfigTypes \cup {None, NoProject, Gone}
BY MainIsNoRequest DEF Typed, Jobs, Idle

LEMMA NewJob ==
    ASSUME Typed, NEW j \in Jobs, Go(Main, j)
    PROVE  job'[Main] = j /\ mode' = mode
BY Goes, MainIsNoRequest

\* Steps that only look or give up.
LEMMA SeedEndsKeeps == ASSUME IInv, SeedEnds(Main) PROVE IInv'
<1> DEFINE j == Job("orphans", {}, NoProject, None)
<1>1. j \in Jobs /\ j.op = "orphans"
  BY JobsAre
<1>2. Go(Main, j) /\ (Saved \/ Fails) /\ UNCHANGED db /\ mode = "starting" /\ At(Main, "seed")
  BY MainRuns DEF SeedEnds, At, IInv, Fails
<1> HIDE DEF j
<1>3. Ghosts /\ job'[Main] = j
  BY <1>1, <1>2, GhostsStep, NewJob DEF IInv
<1>4. MainKnows' /\ MigratedSoFar'
  BY <1>1, <1>3 DEF MainKnows, MigratedSoFar, MainAt, At
<1>5. InHand = {}
  BY <1>2 DEF InHand, At
<1> QED
  BY <1>1, <1>2, <1>3, <1>4, <1>5, MainQuiet

LEMMA QueryOrphansKeeps == ASSUME IInv, QueryOrphans(Main) PROVE IInv'
<1> DEFINE j == Job("adopt", Orphans, NoProject, None)
<1>1. j \in Jobs /\ j.op = "adopt" /\ j.todo = Orphans /\ j.x = None
  BY JobsAre DEF Orphans, BOQsOf
<1>2. Go(Main, j) /\ Saved /\ UNCHANGED db /\ mode = "starting" /\ At(Main, "orphans")
  BY MainRuns DEF QueryOrphans, At, IInv
<1> HIDE DEF j
<1>3. Ghosts /\ job'[Main] = j /\ Orphans' = Orphans
  BY <1>1, <1>2, GhostsStep, NewJob DEF IInv, Orphans, BOQsOf, db
<1>4. MainKnows' /\ MigratedSoFar'
  BY <1>1, <1>3 DEF MainKnows, MigratedSoFar, MainAt, At
<1>5. InHand = {}
  BY <1>2 DEF InHand, At
<1> QED
  BY <1>1, <1>2, <1>3, <1>4, <1>5, MainQuiet

LEMMA AdoptEndsKeeps == ASSUME IInv, AdoptEnds(Main) PROVE IInv'
<1> DEFINE j == Job("settings", {}, NoProject, None)
<1>1. j \in Jobs /\ j.op = "settings"
  BY JobsAre
<1>2. /\ Go(Main, j) /\ Saved /\ UNCHANGED db /\ mode = "starting" /\ At(Main, "adopt")
      /\ job[Main].x = None /\ job[Main].todo = {}
  BY MainRuns DEF AdoptEnds, At, IInv
<1> HIDE DEF j
<1>3. Ghosts /\ job'[Main] = j /\ Orphans' = Orphans /\ mode' = mode
  BY <1>1, <1>2, GhostsStep, NewJob DEF IInv, Orphans, BOQsOf, db
<1>4. MainKnows'
  BY <1>1, <1>3 DEF MainKnows, At
<1>5. None \notin Orphans
  BY StartupAssumption DEF StartupAssumption, Orphans, BOQsOf
<1>6. clean' => Orphans' = {}
  BY <1>2, <1>3, <1>5 DEF IInv, MigratedSoFar, MainAt, At, Ghosts
<1>7. MigratedSoFar'
  BY <1>1, <1>3, <1>6 DEF MigratedSoFar, MainAt
<1>8. InHand = {}
  BY <1>2 DEF InHand
<1> QED
  BY <1>1, <1>2, <1>3, <1>4, <1>7, <1>8, MainQuiet

LEMMA MainQuerySettingsKeeps == ASSUME IInv, QuerySettings(Main) PROVE IInv'
<1> DEFINE j == Job("setting", live \X SettingTypes, NoProject, None)
<1>0. live \X SettingTypes \subseteq Projects \X SettingTypes
  BY DEF IInv, Typed, TypeOK
<1>1. j \in Jobs /\ j.op = "setting" /\ j.todo = live \X SettingTypes
  <2>1. live \X SettingTypes \in SUBSET Pairs
    BY <1>0 DEF Pairs
  <2> QED
    BY <2>1, JobsAre
<1>2. Go(Main, j) /\ Saved /\ UNCHANGED db /\ mode = "starting" /\ At(Main, "settings")
  BY MainRuns DEF QuerySettings, At, IInv
<1> HIDE DEF j
<1>3. /\ Ghosts /\ job'[Main] = j /\ Orphans' = Orphans /\ mode' = mode
      /\ live' = live /\ settings' = settings
  BY <1>1, <1>2, GhostsStep, NewJob DEF IInv, Orphans, BOQsOf, db
<1>4. MainKnows'
  BY <1>1, <1>3 DEF MainKnows, At
<1>6. clean' => Orphans' = {}
  BY <1>2, <1>3 DEF IInv, MigratedSoFar, MainAt, At, Ghosts
<1>7. MigratedSoFar'
  BY <1>1, <1>3, <1>6 DEF MigratedSoFar, MainAt
<1>8. InHand = {}
  BY <1>2 DEF InHand, At
<1> QED
  BY <1>0, <1>1, <1>2, <1>3, <1>4, <1>7, <1>8, MainQuiet

LEMMA MainSettingsEndKeeps == ASSUME IInv, SettingsEnd(Main) PROVE IInv'
<1> DEFINE j == Job("configs", {}, NoProject, None)
<1>1. j \in Jobs /\ j.op = "configs"
  BY JobsAre
<1>2. /\ Go(Main, j) /\ Saved /\ UNCHANGED db /\ mode = "starting" /\ At(Main, "setting")
      /\ job[Main].todo = {}
  BY MainRuns DEF SettingsEnd, At, IInv
<1> HIDE DEF j
<1>3. /\ Ghosts /\ job'[Main] = j /\ Orphans' = Orphans /\ mode' = mode
      /\ live' = live /\ settings' = settings
  BY <1>1, <1>2, GhostsStep, NewJob DEF IInv, Orphans, BOQsOf, db
<1>4. MainKnows'
  BY <1>1, <1>3 DEF MainKnows, At
<1>6. clean' => Orphans' = {} /\ live \X SettingTypes \subseteq settings
  BY <1>2, <1>3 DEF IInv, MigratedSoFar, MainAt, At, Ghosts
<1>7. MigratedSoFar'
  BY <1>1, <1>3, <1>6 DEF MigratedSoFar, MainAt
<1>8. InHand = {}
  BY <1>2 DEF InHand, At
<1> QED
  BY <1>1, <1>2, <1>3, <1>4, <1>7, <1>8, MainQuiet

LEMMA QueryConfigsKeeps == ASSUME IInv, QueryConfigs(Main) PROVE IInv'
<1> DEFINE j == Job("configure", live \X ConfigTypes, NoProject, None)
<1>1. j \in Jobs /\ j.op = "configure" /\ j.todo = live \X ConfigTypes
  <2>1. live \X ConfigTypes \in SUBSET Pairs
    BY DEF Pairs, IInv, Typed, TypeOK
  <2> QED
    BY <2>1, JobsAre
<1>2. Go(Main, j) /\ Saved /\ UNCHANGED db /\ mode = "starting" /\ At(Main, "configs")
  BY MainRuns DEF QueryConfigs, At, IInv
<1> HIDE DEF j
<1>3. /\ Ghosts /\ job'[Main] = j /\ Orphans' = Orphans /\ mode' = mode
      /\ live' = live /\ settings' = settings /\ config' = config
  BY <1>1, <1>2, GhostsStep, NewJob DEF IInv, Orphans, BOQsOf, db
<1>4. MainKnows'
  BY <1>1, <1>3 DEF MainKnows, At
<1>6. clean' => Orphans' = {} /\ live \X SettingTypes \subseteq settings
  BY <1>2, <1>3 DEF IInv, MigratedSoFar, MainAt, At, Ghosts
<1>7. MigratedSoFar'
  BY <1>1, <1>3, <1>6 DEF MigratedSoFar, MainAt
<1>8. InHand = {}
  BY <1>2 DEF InHand, At
<1> QED
  BY <1>1, <1>2, <1>3, <1>4, <1>7, <1>8, MainQuiet

LEMMA ConfigsEndKeeps == ASSUME IInv, ConfigsEnd(Main) PROVE IInv'
<1> DEFINE j == Job("serve", {}, NoProject, None)
<1>1. j \in Jobs /\ j.op = "serve"
  BY JobsAre
<1>2. /\ Go(Main, j) /\ Saved /\ UNCHANGED db /\ mode = "starting" /\ At(Main, "configure")
      /\ job[Main].todo = {}
  BY MainRuns DEF ConfigsEnd, At, IInv
<1> HIDE DEF j
<1>3. /\ Ghosts /\ job'[Main] = j /\ Orphans' = Orphans /\ mode' = mode
      /\ live' = live /\ settings' = settings /\ config' = config
  BY <1>1, <1>2, GhostsStep, NewJob DEF IInv, Orphans, BOQsOf, db
<1>4. MainKnows'
  BY <1>1, <1>3 DEF MainKnows, At
<1>6. clean' => /\ Orphans' = {} /\ live \X SettingTypes \subseteq settings
                /\ live \X ConfigTypes \subseteq config
  BY <1>2, <1>3 DEF IInv, MigratedSoFar, MainAt, At, Ghosts
<1>7. MigratedSoFar'
  BY <1>1, <1>3, <1>6 DEF MigratedSoFar, MainAt
<1>8. InHand = {}
  BY <1>2 DEF InHand, At
<1> QED
  BY <1>1, <1>2, <1>3, <1>4, <1>7, <1>8, MainQuiet

\* A step that touches neither projects nor BOQs.
LEMMA AccountsQuiet ==
    ASSUME Accounted, Ghosts, UNCHANGED <<live, named, link>>, InHand = {},
           \A b \in BOQs : Leaving(b) => Leaving(b)' \/ faults < faults'
    PROVE  Accounted'
<1>1. ASSUME NEW b \in BOQs PROVE AccountedFor(b)'
  <2>1. Twice(b)' = Twice(b) /\ IsFiniteSet(Twice(b)) /\ link'[b] = link[b]
    BY DEF Accounted, Twice
  <2>2. (Twice(b) \ InHand)' \subseteq Twice(b) \ InHand
    BY <2>1
  <2> QED
    BY <2>1, <2>2, AccountKept
<1> QED
  BY <1>1 DEF Accounted, AccountedFor

\* Steps of the start that save settings, configs and addresses.
LEMMA MainSaveSettingKeeps == ASSUME IInv, SaveSetting(Main) PROVE IInv'
<1>1. PICK r \in job[Main].todo :
        /\ Go(Main, Job("setting", Rest(Main, r), NoProject, None))
        /\ \/ /\ r \in settings \/ r[1] \in live
              /\ settings' = settings \cup {r}
              /\ UNCHANGED <<live, named, link, addr, config>> /\ Saved
           \/ r \notin settings /\ r[1] \notin live /\ Refused
           \/ r \notin settings /\ r[1] \in live /\ Fails
  BY DEF SaveSetting
<1> DEFINE j == Job("setting", Rest(Main, r), NoProject, None)
<1>2. At(Main, "setting") /\ mode = "starting" /\ \A b : ~Leaving(b)
  BY MainRuns DEF SaveSetting, At, IInv
<1>3. job[Main].todo \subseteq Projects \X SettingTypes
  BY <1>2, MainIsNoRequest DEF IInv, SettingsInHand
<1>4. j \in Jobs /\ j.op = "setting" /\ j.todo = job[Main].todo \ {r} /\ Go(Main, j)
  <2>1. job[Main].todo \ {r} \in SUBSET Pairs
    BY <1>3 DEF Pairs
  <2> QED
    BY <1>1, <2>1, JobsAre DEF Rest
<1> HIDE DEF j
<1>5. Ghosts /\ job'[Main] = j /\ mode' = mode
  BY <1>1, <1>4, GhostsStep, NewJob DEF IInv
<1>6. MainKnows'
  BY <1>4, <1>5 DEF MainKnows, At
<1>7. InHand = {}
  BY <1>2 DEF InHand, At
<1>8. CASE /\ r \in settings \/ r[1] \in live
           /\ settings' = settings \cup {r}
           /\ UNCHANGED <<live, named, link, addr, config>>
  <2>1. DbTyped'
    BY <1>3, <1>8 DEF IInv, Typed, TypeOK, DbTyped
  <2>2. Owned'
    BY <1>8 DEF IInv, Owned, Exists
  <2>3. NamersExist'
    BY <1>8 DEF IInv, NamersExist
  <2>4. Accounted'
    BY <1>2, <1>5, <1>7, <1>8, AccountsQuiet DEF IInv
  <2>5. clean' => Orphans' = {} /\ live' \X SettingTypes \subseteq settings' \cup j.todo
    BY <1>2, <1>4, <1>5, <1>8 DEF IInv, MigratedSoFar, MainAt, At, Ghosts, Orphans, BOQsOf
  <2>6. MigratedSoFar'
    BY <1>4, <1>5, <2>5 DEF MigratedSoFar, MainAt
  <2> QED
    BY <1>2, <1>3, <1>4, <1>5, <1>6, <2>1, <2>2, <2>3, <2>4, <2>6, MainStep
<1>9. CASE Refused \/ Fails
  <2>1. UNCHANGED db /\ ~clean'
    BY <1>9 DEF Refused, Fails
  <2>2. MigratedSoFar'
    BY <2>1 DEF MigratedSoFar
  <2> QED
    BY <1>2, <1>3, <1>4, <1>5, <1>6, <1>7, <2>1, <2>2, MainQuiet
<1> QED
  BY <1>1, <1>8, <1>9

LEMMA ConfigureKeeps == ASSUME IInv, Configure(Main) PROVE IInv'
<1>1. PICK r \in job[Main].todo :
        \/ /\ r \in config /\ UNCHANGED db /\ Saved
           /\ Go(Main, Job("configure", Rest(Main, r), NoProject, None))
        \/ /\ r \notin config /\ config' = config \cup {r}
           /\ UNCHANGED <<live, named, link, addr, settings>> /\ Saved
           /\ Go(Main, Job("configure", Rest(Main, r), r[1], r[2]))
        \/ r \notin config /\ Fails /\ Go(Main, Job("serve", {}, NoProject, None))
  BY DEF Configure
<1>2. At(Main, "configure") /\ mode = "starting" /\ \A b : ~Leaving(b)
  BY MainRuns DEF Configure, At, IInv
<1>3. /\ job[Main].todo \subseteq live \X ConfigTypes
      /\ live \X ConfigTypes \subseteq Projects \X ConfigTypes
  BY <1>2, MainIsNoRequest DEF IInv, MainKnows, Typed, TypeOK
<1>4. Rest(Main, r) = job[Main].todo \ {r} /\ Rest(Main, r) \in SUBSET Pairs
  BY <1>3 DEF Pairs, Rest
<1>5. InHand = {}
  BY <1>2 DEF InHand, At
<1>6. clean => /\ Orphans = {} /\ live \X SettingTypes \subseteq settings
               /\ live \X ConfigTypes \subseteq config \cup job[Main].todo
  BY <1>2 DEF IInv, MigratedSoFar, MainAt, At
<1>7. CASE /\ r \in config /\ UNCHANGED db /\ Saved
           /\ Go(Main, Job("configure", Rest(Main, r), NoProject, None))
  <2> DEFINE j == Job("configure", Rest(Main, r), NoProject, None)
  <2>1. j \in Jobs /\ j.op = "configure" /\ j.todo = job[Main].todo \ {r} /\ Go(Main, j)
    BY <1>4, <1>7, JobsAre
  <2> HIDE DEF j
  <2>2. /\ Ghosts /\ job'[Main] = j /\ mode' = mode /\ Orphans' = Orphans
        /\ live' = live /\ settings' = settings /\ config' = config
    BY <1>7, <2>1, GhostsStep, NewJob DEF IInv, Orphans, BOQsOf, db
  <2>3. MainKnows'
    BY <1>3, <2>1, <2>2 DEF MainKnows, At
  <2>4. clean' => /\ Orphans' = {} /\ live \X SettingTypes \subseteq settings
                  /\ live \X ConfigTypes \subseteq config \cup j.todo
    BY <1>6, <1>7, <2>1, <2>2 DEF Ghosts
  <2>5. MigratedSoFar'
    BY <2>1, <2>2, <2>4 DEF MigratedSoFar, MainAt
  <2> QED
    BY <1>2, <1>5, <1>7, <2>1, <2>2, <2>3, <2>5, MainQuiet
<1>8. CASE /\ r \notin config /\ config' = config \cup {r}
           /\ UNCHANGED <<live, named, link, addr, settings>> /\ Saved
           /\ Go(Main, Job("configure", Rest(Main, r), r[1], r[2]))
  <2> DEFINE j == Job("configure", Rest(Main, r), r[1], r[2])
  <2>1. j \in Jobs /\ j.op = "configure" /\ j.todo = job[Main].todo \ {r} /\ Go(Main, j)
    <3>1. r[1] \in Projects /\ r[2] \in ConfigTypes
      BY <1>3
    <3> QED
      BY <1>4, <1>8, <3>1, JobsAre
  <2> HIDE DEF j
  <2>2. Ghosts /\ job'[Main] = j /\ mode' = mode /\ Orphans' = Orphans
    BY <1>8, <2>1, GhostsStep, NewJob DEF IInv, Orphans, BOQsOf
  <2>3. MainKnows'
    BY <1>3, <1>8, <2>1, <2>2 DEF MainKnows, At
  <2>4. clean' => /\ Orphans' = {} /\ live' \X SettingTypes \subseteq settings'
                  /\ live' \X ConfigTypes \subseteq config' \cup j.todo
    BY <1>6, <1>8, <2>1, <2>2 DEF Ghosts
  <2>5. MigratedSoFar'
    BY <2>1, <2>2, <2>4 DEF MigratedSoFar, MainAt
  <2>6. DbTyped'
    BY <1>3, <1>8 DEF IInv, Typed, TypeOK, DbTyped
  <2>7. Owned'
    <3>1. r[1] \in live
      BY <1>3
    <3> QED
      BY <1>8, <3>1 DEF IInv, Owned, Exists
  <2>8. NamersExist'
    BY <1>8 DEF IInv, NamersExist
  <2>9. Accounted'
    BY <1>2, <1>5, <1>8, <2>2, AccountsQuiet DEF IInv
  <2> QED
    BY <1>2, <2>1, <2>2, <2>3, <2>5, <2>6, <2>7, <2>8, <2>9, MainStep
<1>9. CASE Fails /\ Go(Main, Job("serve", {}, NoProject, None))
  <2> DEFINE j == Job("serve", {}, NoProject, None)
  <2>1. j \in Jobs /\ j.op = "serve" /\ Go(Main, j) /\ ~clean' /\ UNCHANGED db
    BY <1>9, JobsAre DEF Fails
  <2> HIDE DEF j
  <2>2. Ghosts /\ job'[Main] = j
    BY <1>9, <2>1, GhostsStep, NewJob DEF IInv
  <2>3. MainKnows' /\ MigratedSoFar'
    BY <2>1, <2>2 DEF MainKnows, MigratedSoFar, At
  <2> QED
    BY <1>2, <1>5, <2>1, <2>2, <2>3, MainQuiet
<1> QED
  BY <1>1, <1>7, <1>8, <1>9

\* An address keeps its owner when it is moved to its config.
LEMMA AddressMoves ==
    ASSUME Typed, Owned, NEW a \in Addresses, Exists(a),
           addr' = [addr EXCEPT ![a].config = TRUE]
    PROVE  /\ addr' \in [Addresses -> Address \cup {Gone}]
           /\ \A c \in Addresses : Exists(c)' => Exists(c) /\ addr'[c].p = addr[c].p
<1>1. addr \in [Addresses -> Address \cup {Gone}] /\ addr[a] \in Address
  BY DEF Typed, TypeOK, Exists
<1> DEFINE n == [addr[a] EXCEPT !.config = TRUE]
<1>2. n \in Address /\ n.p = addr[a].p
  BY <1>1 DEF Address
<1>3. addr' = [addr EXCEPT ![a] = n]
  OBVIOUS
<1> HIDE DEF n
<1>4. addr'[a] = n /\ \A c \in Addresses : c # a => addr'[c] = addr[c]
  BY <1>1, <1>3
<1>5. addr' \in [Addresses -> Address \cup {Gone}]
  BY <1>1, <1>2, <1>3
<1>6. ASSUME NEW c \in Addresses, Exists(c)'
      PROVE  Exists(c) /\ addr'[c].p = addr[c].p
  <2>1. CASE c = a
    BY <1>2, <1>4, <2>1
  <2>2. CASE c # a
    BY <1>4, <1>6, <2>2 DEF Exists
  <2> QED
    BY <2>1, <2>2
<1> QED
  BY <1>5, <1>6

LEMMA MoveAddressKeeps == ASSUME IInv, MoveAddress(Main) PROVE IInv'
<1> DEFINE old == OldAddresses(<<job[Main].p, job[Main].x>>)
<1>1. At(Main, "configure") /\ mode = "starting" /\ \A b : ~Leaving(b)
  BY MainRuns DEF MoveAddress, At, IInv
<1>2. InHand = {}
  BY <1>1 DEF InHand, At
<1>3. \/ /\ old = {} /\ UNCHANGED db /\ Saved
         /\ Go(Main, Job("configure", job[Main].todo, NoProject, None))
      \/ \E a \in old :
         \/ /\ addr' = [addr EXCEPT ![a].config = TRUE]
            /\ UNCHANGED <<live, named, link, settings, config>> /\ Saved
            /\ UNCHANGED <<job, mode>>
         \/ Fails /\ Go(Main, Job("serve", {}, NoProject, None))
  BY DEF MoveAddress
<1>4. old \subseteq {a \in Addresses : Exists(a)}
  BY DEF OldAddresses, AddressesOf
<1>5. CASE /\ old = {} /\ UNCHANGED db /\ Saved
           /\ Go(Main, Job("configure", job[Main].todo, NoProject, None))
  <2> DEFINE j == Job("configure", job[Main].todo, NoProject, None)
  <2>1. j \in Jobs /\ j.op = "configure" /\ j.todo = job[Main].todo /\ Go(Main, j)
    BY <1>5, JobsAre, MainJob DEF IInv
  <2> HIDE DEF j
  <2>2. /\ Ghosts /\ job'[Main] = j /\ mode' = mode /\ Orphans' = Orphans
        /\ live' = live /\ settings' = settings /\ config' = config
    BY <1>5, <2>1, GhostsStep, NewJob DEF IInv, Orphans, BOQsOf, db
  <2>3. MainKnows'
    BY <1>1, <2>1, <2>2 DEF IInv, MainKnows, At
  <2>4. clean' => /\ Orphans' = {} /\ live \X SettingTypes \subseteq settings
                  /\ live \X ConfigTypes \subseteq config \cup j.todo
    BY <1>1, <2>1, <2>2 DEF Ghosts, IInv, MigratedSoFar, MainAt, At
  <2>5. MigratedSoFar'
    BY <2>1, <2>2, <2>4 DEF MigratedSoFar, MainAt
  <2> QED
    BY <1>1, <1>2, <1>5, <2>1, <2>2, <2>3, <2>5, MainQuiet
<1>6. ASSUME NEW a \in old, addr' = [addr EXCEPT ![a].config = TRUE],
             UNCHANGED <<live, named, link, settings, config>>, Saved, UNCHANGED <<job, mode>>
      PROVE  IInv'
  <2> DEFINE j == job[Main]
  <2>1. j \in Jobs /\ Go(Main, j) /\ j.op = "configure"
    BY <1>1, <1>6, MainIsNoRequest DEF IInv, Typed, Go, At
  <2> HIDE DEF j
  <2>2. Ghosts
    BY <1>6, GhostsStep DEF IInv
  <2>3. /\ addr' \in [Addresses -> Address \cup {Gone}]
        /\ \A c \in Addresses : Exists(c)' => Exists(c) /\ addr'[c].p = addr[c].p
    BY <1>4, <1>6, AddressMoves DEF IInv
  <2>4. MainKnows'
    BY <1>6, <1>1 DEF IInv, MainKnows, At
  <2>5. clean' = clean /\ Orphans' = Orphans
    BY <1>6 DEF Saved, Orphans, BOQsOf
  <2>6. MigratedSoFar'
    BY <1>6, <2>5 DEF IInv, MigratedSoFar, MainAt
  <2>7. DbTyped'
    BY <1>6, <2>3 DEF IInv, Typed, TypeOK, DbTyped
  <2>8. Owned'
    BY <1>6, <2>3 DEF IInv, Owned
  <2>9. NamersExist'
    BY <1>6 DEF IInv, NamersExist
  <2>10. Accounted'
    BY <1>1, <1>2, <1>6, <2>2, AccountsQuiet DEF IInv
  <2> QED
    BY <1>1, <2>1, <2>2, <2>4, <2>6, <2>7, <2>8, <2>9, <2>10, MainStep
<1>7. CASE Fails /\ Go(Main, Job("serve", {}, NoProject, None))
  <2> DEFINE j == Job("serve", {}, NoProject, None)
  <2>1. j \in Jobs /\ j.op = "serve" /\ Go(Main, j) /\ ~clean' /\ UNCHANGED db
    BY <1>7, JobsAre DEF Fails
  <2> HIDE DEF j
  <2>2. Ghosts /\ job'[Main] = j
    BY <1>7, <2>1, GhostsStep, NewJob DEF IInv
  <2>3. MainKnows' /\ MigratedSoFar'
    BY <2>1, <2>2 DEF MainKnows, MigratedSoFar, At
  <2> QED
    BY <1>1, <1>2, <2>1, <2>2, <2>3, MainQuiet
<1> QED
  BY <1>3, <1>5, <1>6, <1>7

-----------------------------------------------------------------------------
\* A new project: what it does to the account of each BOQ.
LEMMA ProjectIsNew ==
    ASSUME Typed, NEW p \in FreeProjects, NEW name \in BOQs \cup {None}, NewProject(p, name)
    PROVE  /\ p \in Projects /\ p \notin live /\ live' = live \cup {p}
           /\ UNCHANGED <<link, addr, settings, config>> /\ Orphans' = Orphans
           /\ named' \in [Projects -> BOQs \cup {None}] /\ named'[p] = name
           /\ \A q \in Projects : q # p => named'[q] = named[q]
           /\ \A b \in BOQs : Twice(b)' = IF name = b /\ link[b] # p
                                          THEN Twice(b) \cup {p} ELSE Twice(b)
<1>1. p \in Projects /\ p \notin live /\ live' = live \cup {p}
  BY DEF FreeProjects, NewProject
<1>2. UNCHANGED <<link, addr, settings, config>>
  BY DEF NewProject
<1>3. /\ named' \in [Projects -> BOQs \cup {None}] /\ named'[p] = name
      /\ \A q \in Projects : q # p => named'[q] = named[q]
  BY <1>1 DEF NewProject, Typed, TypeOK
<1>4. Orphans' = Orphans
  BY <1>2 DEF Orphans, BOQsOf
<1>5. ASSUME NEW b \in BOQs
      PROVE  Twice(b)' = IF name = b /\ link[b] # p THEN Twice(b) \cup {p} ELSE Twice(b)
  <2>1. \A q : q \in Twice(b)' <=> q \in live \cup {p} /\ named'[q] = b /\ link[b] # q
    BY <1>1, <1>2 DEF Twice
  <2>2. \A q : q \in Twice(b) <=> q \in live /\ named[q] = b /\ link[b] # q
    BY DEF Twice
  <2>3. live \subseteq Projects
    BY DEF Typed, TypeOK
  <2> QED
    BY <1>1, <1>3, <2>1, <2>2, <2>3
<1> QED
  BY <1>1, <1>2, <1>3, <1>4, <1>5

\* What it leaves of the other parts of the invariant.
LEMMA NewProjectFits ==
    ASSUME IInv, NEW p \in FreeProjects, NEW name \in BOQs \cup {None}, NewProject(p, name),
           name # None => link[name] # Gone
    PROVE  DbTyped' /\ Owned' /\ NamersExist'
<1>1. /\ p \in Projects /\ p \notin live /\ live' = live \cup {p}
      /\ UNCHANGED <<link, addr, settings, config>>
      /\ named' \in [Projects -> BOQs \cup {None}] /\ named'[p] = name
      /\ \A q \in Projects : q # p => named'[q] = named[q]
  BY ProjectIsNew DEF IInv
<1>2. live \subseteq Projects
  BY DEF IInv, Typed, TypeOK
<1>3. DbTyped'
  BY <1>1, <1>2 DEF IInv, Typed, TypeOK, DbTyped
<1>4. Owned'
  BY <1>1 DEF IInv, Owned, Exists
<1>5. ASSUME NEW b \in BOQs, link'[b] = Gone, NEW q \in live' PROVE named'[q] # b
  <2>1. None \notin BOQs
    BY StartupAssumption DEF StartupAssumption
  <2>2. CASE q = p
    BY <1>1, <1>5, <2>1, <2>2
  <2>3. CASE q # p
    BY <1>1, <1>2, <1>5, <2>3 DEF IInv, NamersExist
  <2> QED
    BY <2>2, <2>3
<1>6. NamersExist'
  BY <1>5 DEF NamersExist
<1> QED
  BY <1>3, <1>4, <1>6

\* A BOQ that has named no project has nothing to account for.
LEMMA NothingToAccount ==
    ASSUME NEW b \in BOQs, Twice(b)' = {}, Ghosts
    PROVE  AccountedFor(b)'
<1>1. IsFiniteSet({}) /\ Cardinality({}) = 0
  BY FS_EmptySet
<1>2. (Twice(b) \ InHand)' = {}
  OBVIOUS
<1>3. PICK g \in Nat : g = faults'
  BY DEF Ghosts
<1>4. 0 <= g + 1 /\ 0 <= g + 0
  OBVIOUS
<1> QED
  BY <1>1, <1>2, <1>3, <1>4 DEF AccountedFor

\* A BOQ's link is set or emptied.
LEMMA LinkMoves ==
    ASSUME Typed, NEW b \in BOQs, NEW p, link' = [link EXCEPT ![b] = p], UNCHANGED <<live, named>>
    PROVE  /\ link'[b] = p /\ \A c \in BOQs : c # b => link'[c] = link[c] /\ Twice(c)' = Twice(c)
           /\ Twice(b)' = {q \in live : named[q] = b /\ q # p}
<1>1. link'[b] = p /\ \A c \in BOQs : c # b => link'[c] = link[c]
  BY DEF Typed, TypeOK
<1>2. \A q : q \in Twice(b)' <=> q \in live /\ named[q] = b /\ q # p
  BY <1>1 DEF Twice
<1>3. ASSUME NEW c \in BOQs, c # b PROVE Twice(c)' = Twice(c)
  BY <1>1, <1>3 DEF Twice
<1> QED
  BY <1>1, <1>2, <1>3

\* A BOQ is created.
LEMMA BOQAdded ==
    ASSUME IInv, NEW b \in BOQsOf(Gone), NEW p \in live, link' = [link EXCEPT ![b] = p],
           UNCHANGED <<live, named, addr, settings, config>>, Ghosts
    PROVE  /\ DbTyped' /\ Owned' /\ NamersExist' /\ Orphans' = Orphans
           /\ b \in BOQs /\ link[b] = Gone /\ Twice(b) = {} /\ link'[b] = p
           /\ \A c \in BOQs : Twice(c)' = Twice(c)
           /\ \A c \in BOQs : c # b => link'[c] = link[c]
<1>1. b \in BOQs /\ link[b] = Gone /\ p \in Projects
  BY DEF BOQsOf, IInv, Typed, TypeOK
<1>2. /\ link'[b] = p /\ \A c \in BOQs : c # b => link'[c] = link[c] /\ Twice(c)' = Twice(c)
      /\ Twice(b)' = {q \in live : named[q] = b /\ q # p}
  BY <1>1, LinkMoves DEF IInv
<1>3. \A q \in live : named[q] # b
  BY <1>1 DEF IInv, NamersExist
<1>4. Twice(b) = {} /\ Twice(b)' = {}
  BY <1>2, <1>3 DEF Twice
<1>5. DbTyped'
  BY <1>1 DEF IInv, Typed, TypeOK, DbTyped
<1>6. Owned'
  BY <1>1, <1>2 DEF IInv, Owned, Exists
<1>7. NamersExist'
  BY <1>1, <1>2 DEF IInv, NamersExist, Typed, TypeOK
<1>8. p # NoProject /\ Gone # NoProject
  BY <1>1, StartupAssumption DEF StartupAssumption
<1>9. Orphans' = Orphans
  BY <1>1, <1>2, <1>8 DEF Orphans, BOQsOf
<1> QED
  BY <1>1, <1>2, <1>4, <1>5, <1>6, <1>7, <1>9

\* The steps of the seed.
LEMMA SeedJob ==
    ASSUME Typed, At(Main, "seed"), job[Main].x \in {"project", "boq", "address", "settings"},
           NEW p \in Projects, SeedGoes(Main, p)
    PROVE  \E j \in Jobs : /\ Go(Main, j) /\ j.op = "seed" /\ j.p = p /\ j.x \in Stages
                           /\ job'[Main] = j /\ mode' = mode
<1> DEFINE j == Job("seed", {}, p, After[job[Main].x])
<1>1. After[job[Main].x] \in Stages
  BY DEF After, Stages
<1>2. j \in Jobs /\ j.op = "seed" /\ j.p = p /\ j.x \in Stages
  BY <1>1, JobsAre
<1>3. Go(Main, j)
  BY DEF SeedGoes
<1> QED
  BY <1>2, <1>3, NewJob

LEMMA SeedProjectKeeps == ASSUME IInv, SeedProject(Main) PROVE IInv'
<1>1. PICK p \in FreeProjects : NewProject(p, None) /\ SeedGoes(Main, p)
  BY DEF SeedProject
<1>2. /\ At(Main, "seed") /\ job[Main].x = "project" /\ mode = "starting" /\ Saved
      /\ \A b : ~Leaving(b)
  BY MainRuns DEF SeedProject, At, IInv
<1>3. /\ p \in Projects /\ p \notin live /\ live' = live \cup {p}
      /\ UNCHANGED <<link, addr, settings, config>>
      /\ \A b \in BOQs : Twice(b)' = IF None = b /\ link[b] # p
                                     THEN Twice(b) \cup {p} ELSE Twice(b)
  BY <1>1, ProjectIsNew DEF IInv
<1>4. PICK j \in Jobs : /\ Go(Main, j) /\ j.op = "seed" /\ j.p = p /\ j.x \in Stages
                        /\ job'[Main] = j /\ mode' = mode
  BY <1>1, <1>2, <1>3, SeedJob DEF IInv
<1>5. Ghosts
  BY <1>2, GhostsStep DEF IInv
<1>6. DbTyped' /\ Owned' /\ NamersExist'
  BY <1>1, NewProjectFits
<1>7. MainKnows' /\ MigratedSoFar'
  BY <1>3, <1>4 DEF MainKnows, MigratedSoFar, MainAt, At
<1>8. ASSUME NEW b \in BOQs PROVE AccountedFor(b)'
  <2>1. None # b
    BY StartupAssumption DEF StartupAssumption
  <2>2. Twice(b)' = Twice(b) /\ IsFiniteSet(Twice(b)) /\ link'[b] = link[b]
    BY <1>3, <2>1 DEF IInv, Accounted
  <2>3. InHand = {}
    BY <1>2 DEF InHand, At
  <2>4. (Twice(b) \ InHand)' \subseteq Twice(b) \ InHand
    BY <2>2, <2>3
  <2> QED
    BY <1>2, <1>5, <2>2, <2>4, AccountKept DEF IInv
<1>9. Accounted'
  BY <1>8 DEF Accounted, AccountedFor
<1> QED
  BY <1>2, <1>4, <1>5, <1>6, <1>7, <1>9, MainStep

LEMMA SeedBOQKeeps == ASSUME IInv, SeedBOQ(Main) PROVE IInv'
<1>1. /\ At(Main, "seed") /\ job[Main].x = "boq" /\ mode = "starting" /\ Saved
      /\ SeedGoes(Main, job[Main].p) /\ \A b : ~Leaving(b)
      /\ UNCHANGED <<live, named, addr, settings, config>>
      /\ \/ \E b \in BOQsOf(Gone) : link' = [link EXCEPT ![b] = job[Main].p]
         \/ UNCHANGED link
  BY MainRuns DEF SeedBOQ, At, IInv
<1>2. job[Main].p \in live /\ job[Main].p \in Projects
  BY <1>1 DEF IInv, MainKnows, Typed, TypeOK
<1>3. PICK j \in Jobs : /\ Go(Main, j) /\ j.op = "seed" /\ j.p = job[Main].p /\ j.x \in Stages
                        /\ job'[Main] = j /\ mode' = mode
  BY <1>1, <1>2, SeedJob DEF IInv
<1>4. Ghosts
  BY <1>1, GhostsStep DEF IInv
<1>5. MainKnows' /\ MigratedSoFar'
  BY <1>1, <1>2, <1>3 DEF MainKnows, MigratedSoFar, MainAt, At
<1>6. InHand = {}
  BY <1>1 DEF InHand, At
<1>7. CASE UNCHANGED link
  <2>1. UNCHANGED db
    BY <1>1, <1>7 DEF db
  <2> QED
    BY <1>1, <1>3, <1>4, <1>5, <1>6, <2>1, MainQuiet
<1>8. ASSUME NEW b \in BOQsOf(Gone), link' = [link EXCEPT ![b] = job[Main].p]
      PROVE  IInv'
  <2>1. /\ DbTyped' /\ Owned' /\ NamersExist'
        /\ b \in BOQs /\ Twice(b) = {} /\ \A c \in BOQs : Twice(c)' = Twice(c)
        /\ \A c \in BOQs : c # b => link'[c] = link[c]
    BY <1>1, <1>2, <1>4, <1>8, BOQAdded
  <2>2. ASSUME NEW c \in BOQs PROVE AccountedFor(c)'
    <3>1. CASE c = b
      BY <1>4, <2>1, <3>1, NothingToAccount
    <3>2. CASE c # b
      <4>1. Twice(c)' = Twice(c) /\ IsFiniteSet(Twice(c)) /\ link'[c] = link[c]
        BY <2>1, <3>2 DEF IInv, Accounted
      <4>2. (Twice(c) \ InHand)' \subseteq Twice(c) \ InHand
        BY <1>6, <4>1
      <4> QED
        BY <1>1, <1>4, <4>1, <4>2, AccountKept DEF IInv
    <3> QED
      BY <3>1, <3>2
  <2>3. Accounted'
    BY <2>2 DEF Accounted, AccountedFor
  <2> QED
    BY <1>1, <1>3, <1>4, <1>5, <2>1, <2>3, MainStep
<1> QED
  BY <1>1, <1>7, <1>8

LEMMA SeedAddressKeeps == ASSUME IInv, SeedAddress(Main) PROVE IInv'
<1>1. /\ At(Main, "seed") /\ job[Main].x = "address" /\ mode = "starting" /\ Saved
      /\ SeedGoes(Main, job[Main].p) /\ \A b : ~Leaving(b)
      /\ UNCHANGED <<live, named, link, settings, config>>
      /\ \/ \E a \in Addresses, t \in AddressTypes :
              addr' = [addr EXCEPT ![a] = NewAddress(job[Main].p, t, FALSE)]
         \/ UNCHANGED addr
  BY MainRuns DEF SeedAddress, At, IInv
<1>2. job[Main].p \in live /\ job[Main].p \in Projects
  BY <1>1 DEF IInv, MainKnows, Typed, TypeOK
<1>3. PICK j \in Jobs : /\ Go(Main, j) /\ j.op = "seed" /\ j.p = job[Main].p /\ j.x \in Stages
                        /\ job'[Main] = j /\ mode' = mode
  BY <1>1, <1>2, SeedJob DEF IInv
<1>4. Ghosts
  BY <1>1, GhostsStep DEF IInv
<1>5. MainKnows' /\ MigratedSoFar'
  BY <1>1, <1>2, <1>3 DEF MainKnows, MigratedSoFar, MainAt, At
<1>6. InHand = {}
  BY <1>1 DEF InHand, At
<1>7. /\ addr' \in [Addresses -> Address \cup {Gone}]
      /\ \A a \in Addresses : Exists(a)' => addr'[a].p \in live
  <2>1. CASE UNCHANGED addr
    BY <2>1 DEF IInv, Typed, TypeOK, Owned, Exists
  <2>2. ASSUME NEW a \in Addresses, NEW t \in AddressTypes,
               addr' = [addr EXCEPT ![a] = NewAddress(job[Main].p, t, FALSE)]
        PROVE  /\ addr' \in [Addresses -> Address \cup {Gone}]
               /\ \A c \in Addresses : Exists(c)' => addr'[c].p \in live
    <3>1. /\ NewAddress(job[Main].p, t, FALSE) \in Address
          /\ NewAddress(job[Main].p, t, FALSE).p = job[Main].p
      BY <1>2 DEF NewAddress, Address
    <3> QED
      BY <1>2, <2>2, <3>1 DEF IInv, Typed, TypeOK, Owned, Exists
  <2> QED
    BY <1>1, <2>1, <2>2
<1>8. DbTyped'
  BY <1>1, <1>7 DEF IInv, Typed, TypeOK, DbTyped
<1>9. Owned'
  BY <1>1, <1>7 DEF IInv, Owned
<1>10. NamersExist'
  BY <1>1 DEF IInv, NamersExist
<1>11. Accounted'
  BY <1>1, <1>4, <1>6, AccountsQuiet DEF IInv
<1> QED
  BY <1>1, <1>3, <1>4, <1>5, <1>8, <1>9, <1>10, <1>11, MainStep

LEMMA SeedSettingsKeeps == ASSUME IInv, SeedSettings(Main) PROVE IInv'
<1>1. /\ At(Main, "seed") /\ job[Main].x = "settings" /\ mode = "starting" /\ Saved
      /\ SeedGoes(Main, job[Main].p) /\ \A b : ~Leaving(b)
      /\ UNCHANGED <<live, named, link, addr, config>>
      /\ settings' = settings \cup ({job[Main].p} \X SettingTypes)
  BY MainRuns DEF SeedSettings, At, IInv
<1>2. job[Main].p \in live /\ job[Main].p \in Projects
  BY <1>1 DEF IInv, MainKnows, Typed, TypeOK
<1>3. PICK j \in Jobs : /\ Go(Main, j) /\ j.op = "seed" /\ j.p = job[Main].p /\ j.x \in Stages
                        /\ job'[Main] = j /\ mode' = mode
  BY <1>1, <1>2, SeedJob DEF IInv
<1>4. Ghosts
  BY <1>1, GhostsStep DEF IInv
<1>5. MainKnows' /\ MigratedSoFar'
  BY <1>1, <1>2, <1>3 DEF MainKnows, MigratedSoFar, MainAt, At
<1>6. InHand = {}
  BY <1>1 DEF InHand, At
<1>7. \A r \in {job[Main].p} \X SettingTypes : r[1] \in live /\ r \in Projects \X SettingTypes
  BY <1>2
<1>8. DbTyped'
  BY <1>1, <1>7 DEF IInv, Typed, TypeOK, DbTyped
<1>9. Owned'
  BY <1>1, <1>7 DEF IInv, Owned, Exists
<1>10. NamersExist'
  BY <1>1 DEF IInv, NamersExist
<1>11. Accounted'
  BY <1>1, <1>4, <1>6, AccountsQuiet DEF IInv
<1> QED
  BY <1>1, <1>3, <1>4, <1>5, <1>8, <1>9, <1>10, <1>11, MainStep

-----------------------------------------------------------------------------
\* The two saves of an adoption.
LEMMA AdoptProjectKeeps == ASSUME IInv, AdoptProject(Main) PROVE IInv'
<1>1. PICK b \in job[Main].todo :
        \/ \E p \in FreeProjects :
             NewProject(p, b) /\ Saved /\ Go(Main, Job("adopt", Rest(Main, b), p, b))
        \/ Fails /\ Go(Main, Job("adopt", Rest(Main, b), NoProject, None))
  BY DEF AdoptProject
<1>2. At(Main, "adopt") /\ job[Main].x = None /\ mode = "starting" /\ \A c : ~Leaving(c)
  BY MainRuns DEF AdoptProject, At, IInv
<1>3. job[Main].todo \subseteq Orphans /\ Orphans \subseteq BOQs
  BY <1>2 DEF IInv, MainKnows, Orphans, BOQsOf
<1>4. Rest(Main, b) = job[Main].todo \ {b} /\ Rest(Main, b) \in SUBSET BOQs
  BY <1>3 DEF Rest
<1>5. InHand = {}
  BY <1>2 DEF InHand
<1>6. b \in Orphans /\ b \in BOQs /\ link[b] = NoProject /\ b # None /\ NoProject # Gone
  BY <1>3, StartupAssumption DEF StartupAssumption, Orphans, BOQsOf
<1>7. CASE Fails /\ Go(Main, Job("adopt", Rest(Main, b), NoProject, None))
  <2> DEFINE j == Job("adopt", Rest(Main, b), NoProject, None)
  <2>1. /\ j \in Jobs /\ j.op = "adopt" /\ j.x = None /\ j.todo = job[Main].todo \ {b}
        /\ Go(Main, j) /\ ~clean' /\ UNCHANGED db
    BY <1>4, <1>7, JobsAre DEF Fails
  <2> HIDE DEF j
  <2>2. Ghosts /\ job'[Main] = j /\ Orphans' = Orphans
    BY <1>7, <2>1, GhostsStep, NewJob DEF IInv, db, Orphans, BOQsOf
  <2>3. MainKnows' /\ MigratedSoFar'
    BY <1>3, <2>1, <2>2 DEF MainKnows, MigratedSoFar, At
  <2> QED
    BY <1>2, <1>5, <2>1, <2>2, <2>3, MainQuiet
<1>8. ASSUME NEW p \in FreeProjects, NewProject(p, b), Saved,
             Go(Main, Job("adopt", Rest(Main, b), p, b))
      PROVE  IInv'
  <2> DEFINE j == Job("adopt", Rest(Main, b), p, b)
  <2>1. /\ p \in Projects /\ p \notin live /\ live' = live \cup {p}
        /\ UNCHANGED <<link, addr, settings, config>> /\ Orphans' = Orphans
        /\ named'[p] = b
        /\ \A c \in BOQs : Twice(c)' = IF b = c /\ link[c] # p
                                       THEN Twice(c) \cup {p} ELSE Twice(c)
    BY <1>6, <1>8, ProjectIsNew DEF IInv
  <2>2. /\ j \in Jobs /\ j.op = "adopt" /\ j.x = b /\ j.p = p /\ j.todo = job[Main].todo \ {b}
        /\ Go(Main, j)
    BY <1>4, <1>6, <1>8, <2>1, JobsAre
  <2> HIDE DEF j
  <2>3. Ghosts /\ job'[Main] = j /\ mode' = mode /\ clean' = clean
    BY <1>8, <2>2, GhostsStep, NewJob DEF IInv, Saved
  <2>4. DbTyped' /\ Owned' /\ NamersExist'
    BY <1>6, <1>8, NewProjectFits
  <2>5. MainKnows'
    BY <1>3, <1>6, <2>1, <2>2, <2>3 DEF MainKnows, At
  <2>6. clean => Orphans \subseteq job[Main].todo \cup {None}
    BY <1>2 DEF IInv, MigratedSoFar, MainAt, At
  <2>7. None \notin Orphans
    BY <1>3, StartupAssumption DEF StartupAssumption
  <2>8. clean' => Orphans' \subseteq j.todo \cup {j.x}
    BY <2>1, <2>2, <2>3, <2>6, <2>7
  <2>9. MigratedSoFar'
    BY <2>2, <2>3, <2>8 DEF MigratedSoFar, MainAt
  <2>10. InHand' = {p}
    BY <1>6, <2>2, <2>3 DEF InHand, At
  <2>11. ASSUME NEW c \in BOQs PROVE AccountedFor(c)'
    <3>1. IsFiniteSet(Twice(c))
      BY DEF IInv, Accounted
    <3>2. IsFiniteSet(Twice(c)') /\ (Twice(c) \ InHand)' \subseteq Twice(c)
      BY <2>1, <2>10, <3>1, FS_AddElement
    <3>3. (Twice(c) \ InHand)' \subseteq Twice(c) \ InHand /\ link'[c] = link[c]
      BY <1>5, <2>1, <3>2
    <3> QED
      BY <1>2, <2>3, <3>2, <3>3, AccountKept DEF IInv
  <2>12. Accounted'
    BY <2>11 DEF Accounted, AccountedFor
  <2> QED
    BY <1>2, <2>2, <2>3, <2>4, <2>5, <2>9, <2>12, MainStep
<1> QED
  BY <1>1, <1>7, <1>8

LEMMA AdoptLinkKeeps == ASSUME IInv, AdoptLink(Main) PROVE IInv'
<1> DEFINE j == Job("adopt", job[Main].todo, NoProject, None)
<1>1. /\ At(Main, "adopt") /\ job[Main].x # None /\ mode = "starting" /\ \A c : ~Leaving(c)
      /\ \/ link' = [link EXCEPT ![job[Main].x] = job[Main].p]
            /\ UNCHANGED <<live, named, addr, settings, config>> /\ Saved
         \/ Fails
  BY MainRuns DEF AdoptLink, At, IInv
<1>2. /\ j \in Jobs /\ j.op = "adopt" /\ j.x = None /\ j.todo = job[Main].todo
      /\ Go(Main, j)
  BY JobsAre, MainJob DEF AdoptLink, IInv
<1> HIDE DEF j
<1>3. Ghosts /\ job'[Main] = j /\ mode' = mode
  BY <1>1, <1>2, GhostsStep, NewJob DEF IInv
<1>4. PICK b, p : b = job[Main].x /\ p = job[Main].p
  OBVIOUS
<1>5. /\ job[Main].todo \subseteq Orphans \ {b} /\ b \in BOQs /\ link[b] = NoProject
      /\ p \in live /\ p \in Projects /\ named[p] = b
  BY <1>1, <1>4 DEF IInv, MainKnows, Orphans, BOQsOf, Typed, TypeOK
<1>6. InHand = {p}
  BY <1>1, <1>4 DEF InHand
<1>7. InHand' = {}
  BY <1>2, <1>3 DEF InHand
<1>8. CASE Fails
  <2>1. /\ UNCHANGED db /\ ~clean' /\ faults < faults' /\ Orphans' = Orphans
    BY <1>8, FaultCounts DEF IInv, db, Orphans, BOQsOf
  <2>2. MainKnows' /\ MigratedSoFar'
    BY <1>2, <1>3, <1>5, <2>1 DEF MainKnows, MigratedSoFar, At
  <2> QED
    BY <1>1, <1>2, <1>3, <2>1, <2>2, MainQuiet
<1>9. CASE link' = [link EXCEPT ![job[Main].x] = job[Main].p]
           /\ UNCHANGED <<live, named, addr, settings, config>> /\ Saved
  <2>1. /\ link'[b] = p
        /\ \A c \in BOQs : c # b => link'[c] = link[c] /\ Twice(c)' = Twice(c)
        /\ Twice(b)' = {q \in live : named[q] = b /\ q # p}
    <3>1. link' = [link EXCEPT ![b] = p] /\ UNCHANGED <<live, named>>
      BY <1>4, <1>9
    <3> QED
      BY <1>5, <3>1, LinkMoves DEF IInv
  <2>2. p # NoProject /\ p # Gone /\ NoProject # Gone
    BY <1>5, StartupAssumption DEF StartupAssumption
  <2>3. Orphans' = Orphans \ {b}
    BY <1>5, <2>1, <2>2 DEF Orphans, BOQsOf
  <2>4. MainKnows'
    BY <1>2, <1>3, <1>5, <2>3 DEF MainKnows, At
  <2>5. clean' => Orphans' \subseteq j.todo \cup {j.x}
    BY <1>1, <1>2, <1>3, <1>4, <2>3 DEF IInv, MigratedSoFar, MainAt, At, Ghosts
  <2>6. MigratedSoFar'
    BY <1>2, <1>3, <2>5 DEF MigratedSoFar, MainAt
  <2>7. DbTyped'
    BY <1>4, <1>5, <1>9 DEF IInv, Typed, TypeOK, DbTyped
  <2>8. Owned'
    BY <1>5, <1>9, <2>1 DEF IInv, Owned, Exists
  <2>9. NamersExist'
    BY <1>9, <2>1, <2>2 DEF IInv, NamersExist
  <2>10. ASSUME NEW c \in BOQs PROVE AccountedFor(c)'
    <3>1. IsFiniteSet(Twice(c))
      BY DEF IInv, Accounted
    <3>2. Twice(c)' \subseteq Twice(c) \ InHand
      <4>1. CASE c = b
        <5>1. \A q \in Twice(b)' : q \in live /\ named[q] = b /\ q # p
          BY <2>1
        <5>2. \A q \in live : q \in Projects /\ q # NoProject
          BY StartupAssumption DEF IInv, Typed, TypeOK, StartupAssumption
        <5> QED
          BY <1>5, <1>6, <4>1, <5>1, <5>2 DEF Twice
      <4>2. CASE c # b
        <5>1. p \notin Twice(c)
          BY <1>5, <4>2 DEF Twice
        <5> QED
          BY <1>6, <2>1, <4>2, <5>1
      <4> QED
        BY <4>1, <4>2
    <3>3. IsFiniteSet(Twice(c)')
      <4>1. Twice(c)' \in SUBSET Twice(c)
        BY <3>2
      <4> QED
        BY <3>1, <4>1, FS_Subset
    <3>4. (Twice(c) \ InHand)' \subseteq Twice(c) \ InHand
      BY <1>7, <3>2
    <3>5. link'[c] # Gone => link[c] # Gone
      BY <1>5, <2>1, <2>2
    <3> QED
      BY <1>1, <1>3, <3>3, <3>4, <3>5, AccountKept DEF IInv
  <2>11. Accounted'
    BY <2>10 DEF Accounted, AccountedFor
  <2> QED
    BY <1>1, <1>2, <1>3, <2>4, <2>6, <2>7, <2>8, <2>9, <2>11, MainStep
<1> QED
  BY <1>1, <1>8, <1>9

-----------------------------------------------------------------------------
\* The process starts and stops.  Nobody is in the middle of anything after it.
LEMMA OpIsIdle ==
    ASSUME Typed, NEW w \in Workers
    PROVE  At(w, "idle") <=> job[w] = Idle
BY DEF Typed, Jobs, Idle, At

\* What such a step leaves of the invariant, faults apart.
LEMMA ProcessFits ==
    ASSUME IInv, UNCHANGED db, mode' \in {"down", "starting", "serving"},
           clean' \in BOOLEAN, faults' \in 0..MaxFaults,
           NEW j \in Jobs, j = Idle \/ mode' = "starting",
           j.op \in {"idle", "seed", "orphans"}, j.op = "seed" => j.x = "project",
           job' = [w \in Workers |-> IF w = Main THEN j ELSE Idle]
    PROVE  /\ Typed' /\ Owned' /\ MainKnows' /\ MigratedSoFar' /\ SettingsInHand' /\ LeavesOwn'
           /\ NamersExist' /\ InHand' = {} /\ \A b : ~Leaving(b)'
<1>1. /\ job'[Main] = j /\ \A r \in Requests : job'[r] = Idle
      /\ job' \in [Workers -> Jobs]
  BY MainIsNoRequest, IdleIsJob
<1>2. UNCHANGED <<live, named, link, addr, settings, config>>
  BY DEF db
<1>3. Idle.op = "idle"
  BY DEF Idle
<1>4. Typed'
  <2>1. \A w \in Workers : job'[w] # Idle => mode' = (IF w = Main THEN "starting" ELSE "serving")
    BY <1>1, MainIsNoRequest
  <2>2. \A r \in Requests : job'[r].op \in {"idle", "settings", "setting", "leave"}
    BY <1>1, <1>3
  <2> QED
    BY <1>1, <1>2, <2>1, <2>2 DEF IInv, Typed, TypeOK
<1>5. Owned' /\ NamersExist'
  BY <1>2 DEF IInv, Owned, NamersExist, Exists
<1>6. MainKnows'
  BY <1>1 DEF MainKnows, At, Stages
<1>7. MigratedSoFar'
  BY <1>1 DEF MigratedSoFar, MainAt
<1>8. SettingsInHand'
  BY <1>1, <1>3, MainIsNoRequest DEF SettingsInHand, At
<1>9. LeavesOwn' /\ \A b : ~Leaving(b)'
  BY <1>1, <1>3 DEF LeavesOwn, Leaving, At
<1>10. InHand' = {}
  BY <1>1 DEF InHand, At
<1> QED
  BY <1>4, <1>5, <1>6, <1>7, <1>8, <1>9, <1>10

\* Where nothing was in hand and nobody was leaving, the account does not change.
LEMMA AccountsStand ==
    ASSUME Accounted, UNCHANGED <<db, faults>>, InHand = {}, InHand' = {},
           \A b : ~Leaving(b), \A b : ~Leaving(b)'
    PROVE  Accounted'
<1>1. ASSUME NEW b \in BOQs PROVE AccountedFor(b)'
  <2>1. Twice(b)' = Twice(b) /\ link'[b] = link[b] /\ faults' = faults
    BY DEF Twice, db
  <2>2. (Twice(b) \ InHand)' = Twice(b) \ InHand /\ Leaving(b)' = Leaving(b)
    BY <2>1 DEF Leaving
  <2> QED
    BY <2>1, <2>2 DEF Accounted, AccountedFor
<1> QED
  BY <1>1 DEF Accounted, AccountedFor

LEMMA StartKeeps == ASSUME IInv, Start PROVE IInv'
<1> DEFINE j == SeedOrNot
<1>1. /\ j \in Jobs
      /\ j.op \in {"idle", "seed", "orphans"}
      /\ j.op = "seed" => j.x = "project"
  <2>1. Job("seed", {}, NoProject, "project") \in Jobs
    BY JobsAre DEF Stages
  <2>2. Job("orphans", {}, NoProject, None) \in Jobs
    BY JobsAre
  <2> QED
    BY <2>1, <2>2 DEF SeedOrNot, Job
<1>2. /\ mode = "down" /\ mode' = "starting" /\ clean' = TRUE /\ UNCHANGED <<db, faults>>
      /\ job' = [job EXCEPT ![Main] = j]
  BY DEF Start
<1> HIDE DEF j
<1>3. \A w \in Workers : job[w] = Idle
  BY <1>2, Phases DEF IInv
<1>4. job' = [w \in Workers |-> IF w = Main THEN j ELSE Idle]
  BY <1>2, <1>3, MainIsNoRequest DEF IInv, Typed
<1>5. /\ Typed' /\ Owned' /\ MainKnows' /\ MigratedSoFar' /\ SettingsInHand' /\ LeavesOwn'
      /\ NamersExist' /\ InHand' = {} /\ \A b : ~Leaving(b)'
  <2>1. faults' \in 0..MaxFaults
    BY <1>2 DEF IInv, Typed, TypeOK
  <2>2. clean' \in BOOLEAN /\ UNCHANGED db
    BY <1>2
  <2> QED
    BY <1>1, <1>2, <1>4, <2>1, <2>2, ProcessFits
<1>6. InHand = {} /\ \A b : ~Leaving(b)
  BY <1>2, <1>3, MainIsNoRequest, NobodyLeaves DEF IInv, InHand, At, Idle
<1>7. Accounted'
  BY <1>2, <1>5, <1>6, AccountsStand DEF IInv
<1> QED
  BY <1>5, <1>7 DEF IInv

LEMMA ServeKeeps == ASSUME IInv, Serve(Main) PROVE IInv'
<1>1. /\ At(Main, "serve") /\ mode' = "serving" /\ UNCHANGED <<db, clean, faults>>
      /\ job' = [job EXCEPT ![Main] = Idle]
  BY DEF Serve
<1>2. mode = "starting" /\ \A b : ~Leaving(b)
  BY <1>1, MainRuns DEF IInv, At
<1>3. \A r \in Requests : job[r] = Idle
  BY <1>2, Phases DEF IInv
<1>4. job' = [w \in Workers |-> IF w = Main THEN Idle ELSE Idle]
  BY <1>1, <1>3, MainIsNoRequest DEF IInv, Typed
<1>5. Idle \in Jobs /\ Idle.op = "idle"
  BY IdleIsJob DEF Idle
<1>6. /\ Typed' /\ Owned' /\ MainKnows' /\ MigratedSoFar' /\ SettingsInHand' /\ LeavesOwn'
      /\ NamersExist' /\ InHand' = {} /\ \A b : ~Leaving(b)'
  BY <1>1, <1>4, <1>5, ProcessFits DEF IInv, Typed, TypeOK
<1>7. InHand = {}
  BY <1>1 DEF InHand, At
<1>8. Accounted'
  BY <1>1, <1>2, <1>6, <1>7, AccountsStand DEF IInv
<1> QED
  BY <1>6, <1>8 DEF IInv

LEMMA StopKeeps == ASSUME IInv, Stop PROVE IInv'
<1>1. /\ mode = "serving" /\ mode' = "down" /\ UNCHANGED <<db, job, clean, faults>>
      /\ \A w \in Workers : job[w] = Idle
  BY OpIsIdle DEF Stop, IInv
<1>2. job' = [w \in Workers |-> IF w = Main THEN Idle ELSE Idle]
  BY <1>1 DEF IInv, Typed
<1>3. Idle \in Jobs /\ Idle.op = "idle"
  BY IdleIsJob DEF Idle
<1>4. /\ Typed' /\ Owned' /\ MainKnows' /\ MigratedSoFar' /\ SettingsInHand' /\ LeavesOwn'
      /\ NamersExist' /\ InHand' = {} /\ \A b : ~Leaving(b)'
  BY <1>1, <1>2, <1>3, ProcessFits DEF IInv, Typed, TypeOK
<1>5. InHand = {} /\ \A b : ~Leaving(b)
  BY <1>1, <1>3, MainIsNoRequest DEF InHand, Leaving, At
<1>6. Accounted'
  BY <1>1, <1>4, <1>5, AccountsStand DEF IInv
<1> QED
  BY <1>4, <1>6 DEF IInv

LEMMA CrashKeeps == ASSUME IInv, Crash PROVE IInv'
<1>1. PICK f \in 0..MaxFaults : f = faults
  BY DEF IInv, Typed, TypeOK
<1>2. /\ mode # "down" /\ f < MaxFaults /\ faults' = f + 1 /\ mode' = "down"
      /\ job' = [w \in Workers |-> IF w = Main THEN Idle ELSE Idle] /\ UNCHANGED <<db, clean>>
  BY <1>1 DEF Crash
<1>3. f \in Nat /\ f + 1 \in 0..MaxFaults /\ f + 1 \in Nat /\ f <= f + 1 /\ f < f + 1
  BY <1>1, <1>2, StartupAssumption DEF StartupAssumption
<1>4. Ghosts /\ faults < faults'
  BY <1>1, <1>2, <1>3 DEF Ghosts, IInv, Typed, TypeOK
<1>5. Idle \in Jobs /\ Idle.op = "idle"
  BY IdleIsJob DEF Idle
<1>6. clean' \in BOOLEAN /\ faults' \in 0..MaxFaults
  BY <1>4 DEF Ghosts
<1>7. /\ Typed' /\ Owned' /\ MainKnows' /\ MigratedSoFar' /\ SettingsInHand' /\ LeavesOwn'
      /\ NamersExist' /\ InHand' = {} /\ \A b : ~Leaving(b)'
  BY <1>2, <1>5, <1>6, ProcessFits
<1>8. ASSUME NEW b \in BOQs PROVE AccountedFor(b)'
  <2>1. Twice(b)' = Twice(b) /\ IsFiniteSet(Twice(b)) /\ link'[b] = link[b]
    BY <1>2 DEF db, Twice, IInv, Accounted
  <2>2. CASE InHand = {}
    <3>1. (Twice(b) \ InHand)' \subseteq Twice(b) \ InHand
      BY <2>1, <2>2
    <3> QED
      BY <1>4, <2>1, <3>1, AccountKept DEF IInv
  <2>3. CASE InHand # {}
    <3>1. ~At(Main, "idle") /\ \E p : InHand = {p}
      BY <2>3 DEF InHand, At
    <3>2. PICK p : InHand = {p}
      BY <3>1
    <3>3. (Twice(b) \ InHand)' \subseteq (Twice(b) \ InHand) \cup {p}
      BY <2>1, <3>2
    <3>4. ~Leaving(b)
      BY <3>1, MainRuns DEF IInv
    <3> QED
      BY <1>4, <2>1, <3>3, <3>4, AccountFaulted DEF IInv
  <2> QED
    BY <2>2, <2>3
<1>9. Accounted'
  BY <1>8 DEF Accounted, AccountedFor
<1> QED
  BY <1>7, <1>9 DEF IInv

LEMMA StutterKeeps == ASSUME IInv, UNCHANGED vars PROVE IInv'
<1>1. /\ UNCHANGED <<live, named, link, addr, settings, config, mode, job, clean, faults>>
  BY DEF vars, db
<1>2. Typed'
  BY <1>1 DEF IInv, Typed, TypeOK
<1>3. Owned' /\ MainKnows' /\ SettingsInHand' /\ NamersExist' /\ LeavesOwn'
  BY <1>1 DEF IInv, Owned, MainKnows, SettingsInHand, NamersExist, LeavesOwn, At, Exists,
              Orphans, BOQsOf
<1>4. MigratedSoFar'
  BY <1>1 DEF IInv, MigratedSoFar, MainAt, Orphans, BOQsOf
<1>5. \A b \in BOQs : Twice(b)' = Twice(b) /\ Leaving(b)' = Leaving(b) /\ InHand' = InHand
  BY <1>1 DEF Twice, Leaving, InHand, At
<1>6. Accounted'
  BY <1>1, <1>5 DEF IInv, Accounted
<1> QED
  BY <1>2, <1>3, <1>4, <1>6 DEF IInv

LEMMA InitAddresses ==
    ASSUME Init
    PROVE  /\ addr \in [Addresses -> Address \cup {Gone}]
           /\ \A a \in Addresses : Exists(a) => addr[a].p \in live
<1> DEFINE Old == {a \in Address : a.p \in live}
           News == {NewAddress(p, t, FALSE) : p \in live, t \in AddressTypes}
<1>1. addr \in [Addresses -> {Gone} \cup News]
  BY DEF Init, NewAddress
<1>2. ASSUME NEW n \in News PROVE n \in Old
  <2>1. PICK p \in live, t \in AddressTypes : n = [p |-> p, type |-> t, config |-> FALSE]
    BY DEF NewAddress
  <2>2. p \in Projects
    BY DEF Init
  <2> HIDE DEF News
  <2> QED
    BY <2>1, <2>2 DEF Address
<1> HIDE DEF News, Old
<1>3. {Gone} \cup News \subseteq {Gone} \cup Old
  BY <1>2
<1> USE DEF Old
<1>4. addr \in [Addresses -> {Gone} \cup Old]
  BY <1>1, <1>3
<1> QED
  BY <1>4 DEF Exists

LEMMA InitHolds == ASSUME Init PROVE IInv
<1>1. /\ live \subseteq Projects /\ named = [p \in Projects |-> None]
      /\ link \in [BOQs -> live \cup {NoProject, Gone}]
      /\ settings = {} /\ config = {} /\ mode = "down" /\ job = [w \in Workers |-> Idle]
      /\ clean = TRUE /\ faults = 0
  BY DEF Init
<1>2. Idle \in Jobs /\ Idle.op = "idle" /\ None \notin BOQs /\ 0 \in 0..MaxFaults
  BY IdleIsJob, StartupAssumption DEF Idle, StartupAssumption
<1>3. \A w \in Workers : job[w] = Idle
  BY <1>1
<1>4. /\ addr \in [Addresses -> Address \cup {Gone}]
      /\ \A a \in Addresses : Exists(a) => addr[a].p \in live
  BY InitAddresses
<1>6. Typed
  BY <1>1, <1>2, <1>3, <1>4, MainIsNoRequest DEF Typed, TypeOK
<1>7. Owned
  BY <1>1, <1>4 DEF Owned, Exists
<1>8. MainKnows /\ SettingsInHand /\ LeavesOwn
  BY <1>2, <1>3, MainIsNoRequest DEF MainKnows, SettingsInHand, LeavesOwn, At
<1>9. MigratedSoFar
  BY <1>1 DEF MigratedSoFar
<1>10. NamersExist
  BY <1>1, <1>2 DEF NamersExist
<1>11. Accounted
  <2>1. \A b \in BOQs : Twice(b) = {} /\ Twice(b) \ InHand = {}
    BY <1>1, <1>2 DEF Twice
  <2>2. IsFiniteSet({}) /\ Cardinality({}) = 0
    BY FS_EmptySet
  <2>3. 0 <= 0 + 0 /\ 0 <= 0 + 1
    OBVIOUS
  <2> QED
    BY <1>1, <2>1, <2>2, <2>3 DEF Accounted
<1> QED
  BY <1>6, <1>7, <1>8, <1>9, <1>10, <1>11 DEF IInv

-----------------------------------------------------------------------------
\* Requests: the start is over.
LEMMA RequestRuns ==
    ASSUME Typed, NEW w \in Requests, ~At(w, "idle") \/ Ready(w)
    PROVE  /\ mode = "serving" /\ job[Main] = Idle /\ InHand = {} /\ w \in Workers /\ w # Main
           /\ Ready(w) => job[w] = Idle
<1>1. mode = "serving" /\ w \in Workers /\ w # Main
  BY Phases, MainIsNoRequest DEF At, Ready
<1>2. job[Main] = Idle /\ Idle.op = "idle"
  BY <1>1, Phases
<1>3. InHand = {}
  BY <1>2 DEF InHand, At
<1> QED
  BY <1>1, <1>2, <1>3, OpIsIdle DEF Ready

LEMMA RequestStep ==
    ASSUME IInv, mode = "serving", NEW w \in Requests, NEW j \in Jobs, Go(w, j), Ghosts,
           DbTyped', Owned', NamersExist', LeavesOwn', Accounted',
           j.op \in {"idle", "settings", "setting", "leave"},
           j.op = "setting" => j.todo \subseteq Projects \X SettingTypes
    PROVE  IInv'
<1>1. w \in Workers /\ w # Main
  BY MainIsNoRequest
<1>2. /\ job' \in [Workers -> Jobs] /\ job'[w] = j /\ mode' = mode
      /\ \A v \in Workers : v # w => job'[v] = job[v]
  BY <1>1, Goes DEF IInv
<1>3. job'[Main] = Idle /\ Idle.op = "idle"
  BY <1>1, <1>2, Phases, MainIsNoRequest DEF IInv
<1>4. Typed'
  BY <1>1, TypedStep DEF IInv
<1>5. SettingsInHand'
  BY <1>2 DEF IInv, SettingsInHand, At
<1>6. MainKnows' /\ MigratedSoFar'
  BY <1>2, <1>3 DEF MainKnows, MigratedSoFar, At
<1> QED
  BY <1>4, <1>5, <1>6 DEF IInv

\* A request that deletes no project leaves what the others have in hand alone.
LEMMA LeavingStays ==
    ASSUME Typed, NEW w \in Requests, NEW j \in Jobs, Go(w, j), ~At(w, "leave"), NEW b \in BOQs,
           link'[b] = link[b], Twice(b) \subseteq Twice(b)', Leaving(b)
    PROVE  Leaving(b)'
<1>1. PICK r \in Requests : At(r, "leave") /\ job[r].p \in Twice(b)
  BY DEF Leaving
<1>2. job'[r] = job[r]
  BY <1>1, Goes, MainIsNoRequest
<1>3. At(r, "leave")' /\ job'[r].p \in Twice(b)'
  BY <1>1, <1>2 DEF At
<1>4. link'[b] = NoProject
  BY DEF Leaving
<1> QED
  BY <1>3, <1>4 DEF Leaving

\* A request that saves neither projects nor BOQs.
LEMMA RequestSaves ==
    ASSUME IInv, mode = "serving", NEW w \in Requests, NEW j \in Jobs, Go(w, j), Ghosts,
           ~At(w, "leave"), UNCHANGED <<live, named, link>>, DbTyped', Owned',
           j.op \in {"idle", "settings", "setting"},
           j.op = "setting" => j.todo \subseteq Projects \X SettingTypes
    PROVE  IInv'
<1>1. /\ job'[w] = j /\ \A r \in Requests : r # w => job'[r] = job[r]
  BY Goes, MainIsNoRequest DEF IInv
<1>2. NamersExist'
  BY DEF IInv, NamersExist
<1>3. LeavesOwn'
  BY <1>1 DEF IInv, LeavesOwn, At
<1>4. ASSUME NEW b \in BOQs PROVE AccountedFor(b)'
  <2>1. Twice(b)' = Twice(b) /\ link'[b] = link[b] /\ IsFiniteSet(Twice(b))
    BY DEF Twice, IInv, Accounted
  <2>2. Leaving(b) => Leaving(b)'
    BY <2>1, LeavingStays DEF IInv
  <2>3. InHand = {}
    BY Phases DEF IInv, InHand, At
  <2>4. (Twice(b) \ InHand)' \subseteq Twice(b) \ InHand
    BY <2>1, <2>3
  <2> QED
    BY <2>1, <2>2, <2>4, AccountKept DEF IInv
<1>5. Accounted'
  BY <1>4 DEF Accounted, AccountedFor
<1> QED
  BY <1>2, <1>3, <1>5, RequestStep

LEMMA QuerySettingsKeeps ==
    ASSUME IInv, NEW w \in Requests, QuerySettings(w)
    PROVE  IInv'
<1> DEFINE j == Job("setting", live \X SettingTypes, NoProject, None)
<1>1. live \X SettingTypes \subseteq Projects \X SettingTypes
  BY DEF IInv, Typed, TypeOK
<1>2. j \in Jobs /\ j.op = "setting" /\ j.todo = live \X SettingTypes
  <2>1. live \X SettingTypes \in SUBSET Pairs
    BY <1>1 DEF Pairs
  <2> QED
    BY <2>1, JobsAre
<1>3. Go(w, j) /\ Saved /\ UNCHANGED db /\ At(w, "settings")
  BY DEF QuerySettings
<1> HIDE DEF j
<1>4. mode = "serving" /\ Ghosts /\ ~At(w, "leave")
  BY <1>3, RequestRuns, GhostsStep DEF IInv, At
<1>5. UNCHANGED <<live, named, link>> /\ DbTyped' /\ Owned'
  BY <1>3 DEF db, IInv, Typed, TypeOK, DbTyped, Owned, Exists
<1> QED
  BY <1>1, <1>2, <1>3, <1>4, <1>5, RequestSaves

LEMMA SettingsEndKeeps ==
    ASSUME IInv, NEW w \in Requests, SettingsEnd(w)
    PROVE  IInv'
<1>1. Idle \in Jobs /\ Idle.op = "idle"
  BY IdleIsJob DEF Idle
<1>2. Go(w, Idle) /\ Saved /\ UNCHANGED db /\ At(w, "setting")
  BY MainIsNoRequest DEF SettingsEnd
<1>4. mode = "serving" /\ Ghosts /\ ~At(w, "leave")
  BY <1>2, RequestRuns, GhostsStep DEF IInv, At
<1>5. UNCHANGED <<live, named, link>> /\ DbTyped' /\ Owned'
  BY <1>2 DEF db, IInv, Typed, TypeOK, DbTyped, Owned, Exists
<1> QED
  BY <1>1, <1>2, <1>4, <1>5, RequestSaves

LEMMA SaveSettingKeeps ==
    ASSUME IInv, NEW w \in Requests, SaveSetting(w)
    PROVE  IInv'
<1>1. PICK r \in job[w].todo :
        /\ Go(w, Job("setting", Rest(w, r), NoProject, None))
        /\ \/ /\ r \in settings \/ r[1] \in live
              /\ settings' = settings \cup {r}
              /\ UNCHANGED <<live, named, link, addr, config>> /\ Saved
           \/ r \notin settings /\ r[1] \notin live /\ Refused
           \/ r \notin settings /\ r[1] \in live /\ Fails
  BY DEF SaveSetting
<1> DEFINE j == Job("setting", Rest(w, r), NoProject, None)
<1>2. At(w, "setting") /\ ~At(w, "leave") /\ mode = "serving" /\ w \in Workers
  BY RequestRuns DEF SaveSetting, At, IInv
<1>3. job[w].todo \subseteq Projects \X SettingTypes
  BY <1>2 DEF IInv, SettingsInHand
<1>4. j \in Jobs /\ j.op = "setting" /\ j.todo = job[w].todo \ {r} /\ Go(w, j)
  <2>1. job[w].todo \ {r} \in SUBSET Pairs
    BY <1>3 DEF Pairs
  <2> QED
    BY <1>1, <2>1, JobsAre DEF Rest
<1> HIDE DEF j
<1>5. Ghosts
  BY <1>1, GhostsStep DEF IInv
<1>6. UNCHANGED <<live, named, link>> /\ DbTyped' /\ Owned'
  <2>1. CASE /\ r \in settings \/ r[1] \in live
             /\ settings' = settings \cup {r} /\ UNCHANGED <<live, named, link, addr, config>>
    BY <1>3, <2>1 DEF IInv, Typed, TypeOK, DbTyped, Owned, Exists
  <2>2. CASE Refused \/ Fails
    BY <2>2 DEF Refused, Fails, db, IInv, Typed, TypeOK, DbTyped, Owned, Exists
  <2> QED
    BY <1>1, <2>1, <2>2
<1> QED
  BY <1>2, <1>3, <1>4, <1>5, <1>6, RequestSaves

LEMMA HandleProjectSaveKeeps ==
    ASSUME IInv, NEW w \in Requests, HandleProjectSave(w)
    PROVE  IInv'
<1> DEFINE j == Job("settings", {}, NoProject, None)
<1>1. PICK p \in FreeProjects : NewProject(p, None)
  BY DEF HandleProjectSave
<1>2. /\ mode = "serving" /\ InHand = {} /\ ~At(w, "leave") /\ Saved
      /\ Go(w, j)
  BY RequestRuns DEF HandleProjectSave, IInv, Ready, At
<1>3. j \in Jobs /\ j.op = "settings"
  BY JobsAre
<1> HIDE DEF j
<1>4. /\ p \in Projects /\ p \notin live /\ live' = live \cup {p}
      /\ UNCHANGED <<link, addr, settings, config>>
      /\ named'[p] = None
      /\ \A q \in Projects : q # p => named'[q] = named[q]
      /\ \A b \in BOQs : Twice(b)' = IF None = b /\ link[b] # p
                                     THEN Twice(b) \cup {p} ELSE Twice(b)
  BY <1>1, ProjectIsNew DEF IInv
<1>5. None \notin BOQs
  BY StartupAssumption DEF StartupAssumption
<1>6. Ghosts /\ DbTyped' /\ Owned' /\ NamersExist'
  BY <1>1, <1>2, GhostsStep, NewProjectFits DEF IInv
<1>7. /\ job'[w] = j /\ \A r \in Requests : r # w => job'[r] = job[r]
  BY <1>2, <1>3, Goes, MainIsNoRequest DEF IInv
<1>8. LeavesOwn'
  <2> SUFFICES ASSUME NEW r \in Requests, At(r, "leave")'
               PROVE  /\ job'[r].x \in {Gone, NoProject} /\ job'[r].p \in Projects
                      /\ job'[r].todo \subseteq BOQs
                      /\ \A b \in job'[r].todo : (\E q \in live' : named'[q] = b) =>
                            link'[b] \in {job'[r].p, NoProject, Gone}
    BY DEF LeavesOwn
  <2>1. job'[r] = job[r] /\ At(r, "leave")
    BY <1>3, <1>7 DEF At
  <2>2. live \subseteq Projects
    BY DEF IInv, Typed, TypeOK
  <2>3. \A b \in BOQs : (\E q \in live' : named'[q] = b) => \E q \in live : named[q] = b
    BY <1>4, <1>5, <2>2
  <2> QED
    BY <1>4, <2>1, <2>3 DEF IInv, LeavesOwn
<1>9. ASSUME NEW b \in BOQs PROVE AccountedFor(b)'
  <2>1. Twice(b)' = Twice(b) /\ link'[b] = link[b] /\ IsFiniteSet(Twice(b))
    BY <1>4, <1>5 DEF IInv, Accounted
  <2>2. Leaving(b) => Leaving(b)'
    BY <1>2, <1>3, <2>1, LeavingStays DEF IInv
  <2>3. (Twice(b) \ InHand)' \subseteq Twice(b) \ InHand
    BY <1>2, <2>1
  <2> QED
    BY <1>6, <2>1, <2>2, <2>3, AccountKept DEF IInv
<1>10. Accounted'
  BY <1>9 DEF Accounted, AccountedFor
<1> QED
  BY <1>2, <1>3, <1>6, <1>8, <1>10, RequestStep

LEMMA HandleProjectDeleteKeeps ==
    ASSUME IInv, NEW w \in Requests, HandleProjectDelete(w)
    PROVE  IInv'
<1>1. PICK p \in live : \E deleteBoqs \in BOOLEAN :
        Go(w, Job("leave", BOQsOf(p), p, IF deleteBoqs THEN Gone ELSE NoProject))
  BY DEF HandleProjectDelete
<1>2. PICK x \in {Gone, NoProject} : Go(w, Job("leave", BOQsOf(p), p, x))
  BY <1>1
<1> DEFINE j == Job("leave", BOQsOf(p), p, x)
<1>3. BOQsOf(p) \in SUBSET BOQs /\ p \in Projects
  BY DEF BOQsOf, IInv, Typed, TypeOK
<1>4. j \in Jobs /\ j.op = "leave" /\ j.todo = BOQsOf(p) /\ j.p = p /\ j.x = x /\ Go(w, j)
  BY <1>2, <1>3, JobsAre
<1> HIDE DEF j
<1>5. mode = "serving" /\ InHand = {} /\ ~At(w, "leave") /\ Saved /\ UNCHANGED db
  BY RequestRuns DEF HandleProjectDelete, IInv, Ready, At
<1>6. Ghosts
  BY <1>5, GhostsStep DEF IInv
<1>7. UNCHANGED <<live, named, link>> /\ DbTyped' /\ Owned' /\ NamersExist'
  BY <1>5 DEF db, IInv, Typed, TypeOK, DbTyped, Owned, Exists, NamersExist
<1>8. /\ job'[w] = j /\ \A r \in Requests : r # w => job'[r] = job[r]
  BY <1>4, Goes, MainIsNoRequest DEF IInv
<1>9. LeavesOwn'
  <2>1. \A b \in BOQsOf(p) : link'[b] = p
    BY <1>7 DEF BOQsOf
  <2> QED
    BY <1>3, <1>4, <1>7, <1>8, <2>1 DEF IInv, LeavesOwn, At
<1>10. ASSUME NEW b \in BOQs PROVE AccountedFor(b)'
  <2>1. Twice(b)' = Twice(b) /\ link'[b] = link[b] /\ IsFiniteSet(Twice(b))
    BY <1>7 DEF IInv, Accounted, Twice
  <2>2. Leaving(b) => Leaving(b)'
    BY <1>4, <1>5, <2>1, LeavingStays DEF IInv
  <2>3. (Twice(b) \ InHand)' \subseteq Twice(b) \ InHand
    BY <1>5, <2>1
  <2> QED
    BY <1>6, <2>1, <2>2, <2>3, AccountKept DEF IInv
<1>11. Accounted'
  BY <1>10 DEF Accounted, AccountedFor
<1> QED
  BY <1>4, <1>5, <1>6, <1>7, <1>9, <1>11, RequestStep

\* A BOQ that is deleted is no project's name-giver any more.
LEMMA BOQRemoved ==
    ASSUME IInv, NEW b \in BOQs, link' = [link EXCEPT ![b] = Gone], named' = Unnamed(b),
           UNCHANGED <<live, addr, settings, config>>
    PROVE  /\ DbTyped' /\ Owned' /\ NamersExist' /\ Twice(b)' = {} /\ link'[b] = Gone
           /\ \A q \in live : named'[q] # b /\ \A c \in BOQs : named'[q] = c => named[q] = c
           /\ \A c \in BOQs : c # b => link'[c] = link[c] /\ Twice(c)' = Twice(c)
<1>1. live \subseteq Projects /\ None \notin BOQs
  BY StartupAssumption DEF StartupAssumption, IInv, Typed, TypeOK
<1>2. named' = [p \in Projects |-> IF named[p] = b THEN None ELSE named[p]]
  BY DEF Unnamed
<1>3. \A q \in Projects : named'[q] = IF named[q] = b THEN None ELSE named[q]
  BY <1>2
<1>4. /\ \A q \in live : named'[q] # b /\ \A c \in BOQs : named'[q] = c => named[q] = c
      /\ \A q \in live : \A c \in BOQs : c # b => (named'[q] = c <=> named[q] = c)
  BY <1>1, <1>3
<1>5. link'[b] = Gone /\ \A c \in BOQs : c # b => link'[c] = link[c]
  BY DEF IInv, Typed, TypeOK
<1>6. Twice(b)' = {}
  BY <1>4 DEF Twice
<1>7. \A c \in BOQs : c # b => Twice(c)' = Twice(c)
  BY <1>4, <1>5 DEF Twice
<1>8. DbTyped'
  <2>1. named' \in [Projects -> BOQs \cup {None}]
    BY <1>2 DEF IInv, Typed, TypeOK
  <2> QED
    BY <2>1 DEF IInv, Typed, TypeOK, DbTyped
<1>9. Owned'
  BY <1>5 DEF IInv, Owned, Exists
<1>10. NamersExist'
  BY <1>4, <1>5 DEF IInv, NamersExist
<1> QED
  BY <1>4, <1>5, <1>6, <1>7, <1>8, <1>9, <1>10

\* The handlers that save once: the request is at rest before and after.
LEMMA HandleBOQSaveKeeps ==
    ASSUME IInv, NEW w \in Requests, Ready(w), Saved, Done, HandleBOQSave
    PROVE  IInv'
<1>1. mode = "serving" /\ InHand = {} /\ w \in Workers /\ job[w] = Idle
  BY RequestRuns DEF IInv
<1>2. Idle \in Jobs /\ Idle.op = "idle"
  BY IdleIsJob DEF Idle
<1>3. Go(w, Idle) /\ job' = job
  BY <1>1 DEF Done, Go, IInv, Typed
<1>4. Ghosts /\ ~At(w, "leave")
  BY <1>1, <1>2, GhostsStep DEF IInv, At
<1>5. PICK b \in BOQsOf(Gone), p \in live : link' = [link EXCEPT ![b] = p]
  BY DEF HandleBOQSave
<1>6. UNCHANGED <<live, named, addr, settings, config>>
  BY DEF HandleBOQSave
<1>7. /\ DbTyped' /\ Owned' /\ NamersExist' /\ b \in BOQs /\ link[b] = Gone /\ Twice(b) = {}
      /\ \A c \in BOQs : Twice(c)' = Twice(c)
      /\ \A c \in BOQs : c # b => link'[c] = link[c]
  BY <1>4, <1>5, <1>6, BOQAdded
<1>8. \A q \in live : named[q] # b
  BY <1>7 DEF IInv, NamersExist
<1>9. LeavesOwn'
  BY <1>3, <1>6, <1>7, <1>8 DEF IInv, LeavesOwn, At
<1>10. ASSUME NEW c \in BOQs PROVE AccountedFor(c)'
  <2>1. CASE c = b
    BY <1>4, <1>7, <2>1, NothingToAccount
  <2>2. CASE c # b
    <3>1. Twice(c)' = Twice(c) /\ IsFiniteSet(Twice(c)) /\ link'[c] = link[c]
      BY <1>7, <2>2 DEF IInv, Accounted
    <3>2. (Twice(c) \ InHand)' \subseteq Twice(c) \ InHand
      BY <1>1, <3>1
    <3>3. Leaving(c) => Leaving(c)'
      BY <1>2, <1>3, <1>4, <3>1, LeavingStays DEF IInv
    <3> QED
      BY <1>4, <3>1, <3>2, <3>3, AccountKept DEF IInv
  <2> QED
    BY <2>1, <2>2
<1>11. Accounted'
  BY <1>10 DEF Accounted, AccountedFor
<1> QED
  BY <1>1, <1>2, <1>3, <1>4, <1>7, <1>9, <1>11, RequestStep

LEMMA HandleBOQDeleteKeeps ==
    ASSUME IInv, NEW w \in Requests, Ready(w), Saved, Done, HandleBOQDelete
    PROVE  IInv'
<1>1. mode = "serving" /\ InHand = {} /\ w \in Workers /\ job[w] = Idle
  BY RequestRuns DEF IInv
<1>2. Idle \in Jobs /\ Idle.op = "idle"
  BY IdleIsJob DEF Idle
<1>3. Go(w, Idle) /\ job' = job
  BY <1>1 DEF Done, Go, IInv, Typed
<1>4. Ghosts /\ ~At(w, "leave")
  BY <1>1, <1>2, GhostsStep DEF IInv, At
<1>5. PICK b \in BOQs : link' = [link EXCEPT ![b] = Gone] /\ named' = Unnamed(b)
  BY DEF HandleBOQDelete
<1>6. UNCHANGED <<live, addr, settings, config>>
  BY DEF HandleBOQDelete
<1>7. /\ DbTyped' /\ Owned' /\ NamersExist' /\ Twice(b)' = {} /\ link'[b] = Gone
      /\ \A q \in live : named'[q] # b /\ \A c \in BOQs : named'[q] = c => named[q] = c
      /\ \A c \in BOQs : c # b => link'[c] = link[c] /\ Twice(c)' = Twice(c)
  BY <1>5, <1>6, BOQRemoved
<1>8. LeavesOwn'
  BY <1>3, <1>6, <1>7 DEF IInv, LeavesOwn, At
<1>9. ASSUME NEW c \in BOQs PROVE AccountedFor(c)'
  <2>1. CASE c = b
    BY <1>4, <1>7, <2>1, NothingToAccount
  <2>2. CASE c # b
    <3>1. Twice(c)' = Twice(c) /\ IsFiniteSet(Twice(c)) /\ link'[c] = link[c]
      BY <1>7, <2>2 DEF IInv, Accounted
    <3>2. (Twice(c) \ InHand)' \subseteq Twice(c) \ InHand
      BY <1>1, <3>1
    <3>3. Leaving(c) => Leaving(c)'
      BY <1>2, <1>3, <1>4, <3>1, LeavingStays DEF IInv
    <3> QED
      BY <1>4, <3>1, <3>2, <3>3, AccountKept DEF IInv
  <2> QED
    BY <2>1, <2>2
<1>10. Accounted'
  BY <1>9 DEF Accounted, AccountedFor
<1> QED
  BY <1>1, <1>2, <1>3, <1>4, <1>7, <1>8, <1>10, RequestStep

LEMMA HandleOtherKeeps ==
    ASSUME IInv, NEW w \in Requests, Ready(w), Saved, Done,
           \/ HandleAddressSave \/ CommitAddressImport \/ HandleAddressUpdate
           \/ HandleAddressDelete \/ HandleProjectSettingsSave
    PROVE  IInv'
<1>1. mode = "serving" /\ w \in Workers /\ job[w] = Idle
  BY RequestRuns DEF IInv
<1>2. Idle \in Jobs /\ Idle.op = "idle"
  BY IdleIsJob DEF Idle
<1>3. Go(w, Idle)
  BY <1>1 DEF Done, Go, IInv, Typed
<1>4. Ghosts /\ ~At(w, "leave")
  BY <1>1, <1>2, GhostsStep DEF IInv, At
<1>5. UNCHANGED <<live, named, link>> /\ live \subseteq Projects
  BY DEF HandleAddressSave, CommitAddressImport, HandleAddressUpdate, HandleAddressDelete,
         HandleProjectSettingsSave, IInv, Typed, TypeOK
<1> DEFINE Kinds == {ConfigType(t) : t \in AddressTypes}
           Added == live \X (Kinds \cup ConfigTypes)
<1>6. ASSUME NEW t \in AddressTypes PROVE ConfigType(t) \in Kinds
  OBVIOUS
<1> HIDE DEF Kinds
<1>7. /\ settings' \subseteq settings \cup (live \X SettingTypes)
      /\ config' \subseteq config \cup (live \X Kinds) \cup (live \X ConfigTypes)
      /\ addr' \in [Addresses -> Address \cup {Gone}]
      /\ \A a \in Addresses : Exists(a)' => addr'[a].p \in live
  <2>0. /\ addr \in [Addresses -> Address \cup {Gone}]
        /\ \A a \in Addresses : Exists(a) => addr[a].p \in live
    BY DEF IInv, Typed, TypeOK, Owned
  <2>1. ASSUME NEW a \in Addresses, NEW p \in live, NEW t \in AddressTypes, NEW c \in BOOLEAN,
               addr' = [addr EXCEPT ![a] = [p |-> p, type |-> t, config |-> c]]
        PROVE  /\ addr' \in [Addresses -> Address \cup {Gone}]
               /\ \A b \in Addresses : Exists(b)' => addr'[b].p \in live
    <3>1. [p |-> p, type |-> t, config |-> c] \in Address
      BY <1>5 DEF Address
    <3>2. PICK n \in Address : n = [p |-> p, type |-> t, config |-> c] /\ n.p = p
      BY <3>1
    <3>3. addr' = [addr EXCEPT ![a] = n]
      BY <2>1, <3>2
    <3> QED
      BY <2>0, <3>2, <3>3 DEF Exists
  <2>2. CASE HandleAddressSave
    <3>1. PICK a \in Addresses, p \in live, t \in AddressTypes :
            /\ addr' = [addr EXCEPT ![a] = NewAddress(p, t, TRUE)]
            /\ config' = config \cup {<<p, ConfigType(t)>>}
      BY <2>2 DEF HandleAddressSave
    <3>2. UNCHANGED settings
      BY <2>2 DEF HandleAddressSave
    <3>3. addr' = [addr EXCEPT ![a] = [p |-> p, type |-> t, config |-> TRUE]]
      BY <3>1 DEF NewAddress
    <3>4. config' \subseteq config \cup (live \X Kinds)
      BY <1>6, <3>1
    <3> QED
      BY <2>1, <3>2, <3>3, <3>4
  <2>3. CASE CommitAddressImport
    <3>1. PICK a \in Addresses, p \in live, t \in AddressTypes :
            addr' = [addr EXCEPT ![a] = NewAddress(p, t, <<p, ConfigType(t)>> \in config)]
      BY <2>3 DEF CommitAddressImport
    <3>2. UNCHANGED <<settings, config>>
      BY <2>3 DEF CommitAddressImport
    <3>3. CASE <<p, ConfigType(t)>> \in config
      <4>1. addr' = [addr EXCEPT ![a] = [p |-> p, type |-> t, config |-> TRUE]]
        BY <3>1, <3>3 DEF NewAddress
      <4> QED
        BY <2>1, <3>2, <4>1
    <3>4. CASE <<p, ConfigType(t)>> \notin config
      <4> DEFINE c == <<p, ConfigType(t)>> \in config
      <4>0. c = FALSE
        BY <3>4
      <4>2. addr' = [addr EXCEPT ![a] = [p |-> p, type |-> t, config |-> c]]
        BY <3>1 DEF NewAddress
      <4> HIDE DEF c
      <4>1. addr' = [addr EXCEPT ![a] = [p |-> p, type |-> t, config |-> FALSE]]
        BY <4>0, <4>2
      <4> QED
        BY <2>1, <3>2, <4>1
    <3> QED
      BY <3>3, <3>4
  <2>4. CASE HandleAddressUpdate
    <3>1. PICK a \in Addresses :
            /\ Exists(a) /\ addr' = [addr EXCEPT ![a].config = TRUE]
            /\ config' = config \cup {<<addr[a].p, ConfigType(addr[a].type)>>}
      BY <2>4 DEF HandleAddressUpdate
    <3>2. UNCHANGED settings
      BY <2>4 DEF HandleAddressUpdate
    <3>3. addr[a].p \in live /\ addr[a].type \in AddressTypes
      BY <2>0, <3>1 DEF Exists, Address
    <3>4. ConfigType(addr[a].type) \in Kinds
      BY <1>6, <3>3
    <3>5. config' \subseteq config \cup (live \X Kinds)
      BY <3>1, <3>3, <3>4
    <3>6. /\ addr' \in [Addresses -> Address \cup {Gone}]
          /\ \A c \in Addresses : Exists(c)' => Exists(c) /\ addr'[c].p = addr[c].p
      BY <3>1, AddressMoves DEF IInv
    <3>7. \A c \in Addresses : Exists(c)' => addr'[c].p \in live
      BY <2>0, <3>6
    <3> QED
      BY <3>2, <3>5, <3>6, <3>7
  <2>5. CASE HandleAddressDelete
    <3>1. PICK a \in Addresses : addr' = [addr EXCEPT ![a] = Gone]
      BY <2>5 DEF HandleAddressDelete
    <3> QED
      BY <2>0, <2>5, <3>1 DEF HandleAddressDelete, Exists
  <2>6. CASE HandleProjectSettingsSave
    <3>1. PICK p \in live : /\ config' = config \cup ({p} \X ConfigTypes)
                            /\ settings' = settings \cup ({p} \X SettingTypes)
      BY <2>6 DEF HandleProjectSettingsSave
    <3> QED
      BY <2>0, <2>6, <3>1 DEF HandleProjectSettingsSave, Exists
  <2> QED
    BY <2>2, <2>3, <2>4, <2>5, <2>6
<1>8. DbTyped'
  <2>1. config \subseteq (Projects \X Kinds) \cup (Projects \X ConfigTypes)
    BY DEF IInv, Typed, TypeOK, Kinds
  <2>2. config' \subseteq (Projects \X Kinds) \cup (Projects \X ConfigTypes)
    BY <1>5, <1>7, <2>1
  <2> QED
    BY <1>5, <1>7, <2>2 DEF IInv, Typed, TypeOK, DbTyped, Kinds
<1>9. Owned'
  BY <1>5, <1>7 DEF IInv, Owned
<1> QED
  BY <1>1, <1>2, <1>3, <1>4, <1>5, <1>8, <1>9, RequestSaves

-----------------------------------------------------------------------------
\* The deletion of a project: its BOQs one by one, then the project.
LEMMA LeavingGoesOn ==
    ASSUME NEW b \in BOQs, Leaving(b), link'[b] = link[b], Twice(b) \subseteq Twice(b)',
           \A r \in Requests : At(r, "leave") => At(r, "leave")' /\ job'[r].p = job[r].p
    PROVE  Leaving(b)'
<1>1. PICK r \in Requests : At(r, "leave") /\ job[r].p \in Twice(b)
  BY DEF Leaving
<1>2. At(r, "leave")' /\ job'[r].p \in Twice(b)'
  BY <1>1
<1>3. link'[b] = NoProject
  BY DEF Leaving
<1> QED
  BY <1>2, <1>3 DEF Leaving

\* A BOQ that leaves its project may have named it: the deletion accounts for it.
LEMMA AccountLeft ==
    ASSUME Accounted, NEW b \in BOQs, NEW p, Ghosts, link[b] # Gone, ~Leaving(b), Leaving(b)',
           Twice(b)' \subseteq Twice(b) \cup {p}, InHand = {}
    PROVE  AccountedFor(b)'
<1>1. PICK S, T, n, m, f, g :
         /\ S = Twice(b) /\ T = (Twice(b) \ InHand)'
         /\ n = Cardinality(S) /\ m = Cardinality(T) /\ f = faults /\ g = faults'
  OBVIOUS
<1>2. Twice(b) \ InHand = S
  BY <1>1
<1>3. IsFiniteSet(S) /\ n <= f + 0
  BY <1>1, <1>2 DEF Accounted
<1>4. IsFiniteSet(S \cup {p}) /\ T \in SUBSET (S \cup {p}) /\ Twice(b)' \in SUBSET (S \cup {p})
  BY <1>1, <1>3, FS_AddElement
<1>5. IsFiniteSet(Twice(b)')
  BY <1>4, FS_Subset
<1>6. n \in Nat /\ m \in Nat /\ m <= n + 1
  <2>1. Cardinality(S \cup {p}) \in {n, n + 1} /\ n \in Nat
    BY <1>1, <1>3, FS_AddElement, FS_CardinalityType
  <2>2. m \in Nat /\ m <= Cardinality(S \cup {p})
    BY <1>1, <1>4, FS_Subset, FS_CardinalityType
  <2> QED
    BY <2>1, <2>2
<1>7. f \in Nat /\ g \in Nat /\ f <= g
  BY <1>1 DEF Ghosts
<1>8. m <= g + 1
  BY <1>3, <1>6, <1>7
<1> QED
  BY <1>1, <1>5, <1>8 DEF AccountedFor

\* A project that goes is one less to account for.
LEMMA AccountCleared ==
    ASSUME Accounted, NEW b \in BOQs, NEW p \in Twice(b), Ghosts, link[b] # Gone,
           Twice(b)' = Twice(b) \ {p}, InHand = {}
    PROVE  AccountedFor(b)'
<1>1. PICK S, T, n, m, f, g :
         /\ S = Twice(b) /\ T = (Twice(b) \ InHand)'
         /\ n = Cardinality(S) /\ m = Cardinality(T) /\ f = faults /\ g = faults'
  OBVIOUS
<1>2. Twice(b) \ InHand = S
  BY <1>1
<1>3. IsFiniteSet(S) /\ p \in S /\ n <= f + (IF Leaving(b) THEN 1 ELSE 0)
  BY <1>1, <1>2 DEF Accounted
<1>4. IsFiniteSet(S \ {p}) /\ Cardinality(S \ {p}) = n - 1 /\ n \in Nat
  BY <1>1, <1>3, FS_RemoveElement, FS_CardinalityType
<1>5. f \in Nat /\ g \in Nat /\ f <= g
  BY <1>1 DEF Ghosts
<1>6. n <= f + 1
  BY <1>3, <1>4, <1>5
<1>7. Twice(b)' = S \ {p} /\ T \in SUBSET (S \ {p})
  BY <1>1
<1>8. m \in Nat /\ m <= n - 1
  BY <1>1, <1>4, <1>7, FS_Subset, FS_CardinalityType
<1>9. m <= g + 1 /\ m <= g + 0
  BY <1>4, <1>5, <1>6, <1>8
<1> QED
  BY <1>1, <1>4, <1>7, <1>9 DEF AccountedFor

LEMMA LeaveBOQKeeps ==
    ASSUME IInv, NEW w \in Requests, LeaveBOQ(w)
    PROVE  IInv'
<1>1. PICK b \in job[w].todo :
        /\ Go(w, [job[w] EXCEPT !.todo = Rest(w, b)])
        /\ \/ /\ link[b] # Gone
              /\ link' = [link EXCEPT ![b] = job[w].x]
              /\ named' = IF job[w].x = Gone THEN Unnamed(b) ELSE named
              /\ UNCHANGED <<live, addr, settings, config>> /\ Saved
           \/ link[b] = Gone /\ UNCHANGED db /\ Saved
           \/ Fails
  BY DEF LeaveBOQ
<1> DEFINE j == [job[w] EXCEPT !.todo = Rest(w, b)]
<1>2. At(w, "leave") /\ mode = "serving" /\ InHand = {} /\ w \in Workers
  BY RequestRuns DEF LeaveBOQ, IInv, At
<1>3. /\ job[w].x \in {Gone, NoProject} /\ job[w].p \in Projects /\ job[w].todo \subseteq BOQs
      /\ \A c \in job[w].todo : (\E q \in live : named[q] = c) =>
            link[c] \in {job[w].p, NoProject, Gone}
  BY <1>2 DEF IInv, LeavesOwn
<1>4. /\ j \in Jobs /\ j.op = "leave" /\ j.p = job[w].p /\ j.x = job[w].x
      /\ j.todo = job[w].todo \ {b} /\ Go(w, j)
  <2>1. job[w] \in Jobs /\ job[w].op = "leave" /\ job[w] # Idle
    BY <1>2 DEF IInv, Typed, At, Idle
  <2>2. Rest(w, b) \in SUBSET BOQs /\ Rest(w, b) = job[w].todo \ {b}
    BY <1>3 DEF Rest
  <2> QED
    BY <1>1, <2>1, <2>2 DEF Jobs
<1> HIDE DEF j
<1>5. b \in BOQs
  BY <1>3
<1>6. Ghosts
  BY <1>1, GhostsStep DEF IInv
<1>7. /\ job'[w] = j /\ \A r \in Requests : r # w => job'[r] = job[r]
  BY <1>2, <1>4, Goes, MainIsNoRequest DEF IInv
<1>8. \A r \in Requests : At(r, "leave") => At(r, "leave")' /\ job'[r].p = job[r].p
  BY <1>4, <1>7 DEF At
<1>9. \A r \in Requests : At(r, "leave")' =>
         /\ At(r, "leave") /\ job'[r].p = job[r].p /\ job'[r].x = job[r].x
         /\ job'[r].todo \subseteq job[r].todo
  BY <1>2, <1>4, <1>7 DEF At
<1>10. ASSUME NEW c \in BOQs, link'[c] = link[c], Twice(c)' = Twice(c)
       PROVE  AccountedFor(c)'
  <2>1. IsFiniteSet(Twice(c)')
    BY <1>10 DEF IInv, Accounted
  <2>2. (Twice(c) \ InHand)' \subseteq Twice(c) \ InHand
    BY <1>2, <1>10
  <2>3. Leaving(c) => Leaving(c)'
    BY <1>8, <1>10, LeavingGoesOn
  <2> QED
    BY <1>6, <1>10, <2>1, <2>2, <2>3, AccountKept DEF IInv
<1>11. CASE UNCHANGED db
  <2>1. UNCHANGED <<live, named, link>> /\ DbTyped' /\ Owned' /\ NamersExist'
    BY <1>11 DEF db, IInv, Typed, TypeOK, DbTyped, Owned, Exists, NamersExist
  <2>2. LeavesOwn'
    BY <1>9, <2>1 DEF IInv, LeavesOwn
  <2>3. \A c \in BOQs : link'[c] = link[c] /\ Twice(c)' = Twice(c)
    BY <2>1 DEF Twice
  <2>4. Accounted'
    BY <1>10, <2>3 DEF Accounted, AccountedFor
  <2> QED
    BY <1>2, <1>4, <1>6, <2>1, <2>2, <2>4, RequestStep
<1>12. CASE /\ link[b] # Gone /\ job[w].x = Gone
            /\ link' = [link EXCEPT ![b] = Gone] /\ named' = Unnamed(b)
            /\ UNCHANGED <<live, addr, settings, config>>
  <2>1. /\ DbTyped' /\ Owned' /\ NamersExist' /\ Twice(b)' = {} /\ link'[b] = Gone
        /\ \A q \in live : named'[q] # b /\ \A c \in BOQs : named'[q] = c => named[q] = c
        /\ \A c \in BOQs : c # b => link'[c] = link[c] /\ Twice(c)' = Twice(c)
    BY <1>5, <1>12, BOQRemoved
  <2>2. LeavesOwn'
    BY <1>9, <1>12, <2>1 DEF IInv, LeavesOwn
  <2>3. AccountedFor(b)'
    BY <1>5, <1>6, <2>1, NothingToAccount
  <2>4. Accounted'
    BY <1>10, <2>1, <2>3 DEF Accounted, AccountedFor
  <2> QED
    BY <1>2, <1>4, <1>6, <2>1, <2>2, <2>4, RequestStep
<1>13. CASE /\ link[b] # Gone /\ job[w].x = NoProject
            /\ link' = [link EXCEPT ![b] = NoProject]
            /\ UNCHANGED <<live, named, addr, settings, config>>
  <2>1. /\ link'[b] = NoProject
        /\ \A c \in BOQs : c # b => link'[c] = link[c] /\ Twice(c)' = Twice(c)
        /\ Twice(b)' = {q \in live : named[q] = b /\ q # NoProject}
    BY <1>5, <1>13, LinkMoves DEF IInv
  <2>2. NoProject # Gone /\ NoProject \notin Projects /\ live \subseteq Projects
    BY StartupAssumption DEF StartupAssumption, IInv, Typed, TypeOK
  <2>3. DbTyped' /\ Owned'
    BY <1>5, <1>13, <2>1 DEF IInv, Typed, TypeOK, DbTyped, Owned, Exists
  <2>4. NamersExist'
    BY <1>13, <2>1, <2>2 DEF IInv, NamersExist
  <2>5. LeavesOwn'
    BY <1>9, <1>13, <2>1 DEF IInv, LeavesOwn
  <2>6. \A q : q \in Twice(b)' <=> q \in live /\ named[q] = b
    BY <2>1, <2>2
  <2>7. \A q : q \in Twice(b) <=> q \in live /\ named[q] = b /\ link[b] # q
    BY DEF Twice
  <2>8. AccountedFor(b)'
    <3>1. CASE \A q \in live : named[q] # b
      <4>1. Twice(b)' = {}
        BY <2>6, <3>1
      <4> QED
        BY <1>5, <1>6, <4>1, NothingToAccount
    <3>2. CASE link[b] = NoProject
      <4>1. Twice(b)' = Twice(b)
        BY <2>2, <2>6, <2>7, <3>2
      <4> QED
        BY <1>5, <1>10, <2>1, <3>2, <4>1
    <3>3. CASE link[b] = job[w].p
      <4>1. Twice(b)' \subseteq Twice(b) \cup {job[w].p} /\ ~Leaving(b)
        BY <1>3, <2>2, <2>6, <2>7, <3>3 DEF Leaving
      <4>2. CASE job[w].p \in Twice(b)'
        <5>1. Leaving(b)'
          BY <1>2, <1>8, <2>1, <4>2 DEF Leaving
        <5> QED
          BY <1>2, <1>5, <1>6, <1>13, <4>1, <5>1, AccountLeft DEF IInv
      <4>3. CASE job[w].p \notin Twice(b)'
        <5>1. Twice(b)' \in SUBSET Twice(b)
          BY <4>1, <4>3
        <5>2. IsFiniteSet(Twice(b)')
          BY <1>5, <5>1, FS_Subset DEF IInv, Accounted
        <5>3. (Twice(b) \ InHand)' \subseteq Twice(b) \ InHand
          BY <1>2, <5>1
        <5> QED
          BY <1>5, <1>6, <1>13, <4>1, <5>2, <5>3, AccountKept DEF IInv
      <4> QED
        BY <4>2, <4>3
    <3> QED
      BY <1>3, <1>13, <3>1, <3>2, <3>3
  <2>9. Accounted'
    BY <1>10, <2>1, <2>8 DEF Accounted, AccountedFor
  <2> QED
    BY <1>2, <1>4, <1>6, <2>3, <2>4, <2>5, <2>9, RequestStep
<1>14. Fails => UNCHANGED db
  BY DEF Fails
<1>15. NoProject # Gone
  BY StartupAssumption DEF StartupAssumption
<1> QED
  BY <1>1, <1>3, <1>11, <1>12, <1>13, <1>14, <1>15

LEMMA DeleteProjectKeeps ==
    ASSUME IInv, NEW w \in Requests, DeleteProject(w)
    PROVE  IInv'
<1>1. /\ At(w, "leave") /\ mode = "serving" /\ InHand = {} /\ w \in Workers
      /\ job[w].todo = {} /\ Go(w, Idle)
  BY RequestRuns DEF DeleteProject, IInv, At
<1>2. PICK p : p = job[w].p
  OBVIOUS
<1>3. (Cascade(p) /\ Saved) \/ Fails
  BY <1>2 DEF DeleteProject
<1>4. Idle \in Jobs /\ Idle.op = "idle"
  BY IdleIsJob DEF Idle
<1>5. p \in Projects /\ p # Gone /\ NoProject # Gone /\ NoProject \notin Projects
      /\ live \subseteq Projects
  BY <1>1, <1>2, StartupAssumption DEF IInv, LeavesOwn, StartupAssumption, Typed, TypeOK
<1>6. Ghosts
  BY <1>3, GhostsStep DEF IInv
<1>7. /\ job'[w] = Idle /\ \A r \in Requests : r # w => job'[r] = job[r]
  BY <1>1, <1>4, Goes, MainIsNoRequest DEF IInv
<1>8. \A r \in Requests : At(r, "leave")' => At(r, "leave") /\ job'[r] = job[r]
  BY <1>4, <1>7 DEF At
<1>9. CASE Fails
  <2>1. UNCHANGED db /\ faults < faults'
    BY <1>9, FaultCounts DEF IInv
  <2>2. UNCHANGED <<live, named, link>> /\ DbTyped' /\ Owned' /\ NamersExist'
    BY <2>1 DEF db, IInv, Typed, TypeOK, DbTyped, Owned, Exists, NamersExist
  <2>3. LeavesOwn'
    BY <1>8, <2>2 DEF IInv, LeavesOwn
  <2>4. ASSUME NEW b \in BOQs PROVE AccountedFor(b)'
    <3>1. Twice(b)' = Twice(b) /\ link'[b] = link[b] /\ IsFiniteSet(Twice(b))
      BY <2>2 DEF Twice, IInv, Accounted
    <3>2. (Twice(b) \ InHand)' \subseteq Twice(b) \ InHand
      BY <1>1, <3>1
    <3> QED
      BY <1>6, <2>1, <3>1, <3>2, AccountKept DEF IInv
  <2>5. Accounted'
    BY <2>4 DEF Accounted, AccountedFor
  <2> QED
    BY <1>1, <1>4, <1>6, <2>2, <2>3, <2>5, RequestStep
<1>10. CASE Cascade(p)
  <2>1. /\ live' = live \ {p} /\ named' = [named EXCEPT ![p] = None]
        /\ link' = [b \in BOQs |-> IF link[b] = p THEN NoProject ELSE link[b]]
        /\ addr' = [a \in Addresses |-> IF a \in AddressesOf(p) THEN Gone ELSE addr[a]]
        /\ settings' = settings \ Of(settings, p) /\ config' = config \ Of(config, p)
    BY <1>10 DEF Cascade
  <2>2. \A q \in live' : named'[q] = named[q] /\ q \in live /\ q # p
    BY <1>5, <2>1 DEF IInv, Typed, TypeOK
  <2>3. \A b \in BOQs : link'[b] = IF link[b] = p THEN NoProject ELSE link[b]
    BY <2>1
  <2>4. \A a \in Addresses : Exists(a)' => Exists(a) /\ addr'[a] = addr[a] /\ addr[a].p # p
    BY <2>1 DEF AddressesOf, Exists
  <2>5. DbTyped'
    <3>1. named' \in [Projects -> BOQs \cup {None}]
      BY <2>1 DEF IInv, Typed, TypeOK
    <3>2. addr' \in [Addresses -> Address \cup {Gone}]
      BY <2>1 DEF IInv, Typed, TypeOK
    <3>3. link' \in [BOQs -> Projects \cup {NoProject, Gone}]
      BY <2>1 DEF IInv, Typed, TypeOK
    <3>4. live' \subseteq live /\ settings' \subseteq settings /\ config' \subseteq config
      BY <2>1
    <3> QED
      BY <3>1, <3>2, <3>3, <3>4 DEF IInv, Typed, TypeOK, DbTyped
  <2>6. Owned'
    <3>1. \A b \in BOQs : link'[b] \in live' \cup {NoProject, Gone}
      BY <2>1, <2>3 DEF IInv, Owned
    <3>2. \A a \in Addresses : Exists(a)' => addr'[a].p \in live'
      BY <2>1, <2>4 DEF IInv, Owned
    <3>3. \A r \in settings' \cup config' : r[1] \in live'
      BY <2>1 DEF IInv, Owned, Of
    <3> QED
      BY <3>1, <3>2, <3>3 DEF Owned
  <2>7. NamersExist'
    BY <1>5, <2>2, <2>3 DEF IInv, NamersExist
  <2>8. LeavesOwn'
    BY <1>8, <2>2, <2>3 DEF IInv, LeavesOwn
  <2>9. ASSUME NEW b \in BOQs PROVE AccountedFor(b)'
    <3>1. Twice(b)' = Twice(b) \ {p}
      <4>1. \A q : q \in Twice(b)' <=> q \in live' /\ named'[q] = b /\ link'[b] # q
        BY DEF Twice
      <4>2. \A q : q \in Twice(b) <=> q \in live /\ named[q] = b /\ link[b] # q
        BY DEF Twice
      <4>3. \A q : q \in live' <=> q \in live /\ q # p
        BY <2>1
      <4>4. \A q \in live' : link'[b] # q <=> link[b] # q
        BY <1>5, <2>2, <2>3
      <4> QED
        BY <2>2, <4>1, <4>2, <4>3, <4>4
    <3>2. link'[b] # Gone => link[b] # Gone
      BY <1>5, <2>3
    <3>3. IsFiniteSet(Twice(b)) /\ Twice(b)' \in SUBSET Twice(b)
      BY <3>1 DEF IInv, Accounted
    <3>4. IsFiniteSet(Twice(b)')
      BY <3>3, FS_Subset
    <3>5. CASE link[b] = Gone
      <4>1. Twice(b) = {}
        BY <3>5 DEF IInv, NamersExist, Twice
      <4> QED
        BY <1>6, <3>1, <4>1, NothingToAccount
    <3>6. CASE link[b] # Gone /\ p \in Twice(b)
      BY <1>1, <1>6, <3>1, <3>6, AccountCleared DEF IInv
    <3>7. CASE p \notin Twice(b)
      <4>1. Leaving(b) => Leaving(b)'
        <5> SUFFICES ASSUME Leaving(b) PROVE Leaving(b)'
          OBVIOUS
        <5>1. PICK r \in Requests : At(r, "leave") /\ job[r].p \in Twice(b)
          BY DEF Leaving
        <5>2. r # w
          BY <1>2, <3>7, <5>1
        <5>3. At(r, "leave")' /\ job'[r].p \in Twice(b)'
          BY <1>7, <3>1, <3>7, <5>1, <5>2 DEF At
        <5>4. link'[b] = NoProject
          BY <2>3 DEF Leaving
        <5> QED
          BY <5>3, <5>4 DEF Leaving
      <4>2. (Twice(b) \ InHand)' \subseteq Twice(b) \ InHand
        BY <1>1, <3>3
      <4> QED
        BY <1>6, <3>2, <3>4, <4>1, <4>2, AccountKept DEF IInv
    <3> QED
      BY <3>5, <3>6, <3>7
  <2>10. Accounted'
    BY <2>9 DEF Accounted, AccountedFor
  <2> QED
    BY <1>1, <1>4, <1>6, <2>5, <2>6, <2>7, <2>8, <2>10, RequestStep
<1> QED
  BY <1>3, <1>9, <1>10

-----------------------------------------------------------------------------
LEMMA StepKeeps == ASSUME IInv, [Next]_vars PROVE IInv'
<1>1. CASE StartUp
  BY <1>1, StartKeeps, ServeKeeps, SeedProjectKeeps, SeedBOQKeeps, SeedAddressKeeps,
     SeedSettingsKeeps, SeedEndsKeeps, QueryOrphansKeeps, AdoptProjectKeeps, AdoptLinkKeeps,
     AdoptEndsKeeps, MainQuerySettingsKeeps, MainSaveSettingKeeps, MainSettingsEndKeeps,
     QueryConfigsKeeps, ConfigureKeeps, MoveAddressKeeps, ConfigsEndKeeps DEF StartUp
<1>2. ASSUME NEW w \in Requests, Step(w) PROVE IInv'
  BY <1>2, QuerySettingsKeeps, SaveSettingKeeps, SettingsEndKeeps, LeaveBOQKeeps,
     DeleteProjectKeeps DEF Step
<1>3. ASSUME NEW w \in Requests, Handle(w) PROVE IInv'
  <2>1. Ready(w) /\ Saved /\ Done
    BY <1>3 DEF Handle
  <2>2. CASE HandleBOQSave
    BY <2>1, <2>2, HandleBOQSaveKeeps
  <2>3. CASE HandleBOQDelete
    BY <2>1, <2>3, HandleBOQDeleteKeeps
  <2>4. CASE \/ HandleAddressSave \/ CommitAddressImport \/ HandleAddressUpdate
             \/ HandleAddressDelete \/ HandleProjectSettingsSave
    BY <2>1, <2>4, HandleOtherKeeps
  <2> QED
    BY <1>3, <2>2, <2>3, <2>4 DEF Handle
<1>4. CASE UNCHANGED vars
  BY <1>4, StutterKeeps
<1> QED
  BY <1>1, <1>2, <1>3, <1>4, HandleProjectSaveKeeps, HandleProjectDeleteKeeps, CrashKeeps,
     StopKeeps DEF Next

LEMMA Inductive == Spec => []IInv
BY InitHolds, StepKeeps, PTL DEF Spec

\* The rows, the links and the goroutines stay of their types; no request runs
\* while the process is starting, and no start while it serves.
THEOREM TypeCorrect == Spec => []TypeOK
<1>1. IInv => TypeOK
  BY DEF IInv, Typed
<1> QED
  BY <1>1, Inductive, PTL

\* What belongs to a project belongs to one that exists, whatever crashes and
\* failed saves the migrations and the deletions meet.
THEOREM OwnersStayLive == Spec => []OwnersLive
<1>1. IInv => OwnersLive
  BY DEF IInv, Typed, Owned, OwnersLive
<1> QED
  BY <1>1, Inductive, PTL

\* A start without a fault serves a migrated database, whatever it was started on.
THEOREM StartsMigrate == Spec => ServingIsMigrated
<1> DEFINE Migrated ==
      mode = "starting" /\ mode' = "serving" /\ clean =>
        /\ Orphans' = {}
        /\ live' \X SettingTypes \subseteq settings'
        /\ live' \X ConfigTypes \subseteq config'
<1>1. ASSUME IInv, [Next]_vars PROVE [Migrated]_vars
  <2> SUFFICES ASSUME mode = "starting", mode' = "serving", clean
               PROVE  /\ Orphans' = {}
                      /\ live' \X SettingTypes \subseteq settings'
                      /\ live' \X ConfigTypes \subseteq config'
    OBVIOUS
  <2>1. At(Main, "serve") /\ UNCHANGED db
    <3>1. mode' # mode
      OBVIOUS
    <3>2. CASE StartUp
      <4>1. Serve(Main)
        BY <3>1, <3>2 DEF StartUp, Start, SeedProject, SeedBOQ, SeedAddress, SeedSettings,
           SeedGoes, SeedEnds, QueryOrphans, AdoptProject, AdoptLink, AdoptEnds, QuerySettings,
           SaveSetting, SettingsEnd, QueryConfigs, Configure, MoveAddress, ConfigsEnd, Go
      <4> QED
        BY <4>1 DEF Serve
    <3>3. ASSUME NEW w \in Requests,
                 Step(w) \/ HandleProjectSave(w) \/ HandleProjectDelete(w) \/ Handle(w)
          PROVE  mode' = mode
      BY <3>3 DEF Step, QuerySettings, SaveSetting, SettingsEnd, LeaveBOQ, DeleteProject,
         HandleProjectSave, HandleProjectDelete, Handle, Done, Go
    <3>4. ~Crash /\ ~Stop
      BY DEF Crash, Stop
    <3>5. UNCHANGED vars => mode' = mode
      BY DEF vars
    <3> QED
      BY <1>1, <3>1, <3>2, <3>3, <3>4, <3>5 DEF Next
  <2>2. /\ Orphans = {} /\ live \X SettingTypes \subseteq settings
        /\ live \X ConfigTypes \subseteq config
    BY <1>1, <2>1 DEF IInv, MigratedSoFar, MainAt, At
  <2>3. Orphans' = Orphans /\ live' = live /\ settings' = settings /\ config' = config
    BY <2>1 DEF db, Orphans, BOQsOf
  <2> QED
    BY <2>2, <2>3
<1> QED
  BY <1>1, Inductive, PTL DEF Spec, ServingIsMigrated

\* However often the process dies and saves fail, a BOQ names no more projects
\* that are not its own than there were faults, one being deleted aside.
THEOREM DuplicatesAreFaults == Spec => []DuplicatesNeedFaults
<1>1. ASSUME IInv PROVE DuplicatesNeedFaults
  <2> SUFFICES ASSUME NEW b \in BOQs, link[b] # Gone
               PROVE  Cardinality({p \in live \ {job[Main].p} : named[p] = b /\ link[b] # p})
                        <= faults + Cardinality({w \in Requests : job[w].op = "leave"})
    BY DEF DuplicatesNeedFaults
  <2> DEFINE D == {p \in live \ {job[Main].p} : named[p] = b /\ link[b] # p}
             L == {w \in Requests : job[w].op = "leave"}
             S == Twice(b) \ InHand
  <2>1. IsFiniteSet(Twice(b)) /\ Cardinality(S) <= faults + (IF Leaving(b) THEN 1 ELSE 0)
    BY <1>1 DEF IInv, Accounted
  <2>2. D \in SUBSET S /\ S \in SUBSET Twice(b)
    BY DEF Twice, InHand
  <2>3. L \in SUBSET Requests /\ IsFiniteSet(Requests)
    BY StartupAssumption DEF StartupAssumption
  <2>4. Leaving(b) => L # {}
    BY DEF Leaving, At
  <2> HIDE DEF D, L, S
  <2>5. IsFiniteSet(S) /\ IsFiniteSet(L)
    BY <2>1, <2>2, <2>3, FS_Subset
  <2>6. Cardinality(D) \in Nat /\ Cardinality(D) <= Cardinality(S) /\ Cardinality(S) \in Nat
    BY <2>2, <2>5, FS_Subset, FS_CardinalityType
  <2>7. Cardinality(L) \in Nat /\ (L # {} => Cardinality(L) # 0)
    BY <2>5, FS_EmptySet, FS_CardinalityType
  <2>8. faults \in Nat
    BY <1>1, StartupAssumption DEF IInv, Typed, TypeOK, StartupAssumption
  <2>9. Cardinality(D) <= faults + Cardinality(L)
    <3>1. CASE Leaving(b)
      <4>1. Cardinality(S) <= faults + 1 /\ Cardinality(L) # 0
        BY <2>1, <2>4, <2>7, <3>1
      <4> QED
        BY <2>6, <2>7, <2>8, <4>1
    <3>2. CASE ~Leaving(b)
      <4>1. Cardinality(S) <= faults + 0
        BY <2>1, <3>2
      <4> QED
        BY <2>6, <2>7, <2>8, <4>1
    <3> QED
      BY <3>1, <3>2
  <2> QED
    BY <2>9 DEF D, L
<1> QED
  BY <1>1, Inductive, PTL
=============================================================================
