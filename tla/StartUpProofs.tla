--------------------------- MODULE StartUpProofs ---------------------------
(***************************************************************************)
(* What StartUp.tla guarantees for any number of containers, workers and   *)
(* shells, any environments and secrets, and however many failures.        *)
(*                                                                         *)
(* A server that comes to the seed script has the newest schema behind it  *)
(* (Migrated); the one commit of the script makes the demo rows appear     *)
(* together (AllOrNothing), so that the row it looks for vouches for all   *)
(* (SeededFirst); and a script that has inserted them is the only one and  *)
(* the first (Alone), so that it overwrites nothing.  A process that       *)
(* serves has settings that were judged (ServesJudged), by validators that *)
(* see the merged environment.                                             *)
(***************************************************************************)
EXTENDS StartUp, TLAPS

Places == {"off", "migrate", "upgraded", "seed", "insert", "inserted",
           "import", "serving", "failed"}
Typed == pc \in [Processes -> Places] /\ site \in Sites
AllOrNothing == db \in {{}, DemoRows}
OwnCancelled == cancelled \subseteq Appointments \cap db

Migrated ==
    AtHome => \A p \in site.servers :
        pc[p] \in {"seed", "insert", "inserted", "import", "serving"}
            => revision = Newest

SeededFirst ==
    AtHome => \A p \in site.servers :
        pc[p] \in {"import", "serving"} => DemoRows \subseteq db

Alone ==
    \A p \in Processes :
        pc[p] = "inserted"
            => /\ db = {}
               /\ \A q \in Processes \ {p} :
                     pc[q] \notin {"upgraded", "inserted"}

StartInv == /\ Typed /\ AllOrNothing /\ OwnCancelled
            /\ Migrated /\ SeededFirst /\ Alone

-----------------------------------------------------------------------------
LEMMA RowsOfDemo == "sunrise" \in DemoRows /\ Appointments \subseteq DemoRows
  BY DEF DemoRows, Dealerships

LEMMA SitesAreSound ==
  ASSUME site \in Sites
  PROVE  /\ site.servers \subseteq Processes
         /\ \A p \in site.shells : p \notin site.servers
  BY StartUpAssumption

LEMMA InitStart == Init => StartInv
  <1> SUFFICES ASSUME Init PROVE StartInv
    OBVIOUS
  <1>1. /\ pc = [p \in Processes |->
                    IF p \in site.servers THEN First ELSE "off"]
        /\ site \in Sites /\ db \in {{}, DemoRows} /\ cancelled = {}
    BY DEF Init
  <1>2. First \in {"migrate", "import"} /\ (AtHome => First = "migrate")
    BY DEF First
  <1>3. site.servers \subseteq Processes
    BY <1>1, SitesAreSound
  <1>4. Typed
    BY <1>1, <1>2 DEF Typed, Places
  <1>5. Migrated /\ SeededFirst /\ Alone
    BY <1>1, <1>2, <1>3 DEF Migrated, SeededFirst, Alone
  <1> QED
    BY <1>1, <1>4, <1>5 DEF StartInv, AllOrNothing, OwnCancelled

-----------------------------------------------------------------------------
(* Steps that leave the demo rows alone move one process; the conditions   *)
(* say where it may go.                                                    *)
LEMMA Moves ==
  ASSUME StartInv, NEW p \in Processes, NEW place \in Places,
         pc' = [pc EXCEPT ![p] = place], UNCHANGED <<site, db, cancelled>>,
         revision' \in {revision, Newest},
         place \in {"upgraded", "inserted"} => ~Open(p),
         place = "inserted" => db = {},
         AtHome /\ p \in site.servers
             => /\ place \in {"seed", "insert", "inserted", "import",
                              "serving"} => revision' = Newest
                /\ place \in {"import", "serving"} => DemoRows \subseteq db
  PROVE  StartInv'
  <1>1. /\ pc' = [pc EXCEPT ![p] = place] /\ Typed
        /\ site.servers \subseteq Processes
    BY SitesAreSound DEF StartInv, Typed
  <1>2. Typed' /\ AllOrNothing' /\ OwnCancelled'
    BY <1>1 DEF StartInv, Typed, AllOrNothing, OwnCancelled
  <1>3. Migrated' /\ SeededFirst'
    <2>1. AtHome' = AtHome
      BY DEF AtHome
    <2> QED
      BY <1>1, <2>1 DEF StartInv, Typed, Migrated, SeededFirst
  <1>4. Alone'
    BY <1>1 DEF StartInv, Typed, Alone, Open
  <1> QED
    BY <1>2, <1>3, <1>4 DEF StartInv

(* The commit of the seed script, or a crash during it.                    *)
LEMMA Commits ==
  ASSUME StartInv, NEW p \in Processes, NEW place \in Places,
         pc' = [pc EXCEPT ![p] = place], UNCHANGED site, revision' = revision,
         pc[p] = "inserted", Seeded,
         place \in {"import", "off", "failed"}
  PROVE  StartInv' /\ cancelled = {}
  <1>1. /\ pc' = [pc EXCEPT ![p] = place] /\ Typed
        /\ site.servers \subseteq Processes
    BY SitesAreSound DEF StartInv, Typed
  <1>2. /\ db = {} /\ cancelled = {}
        /\ \A q \in Processes \ {p} : pc[q] # "inserted"
    BY DEF StartInv, Alone, OwnCancelled
  <1>3. db' = DemoRows /\ cancelled' = {}
    BY <1>2 DEF Seeded
  <1>4. Typed' /\ AllOrNothing' /\ OwnCancelled' /\ Alone'
    BY <1>1, <1>2, <1>3 DEF StartInv, Typed, AllOrNothing, OwnCancelled, Alone
  <1>5. Migrated' /\ SeededFirst'
    <2>1. AtHome' = AtHome
      BY DEF AtHome
    <2> QED
      BY <1>1, <1>3, <2>1 DEF StartInv, Typed, Migrated, SeededFirst
  <1> QED
    BY <1>2, <1>4, <1>5 DEF StartInv

-----------------------------------------------------------------------------
LEMMA StepKeeps ==
  ASSUME StartInv, NEW p \in Processes, Step(p) \/ Fail(p) \/ RunSeed(p)
  PROVE  StartInv' /\ db \subseteq db' /\ cancelled \subseteq cancelled'
  <1> USE DEF database, configuration, Goto, Places
  <1>0. AtHome /\ p \in site.servers
            /\ pc[p] \in {"seed", "insert", "inserted", "import", "serving"}
            => revision = Newest
    BY DEF StartInv, Migrated
  <1>1. CASE Migrate(p)
    <2>1. CASE revision = Newest /\ Goto(p, "seed")
      BY <1>1, <2>1, Moves DEF Migrate
    <2>2. CASE ~Open(p) /\ Goto(p, "failed")
      BY <1>1, <2>2, Moves DEF Migrate
    <2>3. CASE ~Open(p) /\ Goto(p, "upgraded")
      BY <1>1, <2>3, Moves DEF Migrate
    <2> QED
      BY <1>1, <2>1, <2>2, <2>3 DEF Migrate
  <1>2. CASE CommitMigration(p)
    BY <1>2, Moves DEF CommitMigration
  <1>3. CASE Seed(p)
    <2>1. CASE Goto(p, "failed") \/ Goto(p, "insert")
      BY <1>3, <1>0, <2>1, Moves DEF Seed
    <2>2. CASE "sunrise" \in db /\ Goto(p, AfterSeed(p))
      <3>1. DemoRows \subseteq db
        BY <2>2 DEF StartInv, AllOrNothing
      <3> QED
        BY <1>3, <1>0, <2>2, <3>1, Moves DEF Seed, AfterSeed
    <2> QED
      BY <1>3, <2>1, <2>2 DEF Seed
  <1>4. CASE Insert(p)
    <2>1. CASE Goto(p, "failed")
      BY <1>4, <2>1, Moves DEF Insert
    <2>2. CASE db \cap DemoRows = {} /\ Goto(p, "inserted")
      <3>1. db = {}
        BY <2>2, RowsOfDemo DEF StartInv, AllOrNothing
      <3> QED
        BY <1>4, <1>0, <2>2, <3>1, Moves DEF Insert
    <2> QED
      BY <1>4, <2>1, <2>2 DEF Insert
  <1>5. CASE CommitSeed(p)
    <2>1. AfterSeed(p) \in {"import", "off"}
      BY DEF AfterSeed
    <2>2. StartInv' /\ cancelled = {}
      BY <1>5, <2>1, Commits DEF CommitSeed
    <2> QED
      BY <1>5, <2>2 DEF CommitSeed, Seeded
  <1>6. CASE Import(p)
    <2>1. AtHome /\ p \in site.servers => DemoRows \subseteq db
      BY <1>6 DEF Import, StartInv, SeededFirst
    <2>2. Goto(p, "serving") \/ Goto(p, "failed")
      BY <1>6 DEF Import
    <2> QED
      BY <1>6, <1>0, <2>1, <2>2, Moves DEF Import
  <1>7. CASE Fail(p)
    <2>1. CASE UNCHANGED <<db, cancelled>>
      BY <1>7, <2>1, Moves DEF Fail
    <2>2. CASE pc[p] = "inserted" /\ Seeded
      <3>1. StartInv' /\ cancelled = {}
        BY <1>7, <2>2, Commits DEF Fail
      <3> QED
        BY <2>2, <3>1 DEF Seeded
    <2> QED
      BY <1>7, <2>1, <2>2 DEF Fail
  <1>8. CASE Restart(p)
    <2>1. First \in {"migrate", "import"} /\ (AtHome => First = "migrate")
      BY DEF First
    <2> QED
      BY <1>8, <2>1, Moves DEF Restart
  <1>9. CASE RunSeed(p)
    <2>1. p \notin site.servers
      BY <1>9, SitesAreSound DEF RunSeed, StartInv, Typed
    <2> QED
      BY <1>9, <2>1, Moves DEF RunSeed
  <1> QED
    BY <1>1, <1>2, <1>3, <1>4, <1>5, <1>6, <1>7, <1>8, <1>9 DEF Step

LEMMA NextKeeps ==
  StartInv /\ [Next]_vars
      => StartInv' /\ db \subseteq db' /\ cancelled \subseteq cancelled'
  <1> SUFFICES ASSUME StartInv, [Next]_vars
               PROVE  /\ StartInv'
                      /\ db \subseteq db' /\ cancelled \subseteq cancelled'
    OBVIOUS
  <1> USE DEF database, configuration, Goto, Places
  <1>1. ASSUME NEW p \in Processes, Step(p) \/ Fail(p) \/ RunSeed(p)
        PROVE  StartInv' /\ db \subseteq db' /\ cancelled \subseteq cancelled'
    BY <1>1, StepKeeps
  <1>2. ASSUME NEW a \in Appointments, CancelDemo(a)
        PROVE  StartInv' /\ db \subseteq db' /\ cancelled \subseteq cancelled'
    BY <1>2 DEF CancelDemo, AtHome, StartInv, Typed, AllOrNothing,
                OwnCancelled, Migrated, SeededFirst, Alone
  <1>3. CASE Rotate \/ UNCHANGED vars
    BY <1>3 DEF Rotate, vars, AtHome, StartInv, Typed, AllOrNothing,
                OwnCancelled, Migrated, SeededFirst, Alone
  <1> QED
    BY <1>1, <1>2, <1>3 DEF Next

-----------------------------------------------------------------------------
(* A local server that serves has the newest schema and all the demo data, *)
(* whatever was cut short and whoever else ran the script.                 *)
THEOREM ServesSeededAlways == Spec => []ServesSeeded
  <1>1. StartInv => ServesSeeded
    BY DEF StartInv, Migrated, SeededFirst, ServesSeeded
  <1> QED
    BY <1>1, InitStart, NextKeeps, PTL DEF Spec

(* The seed script is idempotent: no step takes a row away or undoes a     *)
(* cancellation.                                                           *)
THEOREM ChangesSurviveAlways == Spec => ChangesSurvive
  <1>1. StartInv /\ [Next]_vars
            => [db \subseteq db' /\ cancelled \subseteq cancelled']_vars
    BY NextKeeps
  <1> QED
    BY <1>1, InitStart, NextKeeps, PTL DEF Spec, ChangesSurvive

-----------------------------------------------------------------------------
LEMMA InitType == Init => TypeOK
  <1> SUFFICES ASSUME Init PROVE TypeOK
    OBVIOUS
  <1>1. Newest = 3
    BY DEF Newest, Revisions
  <1>2. First \in {"migrate", "import"}
    BY DEF First
  <1>3. revision \in 0 .. Newest /\ failures \in 0 .. MaxFailures
          /\ rotations \in 0 .. MaxRotations
    BY <1>1, StartUpAssumption DEF Init
  <1>4. techTwice \in BOOLEAN
    BY DEF Init
  <1>5. db \subseteq DemoRows /\ cancelled \subseteq Appointments \cap db
    BY DEF Init
  <1>6. /\ loaded \in [Processes -> Loadable \cup {Null}]
        /\ pc \in [Processes -> {"off", "migrate", "import"}]
    BY <1>2 DEF Init
  <1>7. \A p \in Processes : pc[p] # "serving"
    BY <1>6
  <1> QED
    BY <1>3, <1>4, <1>5, <1>6, <1>7 DEF Init, TypeOK

LEMMA StepType ==
  ASSUME TypeOK, NEW p \in Processes, Step(p) \/ Fail(p) \/ RunSeed(p)
  PROVE  TypeOK'
  <1> USE DEF TypeOK, database, configuration, Goto
  <1>1. Newest \in 0 .. Newest
    BY DEF Newest, Revisions
  <1>2. Loadable' = Loadable
    BY DEF Loadable, Step, Migrate, CommitMigration, Seed, Insert, CommitSeed,
           Import, Restart, Fail, RunSeed
  <1>3. CASE Migrate(p) \/ CommitMigration(p)
    BY <1>1, <1>2, <1>3 DEF Migrate, CommitMigration
  <1>4. CASE Seed(p) \/ RunSeed(p)
    BY <1>2, <1>4 DEF Seed, AfterSeed, RunSeed
  <1>5. CASE Insert(p)
    BY <1>2, <1>5 DEF Insert
  <1>6. CASE CommitSeed(p)
    <2>1. db' \subseteq DemoRows /\ cancelled' \subseteq Appointments \cap db'
      BY <1>6 DEF CommitSeed, Seeded
    <2>2. AfterSeed(p) \in {"import", "off"}
      BY DEF AfterSeed
    <2> QED
      BY <1>2, <1>6, <2>1, <2>2 DEF CommitSeed
  <1>7. CASE Import(p)
    <2>1. Fields(Environ(site.environ, secret)) \in Loadable
      BY DEF Loadable
    <2> QED
      BY <1>2, <1>7, <2>1 DEF Import
  <1>8. CASE Fail(p)
    <2>1. db' \subseteq DemoRows /\ cancelled' \subseteq Appointments \cap db'
      BY <1>8 DEF Fail, Seeded
    <2>2. failures' \in 0 .. MaxFailures
      BY <1>8, StartUpAssumption DEF Fail
    <2> QED
      BY <1>1, <1>2, <1>8, <2>1, <2>2 DEF Fail
  <1>9. CASE Restart(p)
    BY <1>2, <1>9 DEF Restart, First
  <1> QED
    BY <1>3, <1>4, <1>5, <1>6, <1>7, <1>8, <1>9 DEF Step

LEMMA NextType == TypeOK /\ [Next]_vars => TypeOK'
  <1> SUFFICES ASSUME TypeOK, [Next]_vars PROVE TypeOK'
    OBVIOUS
  <1>1. ASSUME NEW p \in Processes, Step(p) \/ Fail(p) \/ RunSeed(p)
        PROVE  TypeOK'
    BY <1>1, StepType
  <1>2. ASSUME NEW a \in Appointments, CancelDemo(a) PROVE TypeOK'
    BY <1>2 DEF CancelDemo, TypeOK, Loadable, configuration
  <1>3. CASE Rotate \/ UNCHANGED vars
    BY <1>3, StartUpAssumption DEF Rotate, vars, TypeOK, Loadable, database
  <1> QED
    BY <1>1, <1>2, <1>3 DEF Next

(* Every variable of a start keeps its type; what a process serves with is *)
(* what its environment and some secret came to.                           *)
THEOREM StartTypeCorrect == Spec => []TypeOK
  BY InitType, NextType, PTL DEF Spec

-----------------------------------------------------------------------------
(* The settings that the validators let pass.                              *)
Judged ==
    {Fields(Environ(site.environ, s)) :
        s \in {t \in Secrets : Valid(Environ(site.environ, t))}}

ServesJudged ==
    \A p \in Processes : pc[p] = "serving" => loaded[p] \in Judged

LEMMA InitJudged == Init => ServesJudged
  BY DEF Init, First, ServesJudged

LEMMA NextJudged == TypeOK /\ ServesJudged /\ [Next]_vars => ServesJudged'
  <1> SUFFICES ASSUME TypeOK, ServesJudged, [Next]_vars PROVE ServesJudged'
    OBVIOUS
  <1> USE DEF TypeOK, ServesJudged, database, configuration, Goto
  <1>1. Judged' = Judged
    BY DEF Judged, Next, Step, Migrate, CommitMigration, Seed, Insert,
           CommitSeed, Import, Restart, Fail, RunSeed, CancelDemo, Rotate, vars
  <1>2. ASSUME NEW p \in Processes, Import(p) PROVE ServesJudged'
    <2>1. Valid(Environ(site.environ, secret))
            => Fields(Environ(site.environ, secret)) \in Judged
      BY DEF Judged
    <2> QED
      BY <1>1, <1>2, <2>1 DEF Import
  <1>3. ASSUME NEW p \in Processes,
               Migrate(p) \/ CommitMigration(p) \/ Seed(p) \/ RunSeed(p)
        PROVE  ServesJudged'
    BY <1>1, <1>3 DEF Migrate, CommitMigration, Seed, AfterSeed, RunSeed
  <1>4. ASSUME NEW p \in Processes,
               Insert(p) \/ CommitSeed(p) \/ Fail(p) \/ Restart(p)
        PROVE  ServesJudged'
    BY <1>1, <1>4 DEF Insert, CommitSeed, AfterSeed, Fail, Restart, First
  <1>5. ASSUME NEW a \in Appointments, CancelDemo(a) PROVE ServesJudged'
    BY <1>1, <1>5 DEF CancelDemo
  <1>6. CASE Rotate \/ UNCHANGED vars
    BY <1>1, <1>6 DEF Rotate, vars
  <1> QED
    BY <1>2, <1>3, <1>4, <1>5, <1>6 DEF Next, Step

LEMMA JudgedAlways == Spec => [](TypeOK /\ ServesJudged)
  BY InitType, NextType, InitJudged, NextJudged, PTL DEF Spec

(* Deployed, the environment keeps its name when the secret is merged in,  *)
(* and nothing says that this is a test.                                   *)
LEMMA MergedAsksAWS ==
  ASSUME site \in Sites, ~AtHome, NEW s \in Secrets
  PROVE  AsksAWS(Environ(site.environ, s))
  <1>1. "ENVIRONMENT" \in DOMAIN site.environ
          /\ site.environ["ENVIRONMENT"] # "local"
    BY DEF AtHome, Local, Get
  <1>2. "TESTING" \notin DOMAIN site.environ /\ "TESTING" \notin DOMAIN s
    BY StartUpAssumption
  <1>3. AsksAWS(site.environ)
    BY <1>1, <1>2 DEF AsksAWS, Local, Testing, Get
  <1>4. Environ(site.environ, s) = SetDefaults(site.environ, s)
    BY <1>3 DEF Environ
  <1> QED
    BY <1>1, <1>2, <1>4 DEF AsksAWS, Local, Testing, Get, SetDefaults

LEMMA JudgedCanSign ==
  ASSUME site \in Sites, ~AtHome, NEW f \in Judged
  PROVE  /\ SigningKey(f) # Null
         /\ f.algorithm = "RS256" \/ SigningKey(f) \in Strong
  <1>1. PICK s \in Secrets : /\ Valid(Environ(site.environ, s))
                             /\ f = Fields(Environ(site.environ, s))
    BY DEF Judged
  <1>2. AsksAWS(Environ(site.environ, s))
    BY MergedAsksAWS
  <1>3. /\ f.secretKey # Null /\ f.secretKey \in Strong
        /\ f.algorithm = "RS256" => f.privateKey # Null
    BY <1>1, <1>2 DEF Valid, AsksAWS
  <1> QED
    BY <1>3 DEF SigningKey

(* A deployed process that serves has a key to sign with, wherever its     *)
(* settings came from.                                                     *)
THEOREM ServingCanSignAlways == Spec => []ServingCanSign
  <1>1. TypeOK /\ ServesJudged => ServingCanSign
    <2> SUFFICES ASSUME TypeOK, ServesJudged, ~AtHome,
                        NEW p \in site.servers, pc[p] = "serving"
                 PROVE  /\ SigningKey(loaded[p]) # Null
                        /\ \/ loaded[p].algorithm = "RS256"
                           \/ SigningKey(loaded[p]) \in Strong
      BY DEF ServingCanSign
    <2>1. loaded[p] \in Judged
      BY SitesAreSound DEF TypeOK, ServesJudged
    <2> QED
      BY <2>1, JudgedCanSign DEF TypeOK
  <1> QED
    BY <1>1, JudgedAlways, PTL

(* Two processes that have both loaded the present secret accept and       *)
(* publish the keys of each other's tokens.                                *)
THEOREM RefusedMeansOutdatedAlways == Spec => []RefusedMeansOutdated
  <1>1. TypeOK /\ ServesJudged => RefusedMeansOutdated
    <2> SUFFICES ASSUME TypeOK, ServesJudged, ~AtHome,
                        NEW p \in site.servers, NEW q \in site.servers,
                        pc[p] = "serving", ~Outdated(p), ~Outdated(q),
                        Paired(loaded[p])
                 PROVE  /\ Accepts(loaded[q], Token(loaded[p]))
                        /\ Token(loaded[p]).algorithm = "RS256"
                              => Token(loaded[p]).key \in Jwks(loaded[q])
      BY DEF RefusedMeansOutdated
    <2>1. loaded[q] = loaded[p]
      BY DEF Outdated
    <2>2. loaded[p] \in Judged
      BY SitesAreSound DEF TypeOK, ServesJudged
    <2>3. SigningKey(loaded[p]) # Null
      BY <2>2, JudgedCanSign DEF TypeOK
    <2>4. VerificationKey(loaded[p]) = SigningKey(loaded[p])
      BY DEF Paired, VerificationKey, SigningKey
    <2> QED
      BY <2>1, <2>3, <2>4 DEF Accepts, Token, Jwks
  <1> QED
    BY <1>1, JudgedAlways, PTL

-----------------------------------------------------------------------------
(* The demo appointments are legal, each by itself: the rows do not change *)
(* and no two of them share a bay or a technician.                         *)
LEMMA EachDemoLegal ==
    ASSUME NEW a \in Appointments
    PROVE  /\ Rules!Refusal(Demo[a]) = "none"
           /\ Demo[a].end = Rules!EndOf(Demo[a])
           /\ Rules!UsableBay(Demo[a].bay, Demo[a])
           /\ Rules!Qualified(Demo[a].tech, Demo[a])
  <1> USE DEF Demo, Visit, Owner, Customers, Vehicles, Dealerships, Services,
              OfferedAt, Bays, Techs, HomeOf, Duration, Required, Skills
  <1>1. /\ ~Rules!UnknownVehicle(Demo[a])
        /\ Owner[Demo[a].vehicle] = Demo[a].customer
    BY DEF Appointments, Rules!UnknownVehicle
  <1>2. ~Rules!UnknownService(Demo[a])
    BY DEF Appointments, Rules!UnknownService
  <1>3. Demo[a].end = Rules!EndOf(Demo[a])
    BY DEF Appointments, Rules!EndOf
  <1>4. Rules!UsableBay(Demo[a].bay, Demo[a])
    BY DEF Appointments, Rules!UsableBay
  <1>5. Rules!Qualified(Demo[a].tech, Demo[a])
    BY DEF Appointments, Rules!Qualified
  <1>6. Rules!WithinHours(Demo[a].start, Demo[a].end,
                          Hours[Demo[a].dealership])
    BY DEF Appointments, Hours, Rules!WithinHours, Rules!TimeOfDay,
           Rules!LocalEnd, Rules!Day
  <1> QED
    BY <1>1, <1>2, <1>3, <1>4, <1>5, <1>6 DEF Rules!Refusal

(* What the script writes past every booking rule a booking could have     *)
(* made (seed.py against create_appointment).                              *)
THEOREM DemoIsLegalAlways == Spec => []DemoIsLegal
  <1>1. \A a, b \in Appointments : a # b =>
            Demo[a].bay # Demo[b].bay /\ Demo[a].tech # Demo[b].tech
    BY DEF Appointments, Demo, Visit
  <1>2. DemoIsLegal
    BY <1>1, EachDemoLegal DEF DemoIsLegal
  <1> QED
    BY <1>2, PTL
=============================================================================
