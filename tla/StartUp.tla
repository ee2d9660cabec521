------------------------------ MODULE StartUp ------------------------------
(***************************************************************************)
(* How the API gets from a start command to serving.                       *)
(*                                                                         *)
(* Locally docker-compose runs scripts/entrypoint.sh, which migrates the   *)
(* database, seeds it and starts the server, and starts it again whenever  *)
(* it fails; a developer may run the seed script by hand at any time.      *)
(* Deployed, the image's CMD starts worker processes, each of which        *)
(* imports app.core.config, and so loads the secret, for itself.           *)
(*                                                                         *)
(* A step ends where a transaction begins to be or ceases to be visible    *)
(* to others.  A dead process is started again: by restart: on-failure     *)
(* locally; by the supervisor or by ECS, which this repository does not    *)
(* contain, deployed.                                                      *)
(***************************************************************************)
EXTENDS Settings, DemoData, Sequences

CONSTANTS
    Processes,     \* containers or workers, and shells
    Sites,         \* [environ, servers, shells]: where the API is started
    Secrets,       \* what an operator may store in AWS Secrets Manager
    MaxFailures,   \* calls that raise and processes that die
    MaxRotations   \* times the stored secret is changed

(* docker-compose.yml is complete: alembic and the seed script, which      *)
(* import the settings too, do not fail for want of one.  TESTING is set   *)
(* by test fixtures only.                                                  *)
ASSUME StartUpAssumption ==
    /\ \A s \in Sites : /\ s.servers \cup s.shells \subseteq Processes
                        /\ s.servers \cap s.shells = {}
                        /\ Local(s.environ) => Valid(s.environ)
                        /\ "TESTING" \notin DOMAIN s.environ
    /\ \A s \in Secrets : "TESTING" \notin DOMAIN s
    /\ MaxFailures \in Nat /\ MaxRotations \in Nat

VARIABLES
    site,        \* where this is
    secret,      \* uscheduler/{ENVIRONMENT}/app
    revision,    \* alembic_version: how many revisions the database has
    techTwice,   \* it has old rows that book a technician twice
    db,          \* the demo rows that are committed
    cancelled,   \* those of them that a customer has cancelled
    pc,          \* what each process is doing
    loaded,      \* its settings, once imported
    failures, rotations

database == <<revision, techTwice, db, cancelled>>
configuration == <<site, secret, rotations>>
vars == <<site, secret, revision, techTwice, db, cancelled, pc, loaded,
          failures, rotations>>

AtHome == Local(site.environ)

-----------------------------------------------------------------------------
(* What the revisions add, as far as a start depends on it: the tables,    *)
(* the columns the seed fills, and the constraints.                        *)
Revision1 == {"customers", "vehicles", "dealerships", "service_types",
              "service_bays", "technicians", "appointments",
              "no_double_bay_booking"}
Revision2 == {"customers.role", "customers.dealership_id",
              "service_types.dealership_id", "no_double_tech_booking"}
Revision3 == {"ck_appointments_status"}

Revisions == <<Revision1, Revision2, Revision3>>
Newest == Len(Revisions)
Has(thing) == \E i \in 1 .. revision : thing \in Revisions[i]

(* The settings that an import may come to.                                *)
Loadable == {Fields(Environ(site.environ, s)) : s \in Secrets}

TypeOK ==
    /\ site \in Sites /\ secret \in Secrets
    /\ revision \in 0 .. Newest /\ techTwice \in BOOLEAN
    /\ db \subseteq DemoRows /\ cancelled \subseteq Appointments \cap db
    /\ pc \in [Processes -> {"off", "migrate", "upgraded", "seed", "insert",
                             "inserted", "import", "serving", "failed"}]
    /\ loaded \in [Processes -> Loadable \cup {Null}]
    /\ \A p \in Processes : pc[p] = "serving" => loaded[p] \in Loadable
    /\ failures \in 0 .. MaxFailures /\ rotations \in 0 .. MaxRotations

First == IF AtHome THEN "migrate" ELSE "import"

(* An empty volume, or one that an older checkout has left behind, whose   *)
(* technicians nothing but the locks kept apart before revision 2; a       *)
(* deployed database is somebody else's work and complete.                 *)
Init ==
    /\ site \in Sites
    /\ secret \in Secrets
    /\ revision \in IF AtHome THEN 0 .. Newest ELSE {Newest}
    /\ techTwice \in {FALSE, AtHome /\ revision = 1}
    /\ db \in {{}, IF AtHome /\ revision > 0 THEN DemoRows ELSE {}}
    /\ cancelled = {}
    /\ pc = [p \in Processes |-> IF p \in site.servers THEN First ELSE "off"]
    /\ loaded = [p \in Processes |-> Null]
    /\ failures = 0 /\ rotations = 0

-----------------------------------------------------------------------------
Goto(p, place) == pc' = [pc EXCEPT ![p] = place]

(* Where a process goes after the seed script: set -e, then exec uvicorn.  *)
AfterSeed(p) == IF p \in site.servers THEN "import" ELSE "off"

(* The transactions that others would have to wait for.                    *)
Open(p) == \E q \in Processes \ {p} : pc[q] \in {"upgraded", "inserted"}

(* alembic upgrade head: the revisions that are missing, in one            *)
(* transaction; the new exclusion constraint is refused by old rows that   *)
(* violate it.                                                             *)
Migrate(p) ==
    /\ pc[p] = "migrate"
    /\ \/ revision = Newest /\ Goto(p, "seed")
       \/ /\ revision < Newest /\ ~Open(p)
          /\ Goto(p, IF techTwice /\ ~Has("no_double_tech_booking")
                     THEN "failed" ELSE "upgraded")
    /\ UNCHANGED <<configuration, database, loaded, failures>>

CommitMigration(p) ==
    /\ pc[p] = "upgraded"
    /\ revision' = Newest
    /\ Goto(p, "seed")
    /\ UNCHANGED <<configuration, techTwice, db, cancelled, loaded, failures>>

(* Mutant: the script does not look first.                                 *)
SeedAlways(p) ==
    /\ pc[p] = "seed"
    /\ Goto(p, "insert")
    /\ UNCHANGED <<configuration, database, loaded, failures>>

(* seed(): the dealership's row stands for all of them.                    *)
Seed(p) ==
    /\ pc[p] = "seed"
    /\ Goto(p, IF ~Has("dealerships") THEN "failed"
               ELSE IF "sunrise" \in db THEN AfterSeed(p) ELSE "insert")
    /\ UNCHANGED <<configuration, database, loaded, failures>>

(* Mutants: the dealership is committed first; rows that are there are     *)
(* replaced.                                                               *)
InsertInTwo(p) ==
    /\ pc[p] = "insert" /\ ~Open(p)
    /\ IF Has("service_types.dealership_id") /\ db \cap DemoRows = {}
       THEN Goto(p, "inserted") /\ db' = db \cup Dealerships
       ELSE Goto(p, "failed") /\ UNCHANGED db
    /\ UNCHANGED <<configuration, revision, techTwice, cancelled, loaded,
                   failures>>

InsertOrReplace(p) ==
    /\ pc[p] = "insert" /\ ~Open(p)
    /\ Goto(p, IF Has("service_types.dealership_id") THEN "inserted"
               ELSE "failed")
    /\ UNCHANGED <<configuration, database, loaded, failures>>

(* The flush: every INSERT names every column of the models, waits for     *)
(* open transactions, and is refused a primary key that is taken.          *)
Insert(p) ==
    /\ pc[p] = "insert" /\ ~Open(p)
    /\ Goto(p, IF Has("service_types.dealership_id") /\ db \cap DemoRows = {}
               THEN "inserted" ELSE "failed")
    /\ UNCHANGED <<configuration, database, loaded, failures>>

Seeded == db' = db \cup DemoRows /\ cancelled' = cancelled \ Appointments

CommitSeed(p) ==
    /\ pc[p] = "inserted"
    /\ Seeded
    /\ Goto(p, AfterSeed(p))
    /\ UNCHANGED <<configuration, revision, techTwice, loaded, failures>>

(* Mutant: the module keeps the settings it had.                           *)
ImportNothing(p) ==
    /\ pc[p] = "import"
    /\ Goto(p, IF Valid(Environ(site.environ, secret))
               THEN "serving" ELSE "failed")
    /\ UNCHANGED <<configuration, database, loaded, failures>>

(* import app.core.config: the secret, the validators, settings.           *)
Import(p) ==
    /\ pc[p] = "import"
    /\ LET environ == Environ(site.environ, secret)
       IN  IF Valid(environ)
           THEN Goto(p, "serving")
                /\ loaded' = [loaded EXCEPT ![p] = Fields(environ)]
           ELSE Goto(p, "failed") /\ UNCHANGED loaded
    /\ UNCHANGED <<configuration, database, failures>>

(* A database or AWS call raises, or the process dies.  A COMMIT under way *)
(* may still take effect.                                                  *)
Fail(p) ==
    /\ pc[p] \notin {"off", "failed"}
    /\ failures < MaxFailures
    /\ failures' = failures + 1
    /\ Goto(p, "failed")
    /\ \/ UNCHANGED revision
       \/ pc[p] = "upgraded" /\ revision' = Newest
    /\ \/ UNCHANGED <<db, cancelled>>
       \/ pc[p] = "inserted" /\ Seeded
    /\ UNCHANGED <<configuration, techTwice, loaded>>

Restart(p) ==
    /\ p \in site.servers
    /\ pc[p] = "failed"
    /\ Goto(p, First)
    /\ loaded' = [loaded EXCEPT ![p] = Null]
    /\ UNCHANGED <<configuration, database, failures>>

-----------------------------------------------------------------------------
(* python -m scripts.seed in a shell.                                      *)
RunSeed(p) ==
    /\ p \in site.shells
    /\ pc[p] \in {"off", "failed"}
    /\ Goto(p, "seed")
    /\ UNCHANGED <<configuration, database, loaded, failures>>

(* PATCH /appointments/{id}/cancel of a demo appointment (Booking.tla).    *)
CancelDemo(a) ==
    /\ AtHome /\ \E p \in Processes : pc[p] = "serving"
    /\ a \in db \ cancelled
    /\ cancelled' = cancelled \cup {a}
    /\ UNCHANGED <<configuration, revision, techTwice, db, pc, loaded,
                   failures>>

(* An operator stores another secret.                                      *)
Rotate ==
    /\ ~AtHome
    /\ rotations < MaxRotations
    /\ rotations' = rotations + 1
    /\ secret' \in Secrets \ {secret}
    /\ UNCHANGED <<site, database, pc, loaded, failures>>

Step(p) == \/ Migrate(p) \/ CommitMigration(p) \/ Seed(p) \/ Insert(p)
           \/ CommitSeed(p) \/ Import(p) \/ Restart(p)

Next ==
    \/ \E p \in Processes : Step(p) \/ Fail(p) \/ RunSeed(p)
    \/ \E a \in Appointments : CancelDemo(a)
    \/ Rotate

Spec == Init /\ [][Next]_vars

(* A program runs on, PostgreSQL ends every wait, and whatever has failed  *)
(* is started again.  Nobody has to run a script or change a secret.       *)
FairSpec == Spec /\ \A p \in Processes : WF_vars(Step(p))

-----------------------------------------------------------------------------
(* A local server that serves has the newest schema and all of the demo    *)
(* data, however often starting it was cut short and whoever else seeded.  *)
ServesSeeded ==
    AtHome /\ (\E p \in site.servers : pc[p] = "serving")
        => revision = Newest /\ DemoRows \subseteq db

(* The demo appointments, which no booking rule has judged, are such as a  *)
(* booking would have made: known references, own vehicle, within hours,   *)
(* active and qualified resources, full length, no double booking.         *)
DemoIsLegal ==
    /\ \A a \in db \cap Appointments :
          LET visit == Demo[a]
          IN  /\ Rules!Refusal(visit) = "none"
              /\ visit.end = Rules!EndOf(visit)
              /\ Rules!UsableBay(visit.bay, visit)
              /\ Rules!Qualified(visit.tech, visit)
    /\ \A a, b \in db \cap Appointments :
          a # b /\ (Demo[a].bay = Demo[b].bay \/ Demo[a].tech = Demo[b].tech)
              => ~Rules!Overlaps(Demo[a].start, Demo[a].end,
                                 Demo[b].start, Demo[b].end)

(* "Idempotent": no restart and no second run of the script takes a demo   *)
(* row away or undoes what a customer did to it.                           *)
ChangesSurvive == [][db \subseteq db' /\ cancelled \subseteq cancelled']_vars

(* A deployed process that serves has a key to sign tokens with, and not a *)
(* short secret, whichever source each setting came from.  An ALGORITHM    *)
(* that the library does not know, the validators do not refuse: whether   *)
(* signing then works is not judged here.                                  *)
ServingCanSign ==
    \A p \in site.servers :
        ~AtHome /\ pc[p] = "serving"
            => LET key == SigningKey(loaded[p])
               IN  /\ key # Null
                   /\ loaded[p].algorithm = "RS256" \/ key \in Strong

(* A process refuses a token that another one has just issued, or          *)
(* publishes no key to verify it with, only while one of them still works  *)
(* with an older secret, or the two halves of the pair are not of one      *)
(* pair.                                                                   *)
Outdated(p) == loaded[p] # Fields(Environ(site.environ, secret))
Paired(s) == s.publicKey \in {Null, s.privateKey}

RefusedMeansOutdated ==
    \A p, q \in site.servers :
        /\ ~AtHome /\ pc[p] = "serving" /\ pc[q] = "serving"
        /\ ~Outdated(p) /\ ~Outdated(q) /\ Paired(loaded[p])
        => LET token == Token(loaded[p])
           IN  /\ Accepts(loaded[q], token)
               /\ token.algorithm = "RS256" => token.key \in Jwks(loaded[q])

(* Whoever is to serve does so for good in the end, however often a start  *)
(* was cut short, if the old rows fit the constraints and what is stored   *)
(* and set is valid.                                                       *)
Startable == ~techTwice /\ Valid(Environ(site.environ, secret))

EventuallyServes ==
    <>[]Startable => <>[](\A p \in site.servers : pc[p] = "serving")
=============================================================================
