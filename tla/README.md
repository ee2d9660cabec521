# uScheduler: specification and verification

uScheduler books service appointments at car dealerships. A booking takes one
bay and one qualified technician for the length of a service, and nobody may
get either of them twice. The API runs in several worker processes at once;
every request is one asyncio coroutine that talks to PostgreSQL, Redis and SQS
and can be overtaken by any other request wherever it awaits.

This directory holds TLA+ models of the parts where that is hard, TLC
configurations that check them on small instances, and theorems, checked by
TLAPS, that hold for every instance. `PROJECT.json` ties each definition to
the lines it models, each property to a mutation of the code that breaks it,
and each hazard of the code to the properties that would show it.

    tlc -workers 2 -config BookingRace.cfg MCBooking.tla     # one run
    tlapm BookingProofs.tla                                  # one proof module

## 1. The system

| Component | State it keeps | Operations | Talks to |
|---|---|---|---|
| Slot locks (`core/locks.py`) | Redis `lock:*` keys with a 30 s TTL; per request `LockClient._owned` | acquire (SET NX PX), release (compare-and-delete), release_all | Redis |
| Booking (`booking_service.create_appointment`) | the `appointments` table; per request its locals and transaction | validate, search, lock, recheck, INSERT, COMMIT, side effects | locks, repository, Redis, SQS |
| Cancellation (`cancel_appointment`) | `status`, `cancelled_at` of a row | read and judge, update and commit | repository |
| Idempotency keys | Redis `idem:{customer}:{key}`, 24 h | GET before the booking, SET after it | Redis |
| Confirmations (`core/notifications.py`) | the SQS queue | publish, failures swallowed | SQS |
| Availability (`check_availability`) | Redis `avail:*` entries, 60 s | cache read, catalogue reads, day query and slot loop, cache write | repository, Redis |
| Hours and time (`_within_hours`, `_slot_key`, overlap test) | none | pure | booking, availability |
| Reference data (`models.py`) | customers, vehicles, dealerships, services, bays, technicians | read only, but for registration | booking, availability |
| Exclusion constraints (migrations 0001, 0002) | in PostgreSQL | checked on INSERT, waiting for open transactions | booking |
| Sessions (`db/session.py`) | one READ COMMITTED transaction per request | rolled back when the request ends | booking, cancellation |
| Registration and login (`auth_service.py`) | `customers` | register, login | database |
| Tokens and roles (`core/security.py`) | none: the token is the state | decode, check the role | every protected route |
| Appointment queries (`get_appointment`) | none | read a row, judge it against the claims | repository |
| Deployment (`deploy.yml`, `Jenkinsfile`, `deploy/*.sh`) | ECR repositories, ECS task definitions and services | build and push, approve, register, update, wait | AWS, reviewers |
| `list_appointments` | none | count and page | repository |
| Migrations, seed, container entry point | schema, demo rows | upgrade head, seed, serve; restart | database |
| Configuration (`core/config.py`) | `os.environ` and `settings` of each process | load the secret, merge, judge | Secrets Manager, `security.py` |
| Reference routes, metrics, logging | none the program reads back | | not modelled |

What makes the components correct, and what makes that hard:

* **No double booking.** Three layers are meant to ensure it: locks keyed by a
  15-minute bucket, a recheck under the locks, and the exclusion constraints.
  The layers meet requests in any interleaving, locks that expire under their
  owners, INSERTs that wait for uncommitted rows, COMMITs whose reply is lost.
* **Each layer does its part.** Inside a bucket the first two suffice; a
  client never deletes a lock that is not its own; only a request that a
  failure ended leaves one behind, to its TTL.
* **What clients are told is true**, and no failure leaves half a booking.
* **Side effects follow the commit**; a retry gets the caller's own booking.
* **Only legal appointments**: vehicle, service, skills, active resources, hours.
* **Progress**: requests never wait for each other for ever, competitors do
  not all eliminate each other, and a cancelled slot can be booked again.
* **Availability** agrees with what a booking would get, and its answers are
  recent although nothing invalidates the cache.
* **A token names one account**, whoever registers at the same time, and the
  rights in it, which nothing re-reads, were its account's when the login read them.
* **Lists**: the pages of a walk that nothing disturbs are the list, a disturbed
  walk misses nothing.
* **Starting**: who serves has a complete database and settings it can sign
  with, however often a start was cut short and whoever ran the seed meanwhile.
* **Deployments**: every service is told a revision whose image exists, prod
  only one that was let through; runs of two pipelines overlap and fail.

## 2. Modules

    OperatingHours <- Catalogue <- Booking <- BookingProperties <- MCBooking
                          ^          | INSTANCE    | INSTANCE
                          |       SlotLock      Calendar
                          +---- Availability -------^ INSTANCE

    Calendar <-(INSTANCE)- Listing        Catalogue <-(INSTANCE)- DemoData

    BookingProperties <- BookingProofs <- BookingLockProofs -(INSTANCE)-> SlotLockProofs
    Availability <- MCAvailability, AvailabilityProofs
    Listing <- MCListing, ListingProofs
    Settings, DemoData <- StartUp <- MCStartUp, StartUpProofs
    Accounts <- MCAccounts, AccountsProofs
    Deployment <- MCDeployment, DeploymentProofs

| Module | What it is |
|---|---|
| `SlotLock` | `LockClient` against Redis: one action per command, its lost replies, expiry, crash |
| `OperatingHours` | buckets, overlap, hours test; `EntirelyWithin` is the definition the test is held against |
| `Catalogue` | the reference tables as constants; validation as `Refusal` |
| `Booking` | create and cancel, one action per await |
| `Calendar` | abstract specification: book atomically when nothing collides, cancel once |
| `BookingProperties` | the properties, the refinement mapping `Ledger`, fairness, refuted claims |
| `Availability` | the query, its cache, and a calendar that changes meanwhile |
| `Accounts` | register, login, the claims of a token and what they let their bearer read |
| `Listing` | a client that walks through its pages, a calendar that changes meanwhile |
| `Settings` | environment and secret, the validators, the keys that sign and verify |
| `DemoData` | the rows of `seed.py`, and `Catalogue` over them |
| `StartUp` | containers, workers and shells from the start command to serving |
| `Deployment` | the two pipelines and the script they share |
| `MC*` | constants for TLC |
| `*Proofs` | theorems (section 5); `AvailabilityProofs` also has those of `OperatingHours`, `BookingProofs` the refinement |

### State and steps of `Booking`

| Variable | In the code |
|---|---|
| `pc[r]` | where the coroutine of request `r` awaits |
| `ask[r]` | customer, `Idempotency-Key` and body of `r`: the client's intention, so chosen at the start |
| `bay[r]`, `tech[r]` | the local variables, and the row's columns |
| `status[r]` | the row `r` inserts: `none`, `flushed` (uncommitted), or its `status` column |
| `cancelledAt[r]` | `appointments.cancelled_at` |
| `lock`, `owned` | Redis and `LockClient._owned` (variables of `SlotLock`) |
| `idem`, `queue` | the idempotency keys in Redis, the messages sent to SQS |
| `cpc`, `ctarget`, `cnow` | a cancellation: where it is, its row, the clock it read |
| `result[r]`, `answer[r]` | the reply, or the exception on its way out through `finally` |

`Arrive` (schema check), `Replay`/`NoReplay` (step 0), `Validate` (1, 2),
`FindBay`, `FindTech` (3), `LockBay`, `LockTech`, `RecheckBay`, `RecheckTech`,
`Insert`, `Commit`, `Release` (4, one key at a time), `Remember`, `Publish`
(5). Failures are actions of their own: `ReadError`, `LockError` (nothing is
released: the `try` has not been entered), `WriteError` (with a COMMIT that may
have taken effect), `ReleaseError` (stops there, replaces the reply),
`RememberError`, `Crash`, `CancelError`. The constant `Faults` says which of
them a run allows.

Choices a reader should know:

* An appointment is named after the request that inserts it, a lock token after
  the client that made it: uuid4 values are taken to be unique, nothing else.
* A client's retry is another request with the same customer and key.
* `Validate` reads four rows in one step. Nothing writes those tables while
  requests run, so no other request could tell the reads apart.
* `FindBay`, `FindTech` take any free resource: the query has LIMIT 1 and no
  ORDER BY.
* READ COMMITTED: searches and rechecks see committed rows. `Insert` passes when
  no live row excludes it, is refused when a committed one does, and is
  disabled (waits) while only an uncommitted one does. When two INSERTs wait for
  each other PostgreSQL aborts one after its deadlock timeout; the client gets
  the same 500 and leaves the same nothing as the one that waited, so the model
  lets one of the two go first.
* A crash is one request's. A worker that dies takes all its requests along:
  that is several `Crash` steps in a row, every order of which is explored.
* `CancelWrite` is flush and commit in one: the row lock of the UPDATE keeps a
  second writer out in between, and readers do not see it.
* Request cancellation by a disconnecting client and the connection pool are
  left out.

`Availability` reads the cache and the catalogue (`ReadCache`, `Lookup`), asks for
the day's appointments (`ReadDay`), reads the clock once they have come back and
leaves out what has begun (`DropPast`), and writes the cache (`Store`). An entry
carries the `deadline` that the SET's `EX` gives it, and the clock runs. `readAt` and
`doneAt` are history variables: when a query read the clock, and when it answered. `Calendar`
stands for bookings and cancellations, because `Booking` implements it
(`CalendarSpec`, checked and proved); the two meet nowhere else, since nothing
invalidates the cache.

### `Accounts`

`rpc`, `lpc` and `gpc` say where a registration, a login and a read of an
appointment stand or what they answered; `accounts` are the committed rows,
`post` their role and dealership. `RegisterRead` is the look-up,
`RegisterInsert` the commit against the unique index. No transaction variable is
needed: the INSERT and its COMMIT are the one call `commit()`, and an INSERT that
meets an uncommitted one waits for it. `RegisterError` covers a commit or a
refresh that raises with the row already there. A
login is two steps, as bcrypt runs between them: `LoginRead` reads the row,
`LoginIssue` reads the clock and turns the row into claims, whatever the row has
become meanwhile. `Authenticate` judges the claims, `GetAppointment` reads the row
later. No route writes a role: `Reassign` is an operator. bcrypt accepts exactly
the password that was hashed and tokens cannot be forged, so a token is its
claims. `since` is a history variable: when an account last held each earlier
post; so are `issued`, when a token was made, and `at`, when its row was read. Times are in minutes.

### `Listing`

`Count` and `Fetch` are the two statements of `list_for_customer`; each sees what is
committed when it runs. `Ordered` has every order that `ORDER BY scheduled_start
DESC` allows, since equal starts have none. `wpc`, `page`, `total`, `shown` are a
client that asks for page after page; that client is not in the repository, and
`until` says how it knows the last page: by a page that is not full, or by
`pagination.total`. `before` is a history variable, the calendar when its first
statement ran. Bookings and cancellations are steps of `Calendar`, as in
`Availability`.

### `Settings`, `DemoData`, `StartUp`

`Settings` is pure. An environment is a function from the names that are set;
`Environ` merges the secret as `setdefault` does, `Fields` applies the defaults,
`Valid` is the required field and the two validators, which see the *merged*
environment. A key pair stands for its PEMs, and a token for the algorithm and
key it was signed with.

`StartUp` has a `site`: docker-compose with one `api` container and shells in which
a developer runs the seed script, or a deployment with worker processes. `pc[p]`
walks through `migrate`, `upgraded` (flushed, not committed), `seed`, `insert` (looked
and found nothing), `inserted` (flushed), `import`, `serving`; `failed` is a
non-zero exit. `revision` is `alembic_version`, `db` the demo rows that are committed,
`cancelled` those that a customer has cancelled, `loaded[p]` the `settings` of `p`.

* `Insert` waits while another transaction is open, then meets its rows and is
  refused a primary key. `Fail` is any call that raises and any process that
  dies; a COMMIT under way may still have taken effect.
* `uvicorn --workers 2` imports the module once per worker: each loads the secret
  at a moment of its own, and again when it is restarted. Locally `Restart` is
  docker-compose's; deployed it is the supervisor's and ECS's, external.
* `Init` is an empty volume, or one that an older checkout left at any revision,
  with or without the demo data. `techTwice`: at revision 0001 nothing but the
  locks kept technicians apart, so such a volume may violate what 0002 adds.
  A deployed database is complete: nothing in the repository migrates one.
* One process per database migrates, as docker-compose has one `api` container.

### `Deployment`

A run of a pipeline builds one image and registers one revision per
environment; both are named after the run. `trigger` says what started it, `Target` is
the resolve job, `Deploys` the `if:` of the two deploy jobs, `Gate` the reviewers of
the prod environment and Jenkins' input step. A deploy job goes through
`Register`, `Update`, `Stable`; `JobFails` is `set -e`, a rejection or a timeout, with an
update that may have taken effect. `Rollout` is ECS, external: a service becomes
stable with the revision it was last told if the image is in its repository.
GitHub starts runs at any time, Jenkins one after the other. `told` is a history
variable: every run whose revision a service was told.

## 3. Runs

| Run | Instance | Shows |
|---|---|---|
| `SlotLock` | 3 clients, 2 keys, all faults | `OnlyOwnToken`: releasing never deletes another client's key although keys expire under their owners |
| `BookingRace` | 3 requests, 2 bays, 2 technicians, 4 valid and 8 invalid payloads, no faults | `NoDoubleBooking`, `AssignmentsLegal`, `SomeoneWins`, `LocksReleased` |
| `BookingFaults` | 2 requests, 1 cancellation, 2 instants; Redis, database, SQS, crashes, forgotten keys | `LocksSuffice`, `LocksAreHeld`, `LockProtocol`; `LocksReleased`: only a crash, or a 500 while Redis fails, leaves a key; `RepliesAreTruthful`, `ReplayIsOwn`, `EffectsFollowCommit`, `CancelledInTime` |
| `BookingLive` | 2 requests, 1 cancellation, 1 bay, 1 technician; locks expire, Redis and database fail; fairness | `CalendarSpec`: the constraints alone keep the calendar sound when locks do not. `EventuallyAnswered`, `FreedSlotIsBookable` |
| `Availability` | 3 queries, 4 questions, 2 appointments of 3 assignments, 2 shops, 3 instants with a TTL of 2; Redis and database fail | `OfferedIsBookable`, `AnswerFitsQuestion`; `AnswerIsRecent`: whatever is stored over what, an offer was found by a query that still ran less than a TTL ago |
| `Accounts` | 2 registrations, 1 login, 1 read, 2 addresses, 2 passwords, 3 posts, 3 instants; database fails | `RegistrationIsTruthful`, `LoginIsOwn`, `RightsAreRecent`: what is shown rests on a token issued within the last lifetime and on a post held when its login read the row, or later |
| `Listing` | 1 walk, 3 appointments of its customer and 1 of another, 3 starts, pages of 1 or 2, 3 filters, both ways to stop | `QuietWalkIsExact`; `NoneMissed`: rows never go or move, so what changes meanwhile only shows a row twice |
| `StartUp` | 1 container and 1 shell, or 2 workers; 4 schemas, 3 task definitions, 5 secrets, 3 failures, 2 rotations; fairness | `ServesSeeded`, `DemoIsLegal`, `ChangesSurvive`, `ServingCanSign`, `RefusedMeansOutdated`, `EventuallyServes` |
| `Pipelines` | 3 runs, 5 triggers | `ImagePresent`, `ProdApproved`; `JenkinsInOrder`: against every build a service was ever told, also with one of GitHub's in between |

Three runs expect a violation: they state what the documentation or a comment
says and the code does not do.

| Run | Claim | What happens |
|---|---|---|
| `OperatingHoursMidnight` | `_within_hours`: "falls entirely within" the hours | only times of day are compared, so an appointment across midnight passes |
| `DuplicateBooking` | an `Idempotency-Key` keeps retries from booking twice | a retry that overlaps the first request books a second appointment |
| `TagToProd` | a tag goes to staging and, once approved, to prod | the image is pushed to the repository of staging only; prod is told one its repository lacks |

Further claims that the models contradict, without a run of their own:

* `ConstraintNeverFires` (`05-deep-dives.md`: the exclusion constraint "should never
  trigger in production"): two overlapping starts in adjacent buckets take
  different locks, and one gets a 500. As an invariant of `BookingRace` it fails.
* `ReplayImpliesNotified` (the comment on step 5: a crash between commit and publish
  "is handled correctly on retry"): the retry is answered from the key and nobody
  publishes. As an invariant of `BookingFaults` it fails.
* `CompleteMeansDeployed` (the last line of `ecs-deploy.sh`): of two overlapping
  deployments one reports success once the other's revision is stable. As a
  property of `Pipelines` it fails.
* `NoKeysAfterReply` (`05-deep-dives.md`: locks are released "always in a `finally`
  block, even on error"): the second acquire is outside the `finally`, so an error in it
  leaves the first lock to its TTL. As an invariant of a run with the fault
  `redis` it fails.
* A service type without a dealership is "available at all dealerships"
  (`02-core-entities.md`), and booking and availability treat it so;
  `list_service_types_for_dealership` compares with `=`, so it is listed nowhere. Two
  conditions on constant rows differ: there is nothing for a run to explore.
* The secret of `config.py`'s docstring and of the README ("Secret structure") has
  neither `JWT_PRIVATE_KEY` nor `ALGORITHM`; the default is RS256, so the second
  validator refuses it and no deployed process starts (`Documented` in `MCStartUp`).
  "Run without Docker" does not export `ALGORITHM` either: there the server
  starts, since the validator spares local environments, and every login ends in
  the `RuntimeError` of `_signing_key` (`SigningKey` is `Null`).
* The docstring of `seed.py` gives the demo appointments as 09:00 to 17:00 UTC; the
  rows are four hours later, 09:00 to 17:00 in New York. At the documented times
  the first would begin before the dealership opens (`DemoOfDocstring`).
* "Email already registered" is a 409, unless two registrations overlap: then the
  unique index refuses the second, which nothing catches (the second disjunct of
  `RegisterInsert`).

### Bounds, and why they suffice

* **Requests.** A double booking, a lock taken over and a reused idempotency key
  each need two requests. `SomeoneWins` needs three: two who block each other
  crosswise and a third that could have been served. The cancellation is a
  further actor wherever rows matter. For safety properties
  the bounds are immaterial: they are proved for any number (section 5). That
  holds for two cancellations of one row too, which no run has.
* **Payloads** are chosen for the relations the code tells apart: same slot;
  overlapping in one bucket; overlapping across two; one bucket without overlap;
  same or another customer with one key; each reason for a refusal.
* **Shop.** Two bays and two technicians, one of whom cannot do every service,
  with an inactive bay and technician; `SmallActive` leaves one of each active so
  that every two requests collide.
* **Clock.** `Instants` is one moment where time plays no part, and one
  before and one after an appointment's start in `BookingFaults`. The TTLs of locks and
  idempotency keys are not timed: a key may expire at any moment, which includes
  every real schedule. The availability cache is timed, since `AnswerIsRecent` is
  about time: with three instants and a TTL of two minutes an entry is stored, served
  a minute later, and gone after another. Three queries: one that stores, one
  that is served, and one that stores over the first.
* **Pages.** A disturbed walk needs a row on each side of a page's edge and one
  that comes in between: three appointments, pages of one or two.
* **Starts.** Who seeds first is between two processes, and so is a disagreement
  on keys. A start can be cut short in three places that leave something
  behind, so three failures; two rotations lead to a secret and back.
* **Accounts.** A race for an address needs two registrations. `Instants` is 0,
  30, 31 with a lifetime of 30: a token's first moment, its last, and the one
  after. Only one account changes posts, and it reads its own appointment or
  another's.
* **Pipelines.** Every property is about two runs, or one, and `JenkinsInOrder` also
  about one of GitHub's between two of Jenkins: three runs. `NoTags` leaves out the
  push of a tag, which `TagToProd` refutes by itself, and staging, which is dev
  by another name where no tag is involved.
* **Symmetry** (interchangeable requests) is used in `BookingRace`, `BookingFaults`,
  `Availability` (queries, appointments), `Pipelines` and `Listing` (appointments of one
  customer), whose properties are invariants
  or step properties, never with liveness.
* Deadlock is checked in every passing run of `Booking`: `Rest` is enabled only
  when every request has been answered. `SlotLock` has no final state either. In
  `Availability` and `MCOperatingHours` the system really ends: all queries
  are answered and all appointments cancelled, all probes tried; so do
  `Accounts`, `Deployment` and `Listing`, when every request is answered, every job
  over and every walk done, and `StartUp`, when all serve.
  There alone `CHECK_DEADLOCK FALSE` is set.

## 4. Fairness

* `WF(Step(r))` for a request that has arrived: asyncio resumes a coroutine
  whose awaited call has returned, and every Redis, PostgreSQL and SQS call
  returns or raises. `Insert` is disabled while it waits for another transaction,
  so progress there is shown, not assumed.
* `WF(CancelWrite(c))`, likewise.
* `WF(Step(p))` for a process that starts: a program runs on, PostgreSQL ends
  every wait, and docker-compose, the supervisor or ECS restarts what has failed.
  (The parent of `uvicorn --reload` outlives a child that has died and restarts it
  only when a file changes: for that one death the fairness is optimistic.)
  A restart that meets an invalid secret fails again: `EventuallyServes` speaks of
  behaviours where the configuration is valid from some point on, and
  failures are bounded by `MaxFailures`.
* Nothing makes a client send a request, the clock advance, or a fault occur.
  `BookingLive` does not assume that locks expire.

## 5. What is proved

Every safety property of a passing run is also a theorem; TLC checked each
inductive invariant on a run's instance before it was proved. The theorems hold
for any sets of requests, cancellations, keys, payloads, queries, walks and
pipeline runs, any catalogue and any set of faults, unless the statement
excludes one. They rest on these assumptions about constants, which TLC
evaluates in every run:

| Assumption | Says |
|---|---|
| `CatalogueAssumption` | references are typed (foreign keys), durations positive, starts are instants |
| `NoClientAssumption`, `RequestsAssumption` | the value for "nobody" is not somebody; clock readings are integers |
| `AccountsAssumption` | the starting post is a post, times are integers, an appointment's customer is a registration |
| `StartUpAssumption` | servers and shells are different processes, docker-compose's environment is complete, `TESTING` is not set outside tests |
| `AvailabilityAssumption` | a row on the calendar has a bay and a technician of one dealership, and integer times: for rows that a booking wrote, this is `AssignmentsLegalAlways` |
| `InstantsAssumption` | the moments the clock shows are integers, the cache's TTL is positive, `Never` is no moment |
| `NoSlotsAssumption` | the value for "no cache entry" is not a list of slots |
| `ListingAssumption` | appointments have one customer each and are finitely many, starts are integers, pages have 1 to 100 rows |
| `DeploymentAssumption` | the value for "no revision yet" is not a run |

| Theorem | By |
|---|---|
| `OnlyOwnTokenAlways`, `MutualExclusionAlways`, `LockTypeCorrect` | `OwnedIsHeld` is inductive with the types: acquire writes both memories, a lost acquire only the server's, a release drops the client's memory no later than the server's |
| `TypeCorrect` | `TypeInv`: lock keys are typed only because a request that uses a bay and a technician has found them (`Chosen`) |
| `NoDoubleBookingAlways` | `RowInv`: rows are kept apart while still uncommitted (`RowsApart` speaks of *live* rows), since COMMIT checks nothing; a row is open only between INSERT and the end of its session (`RowPlaces`) |
| `ImplementsCalendar`, `CalendarIsSound` | `LegalInv` and the mapping `Ledger`: COMMIT (also one whose reply is lost) is `Book`, the UPDATE of a confirmed row is `Cancel`, all else stutters. The calendar itself never books anything twice |
| `AssignmentsLegalAlways` | `Vetted`: what was checked stays true up to the INSERT |
| `RepliesAreTruthfulAlways`, `EffectsFollowCommitAlways` | `OutcomeInv`: a result is reported only on the way out and fits the row; committed rows stay (`CommittedStays`) |
| `ReplayIsOwnAlways` | `KeysName`: each key names an appointment of its own customer and key |
| `RetryIsReplayedAlways` | `KeyKept`: the key is stored before the 201 is sent. It says what is left of the claim that the run `DuplicateBooking` refutes: a retry books again only if it overlaps the first request, or comes after the key is forgotten, or after a reply other than 201 |
| `CancelledInTimeAlways` | `Timely`: what is about to be written was found in time |
| `UsesLockProtocol` | `Holding`: the keys owned at each place of the request |
| `LocksAreHeldAlways` | the previous theorem turns those of `SlotLockProofs` into facts about bookings (an instance of that module), no second induction |
| `LocksReleasedAlways` | `KeysKnown`: a key in Redis is one that its request knows of, unless a crash or a call that raised has ended that request (`Lost`); with `Holding`, whoever ends otherwise owns nothing |
| `LocksSufficeAlways` | `Cleared`: what the recheck found stays true, because a conflicting row of the same bucket would have been committed under the same key |
| `SomeoneWinsAlways` | `Beaten`: where somebody was refused a key, somebody of that dealership has its bay's key or an appointment. The hard step is a request that is itself the one in the race and is refused its technician: the holder of a technician's key has passed both acquires, so it is going to commit, or gives up because of a row that is committed (`ReleaserServed`). Expiry takes nobody out of the race |
| `AvailabilityTypeCorrect`, `AnswerFitsQuestionAlways` | `CacheInv`: every entry lies in the grid of the question it is stored under (`KnownQuestion`), so a hit needs no second look |
| `OfferedIsBookableAlways` | `RowsInv` and the lemmas on the grid: a slot of a day lies within the hours and passes a booking's hours test (`GridWithinHours`); the day's query returns every row that can overlap one of its slots, rows that straddle midnight included (`DayRowsSuffice`); hence the sets in Python and the SQL searches agree on every bay and technician (`FreeIsBookable`) |
| `NoFalseRejection`, `ExactWithinOneDay` | arithmetic: an instant is a local day and a time of day |
| `AnswerIsRecentAlways` | `RecentInv`: whatever is in the cache, a query with that question found and stored, and its deadline is a TTL after that query's answer (`EntryFound`); what a query is about to store it found itself (`Dated`); a finished query stays as it is (`DoneStays`) |
| `NoneMissedAlways` | `MissInv`: each of the first rows is shown, or still has its place in the list below the pages read so far; a row that comes pushes it down, none goes (a row's place is counted as the rows above it, `Above`) |
| `QuietWalkIsExactAlways` | `QuietInv`: what is shown is a prefix of the one list there is while nothing changes (`PrefixThenPage`); a status never returns, so rows that are as they were at the beginning have been so all along |
| `DeploymentTypeCorrect`, `ProdApprovedAlways` | `JobInv`: a job is past its gate only when it was approved (`GateKept`), and only such a job tells a service anything (`ToldByJob`) |
| `ImagePresentAlways`, `ImageMissingOnlyForTagAlways` | `JobInv`: a job that deploys follows the push of its own image (`JobsPushed`), images stay (`ImagesKept`). The first is for triggers that are no tag, as in the run; the second says for all triggers that nothing but what `TagToProd` shows can be missing |
| `JenkinsInOrderAlways` | `OrderInv`: at most one Jenkins run is under way and it is the last that began (`disableConcurrentBuilds`), so every other Jenkins run that a service was ever told (`told`) is older |
| `RegistrationIsTruthfulAlways`, `LoginIsOwnAlways`, `AccountsTypeCorrect` | `AddressInv`: a registration that has not inserted has no row, and no two rows share an address; rows only come, so a token keeps naming the one it was made from |
| `RightsAreRecentAlways` | `RightsInv`: the account had the post of a row that a login has read at that moment or later (`RowsTrue`; `HeldSince` stays true because the clock rises), a token is that row's with a lifetime from its issue (`TokensTrue`), and a request under way carries one that was alive (`BearersTrue`) |
| `ServesSeededAlways`, `ChangesSurviveAlways` | `StartInv`: a server comes to the seed with the newest schema behind it (`Migrated`); the one commit makes all rows appear together (`AllOrNothing`), so the row that is looked for vouches for the others (`SeededFirst`); rows are flushed only by the first and one script (`Alone`) |
| `DemoIsLegalAlways` | the rules of `Catalogue` computed for each row; no two share a bay or a technician |
| `ServingCanSignAlways`, `RefusedMeansOutdatedAlways`, `StartTypeCorrect` | `ServesJudged`: what a process serves with passed the validators, which see the merged environment, whose name the secret cannot change (`MergedAsksAWS`) |

Two layers are thus separated: `NoDoubleBookingAlways` uses no fact about locks,
`LocksSufficeAlways` and `SomeoneWinsAlways` none about the constraints beyond
that a refused INSERT had a committed reason.

Only model-checked: liveness (`EventuallyAnswered`, `FreedSlotIsBookable`,
`EventuallyServes`), since fairness and ENABLED
are beyond the prover, and the refuted claims, whose counterexamples are
TLC's.

What some properties do not say: `RepliesAreTruthful` is silent on a 500, which may
come after a commit (a reply lost, a release or the idempotency key's SET that
fails), and no document claims more; `ServingCanSign` judges that a key is there
and strong, not that the library knows the `ALGORITHM`, which `config.py` does not
check; `AnswerIsRecent` is relative to the time that the query took that stored
the answer, which the code does not bound.

## 6. Not modelled, and the plan

Not modelled for good: routes that read one row or a whole constant table, metrics,
logging, cryptography, the consumer of the queue, downgrades. Whatever migrates a
deployed database is not in the repository.

Next, in this order:

1. Clock changes: an offset that depends on the instant, for the slot loop
   (`current += slot_dur` in local time) and the hours test; then
   `OfferedIsBookable` again, for the days it is true of.
2. Sessions: the connection pool as a bounded resource held across awaits.
3. Deployment: scripts called by hand, edits of a task definition meanwhile.
4. `Availability` over `Booking` itself instead of `Calendar`, with
   `AvailabilityAssumption` as a consequence of `AssignmentsLegalAlways`.
