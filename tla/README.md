# Delivery API: models, checks and proofs

The repository holds five generations, `delivery-api-lr-2` to `delivery-api-lr-6`, of
one delivery service written in C++20 with userver: users register and log in, a user
hands in parcels, and a delivery ships a parcel to another user and has a tracking
number. Each generation keeps the data in another way or adds a mechanism, and each
mechanism has a concurrency problem of its own. This directory models those
mechanisms in TLA+, checks the models with TLC and proves their safety properties with
TLAPS.

## 1. Inventory

Handlers are tasks on a task processor of four threads (`static_config.yaml`): any two
requests interleave at every remote call and at every mutex. A task that was accepted
runs to its end.

| Part | State | Operations | Hard behaviour | Module |
|---|---|---|---|---|
| lr-2 in-memory storage | three maps, three counters, one mutex | register, hand in, ship, look up | a request makes two calls and dereferences the second's optional; two maps change together | `InMemoryStorage`, `DeliveryBook` |
| lr-3 PostgreSQL storage | tables `users`, `parcels`, `deliveries` | one SQL statement per call; a create is three | no transaction around the three; any exception is answered 404; OFFSET pages over a table that grows, in an order that is not the order of insertion | `PostgresStorage` |
| lr-4 MongoDB storage (kept by lr-5, lr-6) | collections `parcels`, `deliveries`; a counter in the process | create, end, delete, mark | two documents change in two calls, the second of which may fail silently; `counter++` is a data race and restarts at 1 | `MongoStorage` |
| lr-5 cache | Redis keys with TTL | get / set by page, invalidate by SCAN + DEL | a reader that queried before an insert saves after the invalidation; one of the two invalidations throws; death in between | `DeliveryCache` |
| lr-5 rate limiter | a token bucket per client | `CheckRateLimit`, `GetRemaining` | the clock is read before the mutex is taken, so time may run backwards inside it | `RateLimiter` |
| active tokens (lr-4 to lr-6) | map user → token, expiry | find, sign, store, clean up | find and store hold the mutex, sign does not; two notions of expiry | `AuthTokens` |
| the POST handlers and writing operations of lr-2 to lr-6 | rows and documents; lr-4's two counters of ids | register, log in, hand in, ship, change a status | an answer lost after the write; validators and CHECKs that refuse; what a retry meets | `Commands`, `Requests` |
| the GET handlers and reading operations of lr-2 to lr-6 | none | look up, list, search by mask, by status, with pages | the ends of a page, defaults, NULL members, orders nobody asked for | `Queries`, `Requests` |
| lr-5 user lookup | Redis user keys | get by login | a hit ignores the page asked for; registration invalidates nothing | `Queries`, `Requests` |
| models: JSON and BSON | none | `Parse`, `Serialize`, `Map...ToBson`, `MapBsonTo...` | members that are absent, null or empty mean other things on each way | `Documents` |
| lr-6 events | an exchange and a queue in RabbitMQ | publish, consume, acknowledge | lost, repeated and reordered events; a consumer that acknowledges what it failed on | `EventFlow` |
| lr-6 read database | maps, two indexes, one mutex | four updates, eight readers, pages of vectors | repeated and reordered updates; the ends of the range | `ReadDatabase` |
| JWT, hashing, OpenAPI, wiring, scripts | none of interest | | | not modelled |

Interactions: handlers call the storages and components directly; the only shared state
inside the process is the storage of lr-2, the buckets, the tokens and the tracking
counter. Between processes there are PostgreSQL, MongoDB and Redis, which survive a
restart of the service and lose nothing, and RabbitMQ, whose queue survives no restart of
its own. In lr-6 Redis, RabbitMQ, producer and consumer are commented out of `main.cpp`
and of the configuration.

What makes the parts correct: a stale page must have a cause and an end; a client must
not be granted more than its bucket nor be refused without reason; logins that do not
overlap share a token; what a request reads back is what it created; half a delivery
must come from a failure and not from an interleaving; tracking numbers must not
collide; the two collections must agree when nothing fails and nothing overlaps; what a
client is shown must be what it posted, the pages of a list must tile it, an account must
work once it is told 201; an event that is acknowledged must have been understood, and
the events must say enough to rebuild what they are about.
`PROJECT.json` lists the hazards line by line.

## 2. Modules

A component `X` has `X.tla` (state, actions, properties), `MCX.tla` and `.cfg` files for
TLC, and `XProofs.tla`. An operator named `...` "Mutant of A" stands directly before `A`:
it is `A` with a plausible mistake, and shows that a property of `A` can fail. It is part
of no specification.

### DeliveryCache (lr-5 `redis_cache_component`, `get_deliveries_handler`, `create_delivery_handler`)

`pos[d]` is the place of a delivery in MongoDB, `cache[k]` the entry under a key with the
ticks it has left, `pc`, `arg`, `got` are a task's next remote call and its locals. A
read is look-up, query, SETEX; a create is insert, then SCAN and DEL for the sender's and
for the receiver's pages; every call is an action and may throw instead. `acked`,
`abandoned`, `wait`, `age` and the fields `held` and `late` are history. Crash
empties the tasks and nothing else.

Assumptions: SCAN returns the keys of one moment (Redis guarantees less to keys that come
and go meanwhile); a query without a sort returns insertion order. No handler of lr-5
calls `UpdateDeliveryStatus`, so a delivery is immutable and the entry of a tracking number
never becomes wrong. An empty page is cached and hit like any other. `MaxHold` bounds how
long a task may hold a page; without it staleness has no bound.

### RateLimiter (lr-5 `rate_limiter_component`)

A token is counted as `TimeSec` units, so the code's double arithmetic becomes exact
integers. `ReadClock`, entering the mutex, refilling and taking, and the unlocked read
of `GetRemaining` are separate steps. A bucket appears full with the epoch as its time
stamp, as the default-initialised entry does. `mark` and `since` observe one window
that may begin at any moment. A look-up racing with a rehash of the map is undefined and is not entered.

### AuthTokens (lr-6 `auth_component`, `login_handler`, `jwt_auth_checker`)

`table` is `active_tokens_`; a login finds a token, or signs one outside of the mutex and
stores it. A token is the user and the second it was signed in, since signing is a function
of those. `Second` is the number of ticks in a second: the `exp` claim is truncated to
seconds and the table's expiry is not. Steps of the system clock are not modelled.
`ValidateToken` and `ExtractTokenFromHeader` have no caller. The login handler of lr-4
lets any login in and is not the one modelled.

### InMemoryStorage and DeliveryBook (lr-2 `storage_component` and the POST handlers)

Each operation is one action, for the mutex is held throughout; the two calls of a request
are two actions. `want` is history: what the request asked for. `DeliveryBook` is the
abstract specification: register, hand in, ship, each in one step, with parcels marked
in the step that ships them. `ImplementsBook` maps users to their logins and is an
instance of `DeliveryBook` as a property.

### PostgresStorage (lr-3 `postgres_storage_component`, `schema.sql`, the handlers)

A create is `BeginCreate`, `InsertRow` under a placeholder number, `SetNumber` with the id
of the row, `Assign` of the parcel, `ReadBack`. A statement may be executed and its
answer lost (`ExecutedThen`), or fail (`StatementFails`): both are 404. `rows[d].at` is
`NOW()` of the inserting transaction, fixed when it begins and visible when it commits.
`Readers` turn the pages of a list; rows with equal `created_at` come in any order, another
in each query. The 422 the handler has for deliveries is never produced; `sender_id` of a
delivery is not compared with the parcel's. A client that repeats a create ships twice.

### MongoStorage (lr-4 `mongo_storage_component`, `validation.js`)

The actions are the operations of the component, call by call. Handlers call
`CreateParcel`, `CreateDelivery` and the readers; `UpdateDeliveryStatus` and
`DeleteParcel` belong to the interface and have no caller yet, so properties about
them are of the component, not of the service. `counter++` is
`ReadCounter` and `WriteCounter`, because nothing synchronizes it. `intent[p]` is history:
the status that the last operation on `p` means it to have, from the moment it changed
its own document. `muddled` are the parcels on which a call broke off or an operation
began while another had yet to set the status; `lost` says that an increment was
overwritten since the last restart. `AddFeatureToParcel`, `AddDeliveryEvent` and the
readers are in the next modules.

### Documents, Queries, Commands and Requests (lr-2 to lr-6: handlers, storages, models)

These four modules follow a request all the way: `Documents` is what `Parse`, `Serialize`
and the mappings to and from BSON do to a body or a row, `Queries` the GET handlers and the
readers of the storages, `Commands` the POST handlers and the operations that write,
`Requests` a service of one generation with its clients. A digit at the end of a name is
the generation, `GetParcelsHandler3` is lr-3's; where two generations have the same text,
the later definition is the earlier one. A JSON object is a function on the names of its members, so
that an absent member, a null one and an empty one differ; weight, dimensions and declared
value are one member, `size`, which is "fits" or "unfit" for the CHECKs and validators;
first and last name are one name, a sequence of letters, because masks are matched against
parts of it. Row ids are places in the tables, UUIDs and tracking numbers likewise. Junk is
an argument that `std::stoi` refuses. A call that can find nothing or throw returns a list of
one or of none, so that no answer has to be told apart from a value for "no answer". What a
query selects is a set of ids, which `Where` puts in order of insertion (`Ascending`) and the
reader then reverses and cuts to a page; `Like` asks for an alignment of name and pattern.

A command is one step, and `fault` is what its calls meet: the write is refused, or made
and its answer lost, or the update of the parcel fails, or the row cannot be read
back. The interleavings of these calls are what the modules before are about.
`posted` and `shipped` keep the body each row was made from, `told` and `named` the ids
clients were given, `made` and `unsure` count the parcels a client knows of or may not.
GETs are no steps: the properties evaluate them in every state, over all senders, masks,
statuses, page sizes and both orders in which a database may return rows without ORDER BY.
Only the look-up of a login by lr-5 is a step, as it fills the cache. Because
`UpdateDeliveryStatus`, `UpdateParcelStatus`, `AddFeatureToParcel` and `AddDeliveryEvent` have no caller,
`Requests` calls them with any row. The deliveries of lr-5 are left to `DeliveryCache`.
`MaxReserve` is how many elements a vector can reserve: the MongoDB readers reserve
`to - from + 1` before they look, and throw for a page beyond it. Three assumptions are made:
`RequestsAssumption` (generations are 2 to 6), `ValuesAssumption` (null, nothing and junk are
no numbers, no lists of features and no statuses; wildcards are no letters; the stranger's
password is nobody's) and `BodiesAssumption` (a body has no member the API does not know,
its features are a list or null, and an address is a string and so is its city).

### ReadDatabase and EventFlow (lr-6 `read_database_component`, `delivery_event_producer`, `delivery_event_consumer`)

`ReadDatabase` has the maps and indexes as a record, and the component's methods as
operators on it, each atomic as it holds the mutex throughout. `EventFlow` follows an
event: a handler writes (`written`), publishes from `outbox` in any order or loses the
event, the broker keeps it at a `place`, hands out at most `Prefetch` at a time, the
consumer processes and acknowledges. `std::sort` is some order of the ids that puts none after one it is
"before" (`Sorted`): items that compare as equal keep one order until the map changes, as those of a hash
map do. That there is one rests on `IdsAssumption`, that ids are finitely many. No publisher confirm is asked for, exceptions are swallowed
on both sides, the queue is declared by the producer's constructor and by nothing else,
and a restart of the broker drops it with its messages. At this commit no handler calls
the producer and the consumer only logs; the model lets the handlers publish where the commented call stands,
and feeds two read databases with the call each event is for: `replica` with every accepted event once
and in order, `readDb` in any order and any number of times. Those are properties of the component's
interface, not of the running service. `created_at` of users and parcels and `delivered_at` are, as in
the code, the time of the call that set them last: `now` of the record is `system_clock`, whose readings,
in nanoseconds, are taken to increase from call to call. Each stamp is one tick of it. A mask that is empty is not passed to
`SearchUsersByNameMask`: `pop_back` of an empty string is undefined.

## 3. Runs

| Run | Instance | Shows |
|---|---|---|
| `cache` | 2 tasks, 2 deliveries of one sender to two receivers; a page of the sender's list, one of a receiver's and a tracking number; TTLs 1, hold 1, fair | `StaleIsExplained`: a stale page was saved late, or a create broke off, or will drop it yet. `CachedPagesAreSnapshots`: a page is an answer MongoDB gave. `PagesOnlyGrow`: it goes back only by a late save. `StalenessIsBounded` by TTL plus hold, `EventuallyFresh` |
| `cache_doc` | as `cache` | violated: `performance_design.md` says a successful POST removes the pages; a reader may put one back |
| `limiter` | 2 threads, 2 clients, limit 2 in 2 seconds | `WindowIsBounded`, `NoEarlyRefusal`, `DebtIsCoveredByTime` |
| `limiter_doc` | 2 threads, 1 client, limit 2 in 3 seconds | violated: not "100 a minute" but up to a bucket plus what flows in |
| `auth` | 2 threads, 2 users, lifetime 3 s, 10 ticks of half a second | `DuplicateNeedsOverlap`, `FoundTokenIsNearlyAlive`, `LiveTokensBounded` |
| `memory` | 3 threads, 2 of everything | `AnswersHold`, `EveryDeliveryIsListed`, `AssignedIffShipped`, `ImplementsBook` |
| `postgres` | 2 threads, 1 parcel, 2 deliveries, 2 suffixes, 1 reader of pages of one row, 2 moments, fair | `OrphanExplained`, `TraversalIsComplete`, `TrackingUnique`, `CreateIsFinished` |
| `postgres_doc` | 2 threads, 1 parcel, 2 deliveries | violated: a 404 that has created a row |
| `mongo` | 3 threads, 1 parcel, 2 deliveries, counts to 3, 1 restart | `AgreementExplained`, `CollisionExplained` |
| `requests` | generations 2 to 6; 2 of 4 logins, 2 parcels, 2 deliveries, 1 fault, pages of 1 and 2 | `AnswersAgree`: no member is lost or mixed up on its way. `AccountsWork`: who was told 201 can log in, who is told 409 too. `IdsExplained`: no two clients are told one id by their registrations, nor by lr-4's logins (one's registration and another's login may be told the same). `PagesTile`: the pages of a search are each answered and hold every match once. `LookupsFind`: logins and tracking numbers, with bounds left out. `ParcelsAreAccountedFor`: one parcel for each 201 or lost answer |
| `requests_doc` | as `requests`, generation 3 | violated: a list with a NULL description is answered 400 |
| `events` | 2 users, parcels and deliveries, 3 writes, prefetch 2, 1 restart, 2 updates out of order, fair | `AckedIsHandled`: what is acknowledged was read to its end. `ReplicaFollows`: the events rebuild a delivery unless one was lost or overtaken. `RedeliveryOnlyRestamps`: unless a related event came between, a repeated event sets the stamp of its own entry to a later time, and changes nothing else. `EveryEntryIsFound` through its index (`IndexesAgree`) and on exactly one page. `QueueDrains` |

Each passing run also checks the module's `TypeOK`.

Why the bounds are enough to be interesting. Two tasks are a reader and a writer, or two
writers; a third actor only adds to races of two, except for the tracking counter, where
one thread must lag while another increments twice: `mongo` has three threads and counts
to 3. Two pages of one list let a SCAN collect two keys. Two deliveries fill a second
page. In `postgres` one row of the list is there and the other is inserted before or behind
the reader, whose pages hold one row. In `requests` one row of a table can be wrong, and two have
an order and fill two pages; of the four logins one is too short for its CHECK and
one has another's e-mail, and every body exists with and without its optional members. In `events` three writes
are a delivery and two changes of its status, the least that can be overtaken, or a
delivery beside another. Lifetime 3 in half seconds lets a user log in within one
lifetime more often than there are threads. Symmetry is over interchangeable threads, users and ids and is
used in runs without liveness only. `requests` and `events` switch the deadlock check off: their
bounds on rows, writes and faults stop them where clients would go on.

Fairness. In `cache` each task's next call is weakly fair: a task that was accepted
is run, and a call returns or throws. `Tick` is weakly fair because Redis expires keys by
itself; a tick waits for tasks that have held a page for `MaxHold`. In `postgres` a
statement of a create is executed, fails or times out. Nothing makes a client ask, so no
request is ever fair. In `events` one weak fairness, `Consumption`, says that as long as a message can
move from the broker to the consumer, through it, or to its acknowledgement, some
message does; publishing and restarting are not fair.

## 4. Proofs

All are `Spec => []...` for every value of the constants within the named assumptions,
by an inductive invariant `IInv` (initial, preserved by each action in a lemma of its
own, implying the property).

* `DeliveryCacheProofs`: `TypeCorrect`, `StaleSafety`. The invariant adds that an entry or
  page of a tracking number is exactly its delivery, because those pages are not
  invalidated at all. A second invariant, `PInv`, gives `SnapshotSafety`, `StalenessSafety` and
  `GrowthSafety` (of `PagesOnlyGrow`): places are given out in order, so an insert lengthens a list
  at its end, every page in Redis or in a task's hands is an answer over the first n
  documents, and what it lacks is no older than the page.
* `RateLimiterProofs`: `TypeCorrect`, `WindowSafety`, `RefusalSafety`, `DebtSafety`. The window bound
  needs an account of each bucket: what was granted, what is left and what flowed in
  since its stamp, which may lie before or after the window's start.
* `AuthTokensProofs`: `TypeCorrect`, `SharedToken`, `FoundTokenAge`, `LiveTokenBound`. The bound is
  not inductive: its invariant, `BudgetKept`, is a budget for every window of at most a lifetime
  that reaches the present. What was signed in the window, what the threads may yet sign in it, and
  what those that signed before it and still have to store may destroy, is never more than
  n + (n-1) + ... + 1. When the clock ticks, a new window begins with nothing signed in it.
* `InMemoryStorageProofs`: `TypeCorrect`, `AnswerSafety`, `ListingSafety`, `StatusSafety`
  and `Refinement`, that the storage implements `DeliveryBook`: one lemma per operation maps
  its step to a step of the book or to none. The invariant adds that counters are ahead of
  the ids in use, and that logins are unique.
* `PostgresStorageProofs`: `TypeCorrect`, `OrphanSafety`, `TrackingSafety`, `TraversalSafety`. The
  invariant adds that a thread past its INSERT works on a row that is there and nobody else's. For
  the readers, `ReaderInv` says of each row that was there at the beginning and is not seen and not tied
  that at least `from - 1` rows of the list are newer: what is inserted can only push it back,
  so it is still ahead of the reader, and the list cannot end before it.
* `MongoStorageProofs`: `TypeCorrect`, `AgreementSafety`, `CollisionSafety`. For a parcel that is not
  muddled the invariant says that at most one thread owes it a status, and that it owes
  the one that is meant; for the counter, that without a lost increment every count given out in this
  life is below the counter and used once.
* `EventFlowProofs`: `TypeCorrect`, `AckedHandled`, `IndexesAreAgreed`, `ReplicaIsFaithful`,
  `EntriesAreFound`, `RedeliveriesOnlyRestamp`. The
  invariant adds that every event is one the producer builds, so that the handlers find each
  member they read, that a processed or acknowledged event is in the log, and that each entry of a map is
  where its index points (from `SchemaAssumption`: distinct logins and tracking numbers). For the
  replica it says, of every undisturbed delivery, that the events of it in the outbox lead from the
  replica's entry to the row: a creation comes first and only before the entry exists, the last one has the
  row's status, and "delivered" is in the entry or ahead of it. `GenuineDatabases` says that what is in
  a map is what the calls put there, and that every stamp is before `now`. The pages follow from lemmas that a finite set has a sorted list
  of its elements, each once, and that position i of a list is on page (i - 1) \div n alone.
  `SettledOrOvertaken` says of every accepted event that the replica is as it left it, or a related one came
  after it; a settled event that is applied again takes only the stamp of its own entry anew, later than it was
  because stamps are past, and keeps the order of its sender's parcels because theirs was the latest.
* `RequestsProofs`: `TypeCorrect`, `IdsAreExplained`, `ParcelsAccounted`, `AccountsDoWork`,
  `AnswersDoAgree`, `LookupsDoFind`, `PagesDoTile`, all from one invariant for all generations. Its
  parts: `Rows`, tables are sequences of rows that are as the schema wants and the histories have
  their lengths; `Accounts`, an id that was told is the number of a row with the login, which no
  other row has and which was made from the complete body of that login, or is less than lr-4's
  counter; `Kept`, what the storage of the generation keeps of a body is what was posted; `Cached`,
  a login in lr-5's cache is an account as it is. One lemma per handler says what its outcome can
  be (refused and unchanged, one row more and 201, one row more and an error by a fault), so that the
  step lemmas do not look into the handlers. The other properties are about GETs, which are no steps, and follow
  from the invariant: "What GET answers" says which list of rows each handler shows for each query,
  "What is shown of a row" that it agrees with the body once the row does. `Ascending`, `Reverse`
  and `Window` are characterised by the ids they list (`Lists`), and `PagesDoTile` then needs that a
  place in a list is on one page (`OnePlace`, `SomePlace`) for every size of pages, and that the
  pattern made of a mask matches what the prefix does (`MaskIs`, `LikePrefix`).

Where a proof needs induction over numbers (that a page of the newest rows is as long as the limit, that
a set can be sorted), it takes a least or a largest element instead: `LeastNumber`, from the library's
`WFMin` and `NatLessThanWellFounded`, which have no operator as a parameter.

Every invariant and action property that a passing run checks has its theorem. Only model-checked
is liveness, `EventuallyFresh`, `CreateIsFinished` and `QueueDrains`: `ENABLED` and fairness are out of
the provers' reach. In `Requests` a hash stands for its password, so nothing is shown of hashing.

## 5. Findings

* `performance_design.md` 67-69 (lr-5) says a successful `POST /deliveries` removes the pages of
  its sender and receiver. A reader that had queried MongoDB before saves its page
  afterwards (`cache_doc`); it stays for its TTL, as `StalenessIsBounded` says.
* `README.md` 115 and 132 (lr-5) give 100 requests a minute, the 101st refused. The bucket
  starts full and is refilled meanwhile: up to 200 pass in the first minute (`limiter_doc`).
* `openapi.yaml` 237 (lr-3) gives 404 for a missing parcel or receiver. `CreateDelivery` turns every
  exception into it, also after its INSERT, and leaves the row (`postgres_doc`).
* `openapi.yaml` 209-217 (lr-3) gives 200 and the list for `GET /parcels`. A parcel without a
  description, which is optional there and in `schema.sql` 35, is NULL, `As<std::string>()` throws, and the whole list
  is 400 "Invalid user_id" (`requests_doc`).

The models show more that no document promises otherwise: a create of lr-4 is answered
201 when its parcel could not be marked; a late mark of a create overwrites "delivered"; cancelling one of
two deliveries of a parcel makes it "created" although the other ships it. In lr-4 a parcel
without features is refused with 422, because the document has null where the validator wants
an array; registering and logging in give a client ids from two counters, and both begin
again with the process. In lr-3 UNIQUE_VIOLATION and DATA_VIOLATION are one number. The lists of MongoDB and the search
by mask have no order, so pages tile only as long as the plan stays; a page too large to
reserve is 400, or 500 by status. A parcel whose answer was lost is there although the client was told 404 or 422,
and its retry makes a second. Events carry no password hash and no time of creation, and a change of a parcel's status has none, so the read
database could not verify a login or order deliveries. A redelivered event sets `created_at` of its user or parcel, or
`delivered_at` of its delivery, to the time of the redelivery (`read_database_component.cpp` 43, 67, 100), and
`GetUserById`, `GetUserByLogin`, `GetParcelById`, `GetDeliveryById` and the lists return it: a delivery seems delivered
later than it was; lr-6's `README.md` 113-116 and `event_driven_design.md`
speak of publisher confirms, of acknowledging after success only and of a consumer that updates the read model, none of which the code has.

## 6. Plan

Done: every part of the inventory but those of the last section. What could be added:

1. The handlers of `Requests` with their calls as steps, for each generation as `PostgresStorage` has them for lr-3.
2. An abstract specification of the requests of a generation, one step per command, that the storages
   of lr-3 and lr-4 implement when nothing fails, as lr-2's implements `DeliveryBook`.

## 7. Not modelled

Cryptography, hashing and random numbers as such; `created_at` and other times, but where an order depends
on them; `Serialize` of requests and `Parse` of responses that nothing calls; lr-2's `RegisterUser`, which nothing calls; the OpenAPI
and Swagger handlers; `main.cpp`, configuration, container files, data and validation scripts,
of which only the constraints are used. The limiter and cache components of lr-6 are copies of
lr-5's and are not translated twice.
