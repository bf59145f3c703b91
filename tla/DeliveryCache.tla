---------------------------- MODULE DeliveryCache ----------------------------
(***************************************************************************)
(* The cache-aside reads of the fifth generation of the service: the       *)
(* handlers of GET /deliveries and POST /deliveries run concurrently as    *)
(* tasks, the deliveries are in MongoDB, and Redis keeps pages of results. *)
(*                                                                         *)
(* A read is three remote calls: look the key up, query MongoDB on a miss, *)
(* write the answer under the key with SETEX.  A create inserts the        *)
(* document and then removes the pages of its sender and of its receiver,  *)
(* each by a SCAN that collects the keys and a DEL of what was collected.  *)
(* Every remote call is a step of its own and any other task may run       *)
(* between two of them; any call may throw.                                *)
(*                                                                         *)
(* Time is counted in ticks.  An entry carries the ticks it has left.      *)
(***************************************************************************)
EXTENDS Naturals, FiniteSets

CONSTANTS
  Users,        \* ids of users
  Deliveries,   \* ids of the deliveries clients ask to create
  Sender,       \* Sender[d]: sender_id in the request that creates d
  Receiver,     \* Receiver[d]: receiver_id in that request
  Tasks,        \* handler tasks in flight at a time
  Pages,        \* the pages <<from, to>> clients may ask for
  Asked,        \* the keys behind the queries clients make
  None,         \* the argument of an idle task
  SearchTtl,    \* kDeliverySearchTtl, in ticks
  TrackingTtl,  \* kDeliveryByTrackingTtl, in ticks
  MaxHold       \* bound: ticks a task holds an answer of MongoDB before SETEX

ASSUME SchemaAssumption ==
  /\ Sender \in [Deliveries -> Users]
  /\ Receiver \in [Deliveries -> Users]
  /\ IsFiniteSet(Deliveries)
  /\ Pages \subseteq Nat \X Nat
  /\ \A g \in Pages : 1 <= g[1] /\ g[1] <= g[2]

ASSUME TimeAssumption ==
  /\ SearchTtl \in Nat \ {0}
  /\ TrackingTtl \in Nat \ {0}
  /\ MaxHold \in Nat

VARIABLES
  pos,        \* pos[d]: the place of d in insertion order, 0 if not in MongoDB
  cache,      \* cache[k]: the entry Redis has under k, or NoEntry
  pc,         \* pc[t]: the remote call task t makes next
  arg,        \* arg[t]: the key a reader asks for, the delivery a creator creates
  got,        \* got[t]: the page read from MongoDB, or the keys a SCAN returned
  acked,      \* deliveries whose create was answered 201
  abandoned,  \* history: deliveries inserted by a create that threw before its DELs
  wait,       \* history: ticks since task t read its page from MongoDB
  age         \* history: ticks since d was inserted, up to MaxAge

vars == <<pos, cache, pc, arg, got, acked, abandoned, wait, age>>

-----------------------------------------------------------------------------
(* Keys: deliveries:sender:<user>:<from>:<to>, deliveries:receiver:...,    *)
(* and delivery:tracking:<number>, which has no page.                      *)

SenderKeys   == [kind : {"sender"}, owner : Users, page : Pages]
ReceiverKeys == [kind : {"receiver"}, owner : Users, page : Pages]
TrackingKeys == [kind : {"tracking"}, owner : Deliveries, page : {<<1, 1>>}]

ASSUME KeyAssumption == Asked \subseteq SenderKeys \cup ReceiverKeys \cup TrackingKeys

Ttl(k) == IF k.kind = "tracking" THEN TrackingTtl ELSE SearchTtl

Stored == {d \in Deliveries : pos[d] > 0}

\* Does the query behind key k select delivery d?
Matches(k, d) ==
  \/ k.kind = "sender" /\ k.owner = Sender[d]
  \/ k.kind = "receiver" /\ k.owner = Receiver[d]
  \/ k.kind = "tracking" /\ k.owner = d

\* Mutant of Rank: the query returns the newest deliveries first.
RankNewestFirst(k, S, d) == Cardinality({e \in S : Matches(k, e) /\ pos[e] >= pos[d]})

\* The place of d among the deliveries of S that the query behind k selects.
Rank(k, S, d) == Cardinality({e \in S : Matches(k, e) /\ pos[e] <= pos[d]})

\* Find(filter, Skip(from - 1), Limit(to - from + 1)) over the documents S.
PageOf(k, S) ==
  {d \in S : Matches(k, d) /\ k.page[1] <= Rank(k, S, d) /\ Rank(k, S, d) <= k.page[2]}

Listing(k) == PageOf(k, Stored)

-----------------------------------------------------------------------------
(* Entries.  held and late are history: how long the task that wrote the   *)
(* entry had held its page, and whether the page was out of date already.  *)

NoEntry == [ttl |-> 0, list |-> {}, held |-> 0, late |-> FALSE]

Entry == [ttl : 0..(SearchTtl + TrackingTtl), list : SUBSET Deliveries,
          held : 0..MaxHold, late : BOOLEAN]

Cached(k) == cache[k].ttl > 0

Drop(S) == [k \in Asked |-> IF k \in S THEN NoEntry ELSE cache[k]]

MaxAge == (IF SearchTtl > TrackingTtl THEN SearchTtl ELSE TrackingTtl) + MaxHold + 1

ReadSteps == {"get", "read", "save"}

\* The calls of a create that come after the insert and before the answer.
InvalidateSteps == {"scanSender", "delSender", "scanReceiver", "delReceiver"}
CreateSteps == {"insert", "reply"} \cup InvalidateSteps

Init ==
  /\ pos = [d \in Deliveries |-> 0]
  /\ cache = [k \in Asked |-> NoEntry]
  /\ pc = [t \in Tasks |-> "idle"]
  /\ arg = [t \in Tasks |-> None]
  /\ got = [t \in Tasks |-> {}]
  /\ acked = {}
  /\ abandoned = {}
  /\ wait = [t \in Tasks |-> 0]
  /\ age = [d \in Deliveries |-> 0]

\* Task t answers its client and ends.
Finish(t) ==
  /\ pc' = [pc EXCEPT ![t] = "idle"]
  /\ arg' = [arg EXCEPT ![t] = None]
  /\ got' = [got EXCEPT ![t] = {}]
  /\ wait' = [wait EXCEPT ![t] = 0]

\* Task t goes on to the call named next, having got the set S.
Continue(t, next, S) ==
  /\ pc' = [pc EXCEPT ![t] = next]
  /\ got' = [got EXCEPT ![t] = S]
  /\ UNCHANGED <<arg, wait>>

Begin(t, first, a) ==
  /\ pc[t] = "idle"
  /\ pc' = [pc EXCEPT ![t] = first]
  /\ arg' = [arg EXCEPT ![t] = a]
  /\ UNCHANGED <<pos, cache, got, acked, abandoned, wait, age>>

-----------------------------------------------------------------------------
(* GET /deliveries                                                         *)

StartGet(t, k) == Begin(t, "get", k)

\* Redis has the key: its page is the answer.
CacheHit(t) ==
  /\ pc[t] = "get"
  /\ Cached(arg[t])
  /\ Finish(t)
  /\ UNCHANGED <<pos, cache, acked, abandoned, age>>

CacheMiss(t) ==
  /\ pc[t] = "get"
  /\ ~Cached(arg[t])
  /\ Continue(t, "read", {})
  /\ UNCHANGED <<pos, cache, acked, abandoned, age>>

\* Mutant of ReadPage: the query has lost its Skip and its Limit.
ReadPageUnpaged(t) ==
  /\ pc[t] = "read"
  /\ arg[t].kind # "tracking"
  /\ Continue(t, "save", {d \in Stored : Matches(arg[t], d)})
  /\ UNCHANGED <<pos, cache, acked, abandoned, age>>

\* A page is read even when it is empty, and will be saved.
ReadPage(t) ==
  /\ pc[t] = "read"
  /\ arg[t].kind # "tracking"
  /\ Continue(t, "save", Listing(arg[t]))
  /\ UNCHANGED <<pos, cache, acked, abandoned, age>>

\* A delivery that is not found is answered 404 and nothing is saved.
ReadTracking(t) ==
  /\ pc[t] = "read"
  /\ arg[t].kind = "tracking"
  /\ IF Listing(arg[t]) = {} THEN Finish(t) ELSE Continue(t, "save", Listing(arg[t]))
  /\ UNCHANGED <<pos, cache, acked, abandoned, age>>

\* SETEX: the page replaces what the key held and lives for a whole TTL.
Save(t) ==
  /\ pc[t] = "save"
  /\ cache' = [cache EXCEPT ![arg[t]] =
                 [ttl |-> Ttl(arg[t]), list |-> got[t], held |-> wait[t],
                  late |-> got[t] # Listing(arg[t])]]
  /\ Finish(t)
  /\ UNCHANGED <<pos, acked, abandoned, age>>

\* A call to Redis or MongoDB throws: the client gets 400 or 500.
ReadThrows(t) ==
  /\ pc[t] \in ReadSteps
  /\ Finish(t)
  /\ UNCHANGED <<pos, cache, acked, abandoned, age>>

GetDeliveries(t) ==
  \/ CacheHit(t)
  \/ CacheMiss(t)
  \/ ReadPage(t)
  \/ ReadTracking(t)
  \/ Save(t)
  \/ ReadThrows(t)

-----------------------------------------------------------------------------
(* POST /deliveries.  The id of a delivery is new, so no two tasks create  *)
(* the same one.                                                           *)

StartCreate(t, d) ==
  /\ pos[d] = 0
  /\ \A u \in Tasks : arg[u] # d
  /\ Begin(t, "insert", d)

Insertion(d) ==
  /\ pos' = [pos EXCEPT ![d] = Cardinality(Stored) + 1]
  /\ age' = [age EXCEPT ![d] = 0]

Insert(t) ==
  /\ pc[t] = "insert"
  /\ Insertion(arg[t])
  /\ Continue(t, "scanSender", {})
  /\ UNCHANGED <<cache, acked, abandoned>>

\* CreateDelivery refuses: 404 or 422, and the cache is left alone.
InsertRefused(t) ==
  /\ pc[t] = "insert"
  /\ Finish(t)
  /\ UNCHANGED <<pos, cache, acked, abandoned, age>>

\* MongoDB inserts the document but the call throws; CreateDelivery turns the
\* exception into CONSTRAINT_VIOLATION and the handler answers 422.
InsertUnconfirmed(t) ==
  /\ pc[t] = "insert"
  /\ Insertion(arg[t])
  /\ abandoned' = abandoned \cup {arg[t]}
  /\ Finish(t)
  /\ UNCHANGED <<cache, acked>>

\* SCAN with the pattern deliveries:sender:<sender_id>:*
ScanSender(t) ==
  /\ pc[t] = "scanSender"
  /\ Continue(t, "delSender",
       {k \in Asked : Cached(k) /\ k.kind = "sender" /\ k.owner = Sender[arg[t]]})
  /\ UNCHANGED <<pos, cache, acked, abandoned, age>>

DelSender(t) ==
  /\ pc[t] = "delSender"
  /\ cache' = Drop(got[t])
  /\ Continue(t, "scanReceiver", {})
  /\ UNCHANGED <<pos, acked, abandoned, age>>

\* Mutant of ScanReceiver: the pattern is built from the sender's id.
ScanReceiverOfSender(t) ==
  /\ pc[t] = "scanReceiver"
  /\ Continue(t, "delReceiver",
       {k \in Asked : Cached(k) /\ k.kind = "receiver" /\ k.owner = Sender[arg[t]]})
  /\ UNCHANGED <<pos, cache, acked, abandoned, age>>

ScanReceiver(t) ==
  /\ pc[t] = "scanReceiver"
  /\ Continue(t, "delReceiver",
       {k \in Asked : Cached(k) /\ k.kind = "receiver" /\ k.owner = Receiver[arg[t]]})
  /\ UNCHANGED <<pos, cache, acked, abandoned, age>>

DelReceiver(t) ==
  /\ pc[t] = "delReceiver"
  /\ cache' = Drop(got[t])
  /\ Continue(t, "reply", {})
  /\ UNCHANGED <<pos, acked, abandoned, age>>

\* The delivery is read back by its id and answered with 201.
Reply(t) ==
  /\ pc[t] = "reply"
  /\ acked' = acked \cup {arg[t]}
  /\ Finish(t)
  /\ UNCHANGED <<pos, cache, abandoned, age>>

\* A SCAN or a DEL throws (a DEL may have been executed): the client gets 500,
\* the document stays, and the remaining calls are not made.
InvalidateThrows(t) ==
  /\ pc[t] \in InvalidateSteps
  /\ \/ UNCHANGED cache
     \/ pc[t] \in {"delSender", "delReceiver"} /\ cache' = Drop(got[t])
  /\ abandoned' = abandoned \cup {arg[t]}
  /\ Finish(t)
  /\ UNCHANGED <<pos, acked, age>>

\* Reading the delivery back throws: 500 although everything was done.
ReplyThrows(t) ==
  /\ pc[t] = "reply"
  /\ Finish(t)
  /\ UNCHANGED <<pos, cache, acked, abandoned, age>>

CreateDelivery(t) ==
  \/ Insert(t)
  \/ InsertRefused(t)
  \/ InsertUnconfirmed(t)
  \/ ScanSender(t)
  \/ DelSender(t)
  \/ ScanReceiver(t)
  \/ DelReceiver(t)
  \/ Reply(t)
  \/ InvalidateThrows(t)
  \/ ReplyThrows(t)

-----------------------------------------------------------------------------
(* The surroundings: the service dies and is started again (MongoDB and    *)
(* Redis keep their data), and time passes.                                *)

\* Mutant of Crash: what the tasks were working on outlives the process.
CrashKeepsArguments ==
  /\ \E t \in Tasks : pc[t] # "idle"
  /\ pc' = [t \in Tasks |-> "idle"]
  /\ UNCHANGED <<pos, cache, arg, got, acked, abandoned, wait, age>>

Crash ==
  /\ \E t \in Tasks : pc[t] # "idle"
  /\ abandoned' = abandoned \cup {arg[t] : t \in {u \in Tasks : pc[u] \in InvalidateSteps}}
  /\ pc' = [t \in Tasks |-> "idle"]
  /\ arg' = [t \in Tasks |-> None]
  /\ got' = [t \in Tasks |-> {}]
  /\ wait' = [t \in Tasks |-> 0]
  /\ UNCHANGED <<pos, cache, acked, age>>

\* Mutant of Expire: the pages are stored by SET, without a TTL.
ExpireNever(e) == e

\* Redis removes a key whose time is up.
Expire(e) == IF e.ttl <= 1 THEN NoEntry ELSE [e EXCEPT !.ttl = @ - 1]

Tick ==
  /\ \A t \in Tasks : pc[t] = "save" => wait[t] < MaxHold
  /\ cache' = [k \in Asked |-> Expire(cache[k])]
  /\ wait' = [t \in Tasks |-> IF pc[t] = "save" THEN wait[t] + 1 ELSE wait[t]]
  /\ age' = [d \in Deliveries |->
               IF pos[d] > 0 /\ age[d] < MaxAge THEN age[d] + 1 ELSE age[d]]
  /\ UNCHANGED <<pos, pc, arg, got, acked, abandoned>>

Next ==
  \/ \E t \in Tasks :
       \/ \E k \in Asked : StartGet(t, k)
       \/ \E d \in Deliveries : StartCreate(t, d)
       \/ GetDeliveries(t)
       \/ CreateDelivery(t)
  \/ Crash
  \/ Tick

Spec == Init /\ [][Next]_vars

\* The framework runs every task it has accepted to its end, and Redis counts
\* down its keys.
Fairness ==
  /\ \A t \in Tasks : WF_vars(GetDeliveries(t) \/ CreateDelivery(t))
  /\ WF_vars(Tick)

FairSpec == Spec /\ Fairness

-----------------------------------------------------------------------------
(* Properties                                                              *)

TypeOK ==
  /\ pos \in [Deliveries -> Nat]
  /\ cache \in [Asked -> Entry]
  /\ pc \in [Tasks -> {"idle"} \cup ReadSteps \cup CreateSteps]
  /\ arg \in [Tasks -> Asked \cup Deliveries \cup {None}]
  /\ got \in [Tasks -> SUBSET (Asked \cup Deliveries)]
  /\ \A t \in Tasks :
       /\ pc[t] = "idle" => arg[t] = None /\ got[t] = {}
       /\ pc[t] \in ReadSteps => arg[t] \in Asked /\ got[t] \subseteq Deliveries
       /\ pc[t] \in CreateSteps => arg[t] \in Deliveries /\ got[t] \subseteq Asked
  /\ acked \subseteq Deliveries
  /\ abandoned \subseteq Deliveries
  /\ wait \in [Tasks -> 0..MaxHold]
  /\ age \in [Deliveries -> 0..MaxAge]

\* The entry under k no longer is what MongoDB would answer.
Stale(k) == Cached(k) /\ cache[k].list # Listing(k)

\* The create run by t has inserted d and will still remove the entry under k:
\* its SCAN of k's kind is to come, or found k and the DEL is to come.
WillDrop(t, d, k) ==
  /\ arg[t] = d
  /\ \/ /\ k.kind = "sender"
        /\ pc[t] = "scanSender" \/ (pc[t] = "delSender" /\ k \in got[t])
     \/ /\ k.kind = "receiver"
        /\ \/ pc[t] \in {"scanSender", "delSender", "scanReceiver"}
           \/ pc[t] = "delReceiver" /\ k \in got[t]

\* Every stale page of the cache has one of three causes: the task that saved it
\* had read MongoDB before a create and reached Redis after it, a create of one
\* of its deliveries broke off before its DELs, or such a create is about to
\* remove it.  In particular a completed create with no reader in flight leaves
\* no stale page.  (get_deliveries_handler.cpp 118-192, create_delivery 66-67)
StaleIsExplained ==
  \A k \in Asked : Stale(k) =>
    \/ cache[k].late
    \/ \E d \in Stored : Matches(k, d) /\
         (d \in abandoned \/ \E t \in Tasks : WillDrop(t, d, k))

\* Whatever a page in the cache or in the hands of a reader holds, it is the
\* answer MongoDB gave at some moment: the page over the first n documents.
SnapshotOf(k, list) ==
  \E n \in 0..Cardinality(Stored) : list = PageOf(k, {d \in Stored : pos[d] <= n})

\* No interleaving puts another user's page, a phantom delivery or a page with a
\* hole under a key.
CachedPagesAreSnapshots ==
  \A k \in Asked : Cached(k) => SnapshotOf(k, cache[k].list)

\* A page that lacks a delivery it should show was read before the insert, so it
\* is gone at the latest a TTL after it was saved, and it was saved at most as
\* late as its task was slow: staleness is bounded by TTL plus that delay.
StalenessIsBounded ==
  \A k \in Asked : \A d \in Listing(k) :
    Cached(k) /\ d \notin cache[k].list => age[d] <= Ttl(k) - cache[k].ttl + cache[k].held

\* A page under a key is replaced by an older one only by a task that reached
\* Redis late; otherwise a client never sees a delivery disappear from its list.
PagesOnlyGrow ==
  [][\A k \in Asked :
       Cached(k) /\ cache'[k].ttl > 0 /\ ~cache'[k].late
         => cache[k].list \subseteq cache'[k].list]_vars

\* When no more deliveries are created the cache becomes right and stays right,
\* whatever threw, broke off or came late: the TTL repairs it.
EventuallyFresh == <>[](\A k \in Asked : ~Stale(k))

\* What performance_design.md promises of a successful POST /deliveries: the
\* pages of its sender and of its receiver have been removed, so none of them
\* lacks the delivery.
SuccessInvalidates ==
  \A d \in acked : \A k \in Asked :
    Cached(k) /\ d \in Listing(k) => d \in cache[k].list

=============================================================================
