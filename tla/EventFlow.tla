------------------------------ MODULE EventFlow ------------------------------
(***************************************************************************)
(* lr-6's events: DeliveryEventProducer publishes what a handler has       *)
(* written, without publisher confirms and without telling the handler     *)
(* when it failed; RabbitMQ keeps the events in a queue that only the      *)
(* start of the service declares; DeliveryEventConsumer processes up to    *)
(* Prefetch of them at a time and writes a line to the log for each.       *)
(* ReadDatabase offers the methods that would follow the events.           *)
(*                                                                         *)
(* At this commit the handlers do not call the producer and the consumer   *)
(* does not call the read database (create_user_handler.cpp and main.cpp   *)
(* have the calls and the components commented out).  The handlers here    *)
(* call the producer where the commented call stands, after the write, and *)
(* "replica" and "readDb" are fed by a caller that makes the call each     *)
(* event is for: replica from every accepted event, in order and once,     *)
(* readDb in any order and any number of times.                            *)
(***************************************************************************)
EXTENDS ReadDatabase

CONSTANTS
  UserOf,      \* UserOf[u]: login and name of user u
  SenderOf,    \* SenderOf[p]: the sender of parcel p
  DeliveryOf,  \* DeliveryOf[d]: what delivery d is created with
  Statuses,    \* statuses a delivery is changed to
  Prefetch,    \* messages the consumer holds unacknowledged at most
  MaxWrites,   \* bound: writes made
  MaxUpdates,  \* bound: calls that feed readDb
  MaxRestarts  \* bound: restarts of the service and of the broker

ASSUME BoundsAssumption ==
  /\ Prefetch \in Nat /\ MaxWrites \in Nat /\ MaxUpdates \in Nat /\ MaxRestarts \in Nat

VARIABLES
  written,     \* the write side: users, parcels, and the state of each delivery
  writes,      \* writes made
  outbox,      \* events of handlers that have written and not yet published
  bound,       \* the queue exists and is bound to the exchange
  events,      \* every event the broker accepted, in its order
  place,       \* place[i]: where events[i] is
  logged,      \* events the consumer wrote a line for
  replica,     \* a read database fed with every accepted event once
  disturbed,   \* history: deliveries with an event lost or out of order
  readDb,      \* the read database of the service
  updates,     \* calls that have fed it
  restarts

vars == <<written, writes, outbox, bound, events, place, logged, replica,
          disturbed, readDb, updates, restarts>>

-----------------------------------------------------------------------------
(* The payloads DeliveryEventProducer builds.                              *)

Event(type, payload) == [event_type |-> type, payload |-> payload]

UserRegistered(u) ==
  Event("user.registered",
        [user_id |-> u, login |-> UserOf[u].login, name |-> UserOf[u].name])

ParcelCreated(p) ==
  Event("parcel.created", [id |-> p, sender_id |-> SenderOf[p], status |-> "created"])

\* There is no created_at and there are no events in it.
DeliveryCreated(d) ==
  Event("delivery.created",
        [id |-> d, sender_id |-> DeliveryOf[d].sender_id,
         receiver_id |-> DeliveryOf[d].receiver_id,
         tracking_number |-> DeliveryOf[d].tracking_number, status |-> "pending"])

\* Mutant of DeliveryStatusChanged: the statuses are swapped.
DeliveryStatusChangedSwapped(d, old, new) ==
  Event("delivery.status_changed",
        [delivery_id |-> d, old_status |-> new, new_status |-> old])

DeliveryStatusChanged(d, old, new) ==
  Event("delivery.status_changed",
        [delivery_id |-> d, old_status |-> old, new_status |-> new])

\* The delivery an event is about, None if it is not about one.
About(e) ==
  IF e.event_type = "delivery.created" THEN e.payload.id
  ELSE IF e.event_type = "delivery.status_changed" THEN e.payload.delivery_id
  ELSE None

\* The DTO a caller makes of the payload of DeliveryCreated.
DeliveryDto(p) ==
  [id |-> p.id, sender_id |-> p.sender_id, receiver_id |-> p.receiver_id,
   tracking_number |-> p.tracking_number, status |-> p.status,
   created_at |-> 0, delivered_at |-> None]

\* The call to the read database that an event is for.  A payload carries no
\* password hash, and no created_at of a delivery.
Apply(db, e) ==
  LET p == e.payload
  IN  CASE e.event_type = "user.registered" -> OnUserCreated(db, p.user_id, p, None)
        [] e.event_type = "parcel.created"  -> OnParcelCreated(db, p.id, [sender |-> p.sender_id])
        [] e.event_type = "delivery.created" -> OnDeliveryCreated(db, DeliveryDto(p))
        [] OTHER -> OnDeliveryStatusChanged(db, p.delivery_id, p.new_status)

-----------------------------------------------------------------------------
(* What the entries of the write side and of a read database look like.    *)

DeliveryStates == [status : Statuses \cup {"pending"}, delivered_at : BOOLEAN]

UserEntries ==
  [login : Logins, name : {UserOf[u].name : u \in UserIds}, hash : {None}, created_at : Nat]

ParcelEntries == [sender : {SenderOf[p] : p \in ParcelIds}, created_at : Nat]

DeliveryDtos ==
  [id : DeliveryIds, sender_id : {DeliveryOf[d].sender_id : d \in DeliveryIds},
   receiver_id : {DeliveryOf[d].receiver_id : d \in DeliveryIds}, tracking_number : Trackings,
   status : Statuses \cup {"pending"}, created_at : {0},
   delivered_at : Nat \cup {None}]

Databases ==
  [users : [UserIds -> UserEntries \cup {None}],
   loginIndex : [Logins -> UserIds \cup {None}],
   parcels : [ParcelIds -> ParcelEntries \cup {None}],
   deliveries : [DeliveryIds -> DeliveryDtos \cup {None}],
   trackingToId : [Trackings -> DeliveryIds \cup {None}],
   now : Nat]

\* UNIQUE of users.login, and the unique index on tracking_number.
ASSUME SchemaAssumption ==
  /\ \A u \in UserIds : UserOf[u].login \in Logins
  /\ \A u, v \in UserIds : UserOf[u].login = UserOf[v].login => u = v
  /\ \A d \in DeliveryIds : DeliveryOf[d].tracking_number \in Trackings
  /\ \A d, e \in DeliveryIds :
       DeliveryOf[d].tracking_number = DeliveryOf[e].tracking_number => d = e

ASSUME NameAssumption == \A u \in UserIds : UserOf[u].name \in Seq(Letters)

ASSUME NoneAssumption ==
  None \notin UserIds \cup DeliveryIds \cup UserEntries \cup ParcelEntries \cup DeliveryDtos
                \cup DeliveryStates \cup Nat

-----------------------------------------------------------------------------
Init ==
  /\ written = [users |-> {}, parcels |-> {}, deliveries |-> [d \in DeliveryIds |-> None]]
  /\ writes = 0
  /\ outbox = <<>>
  /\ bound \in BOOLEAN
  /\ events = <<>>
  /\ place = <<>>
  /\ logged = {}
  /\ replica = EmptyDatabase
  /\ disturbed = {}
  /\ readDb = EmptyDatabase
  /\ updates = 0
  /\ restarts = 0

\* A handler has written to PostgreSQL or MongoDB and is about to publish e.
Write(e) ==
  /\ writes < MaxWrites
  /\ writes' = writes + 1
  /\ outbox' = Append(outbox, e)
  /\ UNCHANGED <<bound, events, place, logged, replica, disturbed, readDb, updates, restarts>>

RegisterUser(u) ==
  /\ u \notin written.users
  /\ written' = [written EXCEPT !.users = @ \cup {u}]
  /\ Write(UserRegistered(u))

CreateParcel(p) ==
  /\ p \notin written.parcels
  /\ written' = [written EXCEPT !.parcels = @ \cup {p}]
  /\ Write(ParcelCreated(p))

CreateDelivery(d) ==
  /\ written.deliveries[d] = None
  /\ written' = [written EXCEPT !.deliveries[d] = [status |-> "pending", delivered_at |-> FALSE]]
  /\ Write(DeliveryCreated(d))

ChangeStatus(d, s) ==
  /\ written.deliveries[d] # None
  /\ written' = [written EXCEPT !.deliveries[d] =
                   [status |-> s, delivered_at |-> s = "delivered" \/ @.delivered_at]]
  /\ Write(DeliveryStatusChanged(d, written.deliveries[d].status, s))

\* Deliveries of outbox events, but for the one of index i.
Waiting(i) == {About(outbox[j]) : j \in 1 .. i - 1} \ {None}

\* Publish reaches the broker, and the exchange finds the queue.
PublishEvent(i) ==
  /\ bound
  /\ outbox' = RemoveAt(outbox, i)
  /\ events' = Append(events, outbox[i])
  /\ place' = Append(place, "queued")
  /\ replica' = Apply(replica, outbox[i])
  /\ disturbed' = disturbed \cup ({About(outbox[i])} \cap Waiting(i))
  /\ UNCHANGED <<written, writes, bound, logged, readDb, updates, restarts>>

\* Publish throws and the exception is swallowed, or nothing is bound and the
\* exchange drops the message; the handler answers as if it had been sent.
LoseEvent(i) ==
  /\ outbox' = RemoveAt(outbox, i)
  /\ disturbed' = disturbed \cup ({About(outbox[i])} \ {None})
  /\ UNCHANGED <<written, writes, bound, events, place, logged, replica, readDb,
                 updates, restarts>>

-----------------------------------------------------------------------------
(* The consumer.  A message is acknowledged once Process has returned.     *)

HandleUserRegistered(payload) == "login" \in DOMAIN payload
HandleParcelCreated(payload) == {"id", "sender_id"} \subseteq DOMAIN payload
HandleDeliveryCreated(payload) == {"id", "tracking_number"} \subseteq DOMAIN payload

\* Mutant of HandleDeliveryStatusChanged: reads "status", which no payload has.
HandleDeliveryStatusChangedOther(payload) ==
  {"delivery_id", "old_status", "status"} \subseteq DOMAIN payload

HandleDeliveryStatusChanged(payload) ==
  {"delivery_id", "old_status", "new_status"} \subseteq DOMAIN payload

\* Whether the handler of an event gets to its line of the log: its type is
\* known and no field it reads is missing.
Understood(e) ==
  \/ e.event_type = "user.registered" /\ HandleUserRegistered(e.payload)
  \/ e.event_type = "parcel.created" /\ HandleParcelCreated(e.payload)
  \/ e.event_type = "delivery.created" /\ HandleDeliveryCreated(e.payload)
  \/ e.event_type = "delivery.status_changed" /\ HandleDeliveryStatusChanged(e.payload)

At(where) == {i \in DOMAIN place : place[i] = where}

\* Mutant of Deliver: the consumer takes whatever there is.
DeliverUnlimited(i) ==
  /\ i \in At("queued")
  /\ \A j \in At("queued") : i <= j
  /\ place' = [place EXCEPT ![i] = "unacked"]
  /\ UNCHANGED <<written, writes, outbox, bound, events, logged, replica, disturbed,
                 readDb, updates, restarts>>

\* The broker hands out its oldest message.
Deliver(i) ==
  /\ i \in At("queued")
  /\ \A j \in At("queued") : i <= j
  /\ Cardinality(At("unacked") \cup At("processed")) < Prefetch
  /\ place' = [place EXCEPT ![i] = "unacked"]
  /\ UNCHANGED <<written, writes, outbox, bound, events, logged, replica, disturbed,
                 readDb, updates, restarts>>

\* Whatever a handler throws is caught and logged as an error.
Process(i) ==
  /\ i \in At("unacked")
  /\ logged' = IF Understood(events[i]) THEN logged \cup {i} ELSE logged
  /\ place' = [place EXCEPT ![i] = "processed"]
  /\ UNCHANGED <<written, writes, outbox, bound, events, replica, disturbed, readDb,
                 updates, restarts>>

\* Mutant of Acknowledge: Process throws at a status change, which sends it back.
AcknowledgeOrRequeue(i) ==
  /\ i \in At("processed")
  /\ place' = [place EXCEPT ![i] =
                 IF events[i].event_type = "delivery.status_changed" THEN "queued" ELSE "acked"]
  /\ UNCHANGED <<written, writes, outbox, bound, events, logged, replica, disturbed,
                 readDb, updates, restarts>>

Acknowledge(i) ==
  /\ i \in At("processed")
  /\ place' = [place EXCEPT ![i] = "acked"]
  /\ UNCHANGED <<written, writes, outbox, bound, events, logged, replica, disturbed,
                 readDb, updates, restarts>>

\* A caller feeds the read database with an event it has seen.
Update(i) ==
  /\ updates < MaxUpdates
  /\ updates' = updates + 1
  /\ readDb' = Apply(readDb, events[i])
  /\ UNCHANGED <<written, writes, outbox, bound, events, place, logged, replica,
                 disturbed, restarts>>

-----------------------------------------------------------------------------
\* The service dies and starts: its tasks and the read database are gone, the
\* broker takes unacknowledged messages back, and the producer declares the
\* queue again or fails to, of which only the log tells.
ServiceRestart ==
  /\ restarts < MaxRestarts
  /\ restarts' = restarts + 1
  /\ bound' \in {bound, TRUE}
  /\ outbox' = <<>>
  /\ disturbed' = disturbed \cup ({About(outbox[i]) : i \in DOMAIN outbox} \ {None})
  /\ readDb' = EmptyDatabase
  /\ place' = [i \in DOMAIN place |->
                 IF place[i] \in {"unacked", "processed"} THEN "queued" ELSE place[i]]
  /\ UNCHANGED <<written, writes, events, logged, replica, updates>>

\* The queue and its messages are not durable, and nothing declares them again.
BrokerRestart ==
  /\ restarts < MaxRestarts
  /\ restarts' = restarts + 1
  /\ bound' = FALSE
  /\ place' = [i \in DOMAIN place |-> IF place[i] = "acked" THEN "acked" ELSE "gone"]
  /\ UNCHANGED <<written, writes, outbox, events, logged, replica, disturbed, readDb,
                 updates>>

Next ==
  \/ \E u \in UserIds : RegisterUser(u)
  \/ \E p \in ParcelIds : CreateParcel(p)
  \/ \E d \in DeliveryIds : CreateDelivery(d)
  \/ \E d \in DeliveryIds, s \in Statuses : ChangeStatus(d, s)
  \/ \E i \in DOMAIN outbox : PublishEvent(i)
  \/ \E i \in DOMAIN outbox : LoseEvent(i)
  \/ \E i \in DOMAIN place : Deliver(i)
  \/ \E i \in DOMAIN place : Process(i)
  \/ \E i \in DOMAIN place : Acknowledge(i)
  \/ \E i \in DOMAIN events : Update(i)
  \/ ServiceRestart
  \/ BrokerRestart

\* As long as a message can move on, one does: the broker, the consumer's tasks
\* and the client library that acknowledges wait for nothing another task holds.
Consumption ==
  WF_vars(\E i \in DOMAIN place : Deliver(i) \/ Process(i) \/ Acknowledge(i))

Spec == Init /\ [][Next]_vars
FairSpec == Spec /\ Consumption

-----------------------------------------------------------------------------
Events ==
  {UserRegistered(u) : u \in UserIds} \cup {ParcelCreated(p) : p \in ParcelIds}
    \cup {DeliveryCreated(d) : d \in DeliveryIds}
    \cup {DeliveryStatusChanged(d, old, new) :
             d \in DeliveryIds, old \in Statuses \cup {"pending"}, new \in Statuses}

Places == {"queued", "unacked", "processed", "acked", "gone"}

\* Type invariant; the consumer never holds more than Prefetch messages.
TypeOK ==
  /\ written.users \subseteq UserIds
  /\ written.parcels \subseteq ParcelIds
  /\ written.deliveries \in [DeliveryIds -> DeliveryStates \cup {None}]
  /\ outbox \in Seq(Events)
  /\ events \in Seq(Events)
  /\ place \in Seq(Places)
  /\ Len(place) = Len(events)
  /\ bound \in BOOLEAN
  /\ logged \subseteq DOMAIN events
  /\ disturbed \subseteq DeliveryIds
  /\ replica \in Databases
  /\ readDb \in Databases
  /\ writes \in 0 .. MaxWrites
  /\ updates \in 0 .. MaxUpdates
  /\ restarts \in 0 .. MaxRestarts
  /\ Cardinality(At("unacked") \cup At("processed")) <= Prefetch

\* What the producer publishes, the consumer understands: although Process
\* swallows every exception and every message is acknowledged, no event is
\* acknowledged whose handler did not get to its end, over restarts of the
\* service and of the broker.
AckedIsHandled == At("acked") \subseteq logged

\* The events say enough to rebuild the deliveries: a read database fed with
\* the accepted events in order has the status of the write side and knows
\* whether the delivery was ever delivered (when, it takes from its own clock),
\* unless an event of the delivery was lost, published out of order, or is still
\* to be published.
ReplicaFollows ==
  \A d \in DeliveryIds :
    \/ d \in disturbed
    \/ \E i \in DOMAIN outbox : About(outbox[i]) = d
    \/ written.deliveries[d] = None /\ GetDeliveryById(replica, d) = None
    \/ /\ written.deliveries[d] # None
       /\ GetDeliveryById(replica, d) # None
       /\ GetDeliveryById(replica, d).status = written.deliveries[d].status
       /\ (GetDeliveryById(replica, d).delivered_at # None) = written.deliveries[d].delivered_at
       /\ GetDeliveryById(replica, d).tracking_number = DeliveryOf[d].tracking_number

\* Whether a later event is about the same delivery, or puts a parcel of the
\* same sender in front of the one of e.
Overtakes(later, e) ==
  \/ About(e) # None /\ About(later) = About(e)
  \/ /\ e.event_type = "parcel.created"
     /\ later.event_type = "parcel.created"
     /\ later.payload.sender_id = e.payload.sender_id

\* What the readers return with the entries, the times apart: what they are
\* found by and the order in which the parcels of a sender are listed.
Unstamped(db) ==
  [users |-> [u \in UserIds |->
                IF db.users[u] = None THEN None ELSE [db.users[u] EXCEPT !.created_at = None]],
   loginIndex |-> db.loginIndex,
   parcels |-> [s \in {SenderOf[p] : p \in ParcelIds} |->
                  GetParcelsBySender(db, s, Cardinality(ParcelIds), 1)],
   deliveries |-> [d \in DeliveryIds |->
                     IF db.deliveries[d] = None THEN None
                     ELSE [db.deliveries[d] EXCEPT !.delivered_at = @ # None]],
   trackingToId |-> db.trackingToId]

\* The times that the readers return with the entries.
UserStamp(db, u) ==
  IF GetUserById(db, u) = None THEN None ELSE GetUserById(db, u).created_at

ParcelStamp(db, p) ==
  IF GetParcelById(db, p) = None THEN None ELSE GetParcelById(db, p).created_at

DeliveryStamp(db, d) ==
  IF GetDeliveryById(db, d) = None THEN None ELSE GetDeliveryById(db, d).delivered_at

\* From one database to another no time has changed but that of what e is about,
\* and that one to a later one.
OnlyRestamped(before, after, e) ==
  /\ \A u \in UserIds :
       \/ UserStamp(after, u) = UserStamp(before, u)
       \/ e = UserRegistered(u) /\ UserStamp(after, u) > UserStamp(before, u)
  /\ \A p \in ParcelIds :
       \/ ParcelStamp(after, p) = ParcelStamp(before, p)
       \/ e = ParcelCreated(p) /\ ParcelStamp(after, p) > ParcelStamp(before, p)
  /\ \A d \in DeliveryIds :
       \/ DeliveryStamp(after, d) = DeliveryStamp(before, d)
       \/ /\ e.event_type = "delivery.status_changed"
          /\ e.payload.delivery_id = d /\ e.payload.new_status = "delivered"
          /\ DeliveryStamp(after, d) > DeliveryStamp(before, d)

\* A second delivery of an event adds nothing, drops nothing and moves nothing
\* in a list, unless a related event came in between: a repeated creation resets
\* a delivery, a repeated change sets the status back, and a repeated parcel
\* moves to the front.  It is not invisible: the update takes the time again, so
\* that readers then see a user or a parcel created, or a delivery delivered, as
\* late as the event was handed out again; no other time changes.
\* (read_database_component.cpp 31-105)
RedeliveryOnlyRestamps ==
  \A i \in DOMAIN events :
    \/ /\ Unstamped(Apply(replica, events[i])) = Unstamped(replica)
       /\ OnlyRestamped(replica, Apply(replica, events[i]), events[i])
    \/ \E j \in i + 1 .. Len(events) : Overtakes(events[j], events[i])

\* x is an element of exactly one of the pages.
OnOnePage(x, pages) == Cardinality({k \in DOMAIN pages : x \in Range(pages[k])}) = 1

\* The pages that a client gets who turns them as long as there may be more: of
\* one user each, and of n parcels or deliveries.
UserPages(db) ==
  [k \in 0 .. Cardinality(UserIds) |-> SearchUsersByNameMask(db, <<Star>>, k + 1, k + 1)]

ParcelPages(db, sender, n) ==
  [k \in 0 .. Cardinality(ParcelIds) |-> GetParcelsBySender(db, sender, k * n + n, k * n + 1)]

SentPages(db, sender, n) ==
  [k \in 0 .. Cardinality(DeliveryIds) |->
     GetDeliveriesBySender(db, sender, k * n + n, k * n + 1)]

ReceivedPages(db, receiver, n) ==
  [k \in 0 .. Cardinality(DeliveryIds) |->
     GetDeliveriesByReceiver(db, receiver, k * n + n, k * n + 1)]

\* The indexes agree with the maps, whatever calls fed a database, in whatever
\* order and however often: what is in a map is what a look-up by login, by
\* tracking number or by credentials finds.  (read_database_component.cpp 31-105)
IndexesAgree ==
  \A db \in {readDb, replica} :
    /\ \A u \in UserIds : GetUserById(db, u) # None =>
         /\ GetUserByLogin(db, UserOf[u].login, 1, 1) = GetUserById(db, u)
         /\ VerifyCredentials(db, UserOf[u].login, GetUserById(db, u).hash) = u
    /\ \A d \in DeliveryIds : GetDeliveryById(db, d) # None =>
         GetDeliveryByTrackingNumber(db, DeliveryOf[d].tracking_number) = GetDeliveryById(db, d)

\* Whatever calls fed a database, in whatever order: look-ups find every entry,
\* and a client that turns the pages of a list meets every entry exactly once,
\* whatever the size of the page.
EveryEntryIsFound ==
  /\ IndexesAgree
  /\ \A db \in {readDb, replica} :
       /\ \A u \in UserIds : GetUserById(db, u) # None => OnOnePage(u, UserPages(db))
       /\ \A p \in ParcelIds, n \in 1 .. 2 : GetParcelById(db, p) # None =>
            OnOnePage(p, ParcelPages(db, SenderOf[p], n))
       /\ \A d \in DeliveryIds, n \in 1 .. 2 : GetDeliveryById(db, d) # None =>
            /\ OnOnePage(d, SentPages(db, DeliveryOf[d].sender_id, n))
            /\ OnOnePage(d, ReceivedPages(db, DeliveryOf[d].receiver_id, n))

\* Nothing goes round for ever: once writing stops, every event that the broker
\* accepted is handled or was lost with the broker, and the queue stays empty.
QueueDrains == <>[](DOMAIN place = At("acked") \cup At("gone"))

=============================================================================
