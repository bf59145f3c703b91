--------------------------- MODULE EventFlowProofs ---------------------------
(***************************************************************************)
(* Proofs about EventFlow: typing with the bound on what the consumer      *)
(* holds, that no event is acknowledged that its handler did not get to    *)
(* the end of, that a replica fed with the accepted events follows the     *)
(* write side, that the read databases find every entry, by its index and  *)
(* on one page of its lists, and that handing an event out again moves     *)
(* times on and changes nothing else unless a related one came in between. *)
(***************************************************************************)
EXTENDS EventFlow, FiniteSetTheorems, SequenceTheorems, TLAPS

\* The consumer wrote its line for everything that it has processed.
ProcessedIsLogged == At("processed") \cup At("acked") \subseteq logged

\* What the consumer holds.
Held == At("unacked") \cup At("processed")

\* An entry is found under the key its index has for it.
Indexed(db) ==
  /\ \A u \in UserIds : db.users[u] # None => db.loginIndex[UserOf[u].login] = u
  /\ \A d \in DeliveryIds : db.deliveries[d] # None =>
       db.trackingToId[DeliveryOf[d].tracking_number] = d

IInv == TypeOK /\ ProcessedIsLogged /\ Indexed(replica) /\ Indexed(readDb)

USE BoundsAssumption

-----------------------------------------------------------------------------
(* Sequences and sets of places.                                           *)

\* A handler that publishes takes one event out of the outbox.
LEMMA RemoveAtType ==
  ASSUME NEW S, NEW s \in Seq(S), NEW i \in DOMAIN s
  PROVE  RemoveAt(s, i) \in Seq(S)
<1>1. i \in 1 .. Len(s) /\ Len(s) \in Nat
  BY LenProperties
<1>2. SubSeq(s, 1, i - 1) \in Seq(S) /\ SubSeq(s, i + 1, Len(s)) \in Seq(S)
  BY <1>1, ElementOfSeq, SubSeqProperties
<1> QED
  BY <1>2, ConcatProperties DEF RemoveAt

LEMMA HeldFinite ==
  ASSUME place \in Seq(Places)
  PROVE  IsFiniteSet(Held)
<1>1. Held \subseteq 1 .. Len(place)
  BY LenProperties DEF Held, At
<1>2. Len(place) \in Nat
  BY LenProperties
<1>3. IsFiniteSet(1 .. Len(place))
  BY <1>2, FS_Interval
<1> QED
  BY <1>1, <1>3, FS_Subset

\* Every event is understood by its handler.
LEMMA EventsUnderstood ==
  ASSUME NEW e \in Events
  PROVE  Understood(e)
BY DEF Events, Understood, Event, UserRegistered, ParcelCreated, DeliveryCreated,
       DeliveryStatusChanged, HandleUserRegistered, HandleParcelCreated,
       HandleDeliveryCreated, HandleDeliveryStatusChanged

LEMMA AboutType ==
  ASSUME NEW e \in Events
  PROVE  About(e) \in DeliveryIds \cup {None}
BY DEF Events, About, Event, UserRegistered, ParcelCreated, DeliveryCreated,
       DeliveryStatusChanged

-----------------------------------------------------------------------------
(* The read databases.                                                     *)

LEMMA EmptyDatabaseType == EmptyDatabase \in Databases /\ Indexed(EmptyDatabase)
BY DEF EmptyDatabase, Databases, Indexed

\* What the maps hold of a user and of a new delivery.
UserEntry(u, time) ==
  [login |-> UserOf[u].login, name |-> UserOf[u].name, hash |-> None, created_at |-> time]

NewDto(d) == DeliveryDto(DeliveryCreated(d).payload)

\* A registered user is entered under the id and the login, with the time.
LEMMA UserApplied ==
  ASSUME NEW db \in Databases, NEW u \in UserIds
  PROVE  \E entry \in UserEntries :
           /\ entry = UserEntry(u, db.now)
           /\ Apply(db, UserRegistered(u)) =
                [db EXCEPT !.users = [@ EXCEPT ![u] = entry],
                           !.loginIndex = [@ EXCEPT ![UserOf[u].login] = u], !.now = @ + 1]
<1> USE SchemaAssumption
<1> DEFINE l == UserOf[u].login
           entry == [login |-> l, name |-> UserOf[u].name, hash |-> None, created_at |-> db.now]
<1>1. Apply(db, UserRegistered(u)) =
        [db EXCEPT !.users[u] = entry, !.loginIndex[l] = u, !.now = @ + 1]
  BY DEF Apply, UserRegistered, Event, OnUserCreated
<1>2. entry \in UserEntries
  BY DEF UserEntries, Databases
<1>4. entry = UserEntry(u, db.now)
  BY DEF UserEntry
<1> HIDE DEF entry, l
<1>3. Apply(db, UserRegistered(u)) =
        [db EXCEPT !.users = [@ EXCEPT ![u] = entry],
                   !.loginIndex = [@ EXCEPT ![l] = u], !.now = @ + 1]
  BY <1>1 DEF Databases
<1> QED
  BY <1>2, <1>3, <1>4 DEF l

LEMMA ParcelApplied ==
  ASSUME NEW db \in Databases, NEW p \in ParcelIds
  PROVE  \E entry \in ParcelEntries :
           /\ entry = [sender |-> SenderOf[p], created_at |-> db.now]
           /\ Apply(db, ParcelCreated(p)) =
                [db EXCEPT !.parcels = [@ EXCEPT ![p] = entry], !.now = @ + 1]
<1> DEFINE entry == [sender |-> SenderOf[p], created_at |-> db.now]
<1>1. Apply(db, ParcelCreated(p)) = [db EXCEPT !.parcels[p] = entry, !.now = @ + 1]
  BY DEF Apply, ParcelCreated, Event, OnParcelCreated
<1>2. entry \in ParcelEntries
  BY DEF ParcelEntries, Databases
<1>3. entry = [sender |-> SenderOf[p], created_at |-> db.now]
  OBVIOUS
<1> HIDE DEF entry
<1> QED
  BY <1>1, <1>2, <1>3 DEF Databases

\* A created delivery is entered under its id and its tracking number.
LEMMA DeliveryApplied ==
  ASSUME NEW db \in Databases, NEW d \in DeliveryIds
  PROVE  /\ NewDto(d) \in DeliveryDtos
         /\ NewDto(d).status = "pending" /\ NewDto(d).delivered_at = None
         /\ NewDto(d).tracking_number = DeliveryOf[d].tracking_number
         /\ NewDto(d).sender_id = DeliveryOf[d].sender_id
         /\ NewDto(d).receiver_id = DeliveryOf[d].receiver_id
         /\ Apply(db, DeliveryCreated(d)) =
              [db EXCEPT !.deliveries = [@ EXCEPT ![d] = NewDto(d)],
                         !.trackingToId = [@ EXCEPT ![DeliveryOf[d].tracking_number] = d]]
<1> USE SchemaAssumption
<1> DEFINE n == DeliveryOf[d].tracking_number
           dto == NewDto(d)
<1>1. /\ dto \in DeliveryDtos /\ dto.id = d /\ dto.tracking_number = n
      /\ dto.status = "pending" /\ dto.delivered_at = None
      /\ dto.sender_id = DeliveryOf[d].sender_id
      /\ dto.receiver_id = DeliveryOf[d].receiver_id
  BY DEF NewDto, DeliveryDto, DeliveryDtos, DeliveryCreated, Event
<1>2. Apply(db, DeliveryCreated(d)) = OnDeliveryCreated(db, dto)
  BY DEF Apply, NewDto, DeliveryCreated, Event
<1> HIDE DEF dto, n
<1>3. Apply(db, DeliveryCreated(d)) = [db EXCEPT !.deliveries[d] = dto, !.trackingToId[n] = d]
  BY <1>1, <1>2 DEF OnDeliveryCreated
<1>4. Apply(db, DeliveryCreated(d)) = [db EXCEPT !.deliveries = [@ EXCEPT ![d] = dto],
                                                 !.trackingToId = [@ EXCEPT ![n] = d]]
  BY <1>3 DEF Databases
<1> QED
  BY <1>1, <1>4 DEF n, dto

\* What a change to the status new leaves in delivered_at, on the clock, and of
\* the delivery.
DeliveredAt(db, d, new) == IF new = "delivered" THEN db.now ELSE db.deliveries[d].delivered_at
ClockAfter(db, new) == IF new = "delivered" THEN db.now + 1 ELSE db.now
Changed(db, d, new) ==
  [db.deliveries[d] EXCEPT !.status = new, !.delivered_at = DeliveredAt(db, d, new)]

\* The status of a delivery that is not there is dropped.
LEMMA StatusDropped ==
  ASSUME NEW db \in Databases, NEW d \in DeliveryIds, db.deliveries[d] = None,
         NEW old \in Statuses \cup {"pending"}, NEW new \in Statuses
  PROVE  Apply(db, DeliveryStatusChanged(d, old, new)) = db
BY DEF Apply, DeliveryStatusChanged, Event, OnDeliveryStatusChanged

\* A changed status is entered if the delivery is there.
LEMMA StatusApplied ==
  ASSUME NEW db \in Databases, NEW d \in DeliveryIds, db.deliveries[d] # None,
         NEW old \in Statuses \cup {"pending"}, NEW new \in Statuses,
         NEW e, e = DeliveryStatusChanged(d, old, new)
  PROVE  /\ Changed(db, d, new) \in DeliveryDtos
         /\ Changed(db, d, new).status = new
         /\ Changed(db, d, new).delivered_at = DeliveredAt(db, d, new)
         /\ Changed(db, d, new).id = db.deliveries[d].id
         /\ Changed(db, d, new).tracking_number = db.deliveries[d].tracking_number
         /\ Changed(db, d, new).sender_id = db.deliveries[d].sender_id
         /\ Changed(db, d, new).receiver_id = db.deliveries[d].receiver_id
         /\ Apply(db, e) \in Databases /\ Apply(db, e).now = ClockAfter(db, new)
         /\ Apply(db, e).deliveries[d] = Changed(db, d, new)
         /\ \A o \in DeliveryIds \ {d} : Apply(db, e).deliveries[o] = db.deliveries[o]
         /\ Apply(db, e).users = db.users /\ Apply(db, e).loginIndex = db.loginIndex
         /\ Apply(db, e).parcels = db.parcels /\ Apply(db, e).trackingToId = db.trackingToId
<1> DEFINE at == DeliveredAt(db, d, new)
           m == ClockAfter(db, new)
           dto == Changed(db, d, new)
           after == Apply(db, e)
<1>1. after = OnDeliveryStatusChanged(db, d, new)
  BY DEF Apply, DeliveryStatusChanged, Event
<1>2. db.deliveries[d] \in DeliveryDtos /\ db.now \in Nat
  BY NoneAssumption DEF Databases
<1>3. at \in Nat \cup {None} /\ m \in Nat
  BY <1>2 DEF DeliveredAt, ClockAfter, DeliveryDtos
<1>4. dto = [db.deliveries[d] EXCEPT !.status = new, !.delivered_at = at]
  BY Zenon DEF Changed
<1>5. after = [db EXCEPT !.deliveries = [@ EXCEPT ![d] = dto], !.now = m]
  <2>1. CASE new = "delivered"
    <3>1. after = [db EXCEPT !.deliveries[d].status = new,
                             !.deliveries[d].delivered_at = at, !.now = m]
      BY <1>1, <2>1, Zenon DEF OnDeliveryStatusChanged, DeliveredAt, ClockAfter
    <3> HIDE DEF at, m, after, dto
    <3> QED
      BY <1>2, <1>4, <3>1 DEF Databases, DeliveryDtos
  <2>2. CASE new # "delivered"
    <3>1. after = [db EXCEPT !.deliveries[d].status = new]
      BY <1>1, <2>2, Zenon DEF OnDeliveryStatusChanged
    <3>2. at = db.deliveries[d].delivered_at /\ m = db.now
      BY <2>2 DEF DeliveredAt, ClockAfter
    <3> HIDE DEF at, m, after, dto
    <3> QED
      BY <1>2, <1>4, <3>1, <3>2 DEF Databases, DeliveryDtos
  <2> QED
    BY <2>1, <2>2
<1> HIDE DEF at, m, after, dto
<1>6. /\ dto \in DeliveryDtos /\ dto.status = new /\ dto.delivered_at = at
      /\ dto.id = db.deliveries[d].id
      /\ dto.tracking_number = db.deliveries[d].tracking_number
      /\ dto.sender_id = db.deliveries[d].sender_id
      /\ dto.receiver_id = db.deliveries[d].receiver_id
  BY <1>2, <1>3, <1>4 DEF DeliveryDtos
<1>7. [db.deliveries EXCEPT ![d] = dto] \in [DeliveryIds -> DeliveryDtos \cup {None}]
  BY <1>6 DEF Databases
<1>8. /\ after \in Databases /\ after.now = m /\ after.deliveries[d] = dto
      /\ \A o \in DeliveryIds \ {d} : after.deliveries[o] = db.deliveries[o]
      /\ after.users = db.users /\ after.loginIndex = db.loginIndex
      /\ after.parcels = db.parcels /\ after.trackingToId = db.trackingToId
  BY <1>3, <1>5, <1>7 DEF Databases
<1> QED
  BY <1>6, <1>8, Zenon DEF at, m, after, dto

\* The clock after a change of status is the one before or one further.
LEMMA ClockMovesOn ==
  ASSUME NEW db \in Databases, NEW new
  PROVE  ClockAfter(db, new) \in Nat /\ ClockAfter(db, new) >= db.now
BY DEF ClockAfter, Databases

\* The call an event is for leaves entries of their types, and indexes that
\* agree with the maps if they did before.
LEMMA ApplyKeeps ==
  ASSUME NEW db \in Databases, Indexed(db), NEW e \in Events
  PROVE  Apply(db, e) \in Databases /\ Indexed(Apply(db, e))
<1> USE SchemaAssumption
<1>1. ASSUME NEW u \in UserIds, e = UserRegistered(u)
      PROVE  Apply(db, e) \in Databases /\ Indexed(Apply(db, e))
  <2>1. PICK entry \in UserEntries :
          Apply(db, e) = [db EXCEPT !.users = [@ EXCEPT ![u] = entry],
                                    !.loginIndex = [@ EXCEPT ![UserOf[u].login] = u],
                                    !.now = @ + 1]
    BY <1>1, UserApplied
  <2>2. /\ db.now + 1 \in Nat
        /\ [db.users EXCEPT ![u] = entry] \in [UserIds -> UserEntries \cup {None}]
        /\ [db.loginIndex EXCEPT ![UserOf[u].login] = u] \in [Logins -> UserIds \cup {None}]
    BY DEF Databases
  <2>3. Apply(db, e) \in Databases
    BY <2>1, <2>2 DEF Databases
  <2> QED
    BY <2>1, <2>3 DEF Indexed, Databases
<1>2. ASSUME NEW p \in ParcelIds, e = ParcelCreated(p)
      PROVE  Apply(db, e) \in Databases /\ Indexed(Apply(db, e))
  <2>1. PICK entry \in ParcelEntries :
          Apply(db, e) = [db EXCEPT !.parcels = [@ EXCEPT ![p] = entry], !.now = @ + 1]
    BY <1>2, ParcelApplied
  <2>2. [db.parcels EXCEPT ![p] = entry] \in [ParcelIds -> ParcelEntries \cup {None}]
        /\ db.now + 1 \in Nat
    BY DEF Databases
  <2> QED
    BY <2>1, <2>2 DEF Databases, Indexed
<1>3. ASSUME NEW d \in DeliveryIds, e = DeliveryCreated(d)
      PROVE  Apply(db, e) \in Databases /\ Indexed(Apply(db, e))
  <2>1. PICK dto \in DeliveryDtos :
          /\ dto = NewDto(d)
          /\ Apply(db, DeliveryCreated(d)) =
               [db EXCEPT !.deliveries = [@ EXCEPT ![d] = dto],
                          !.trackingToId = [@ EXCEPT ![DeliveryOf[d].tracking_number] = d]]
    BY DeliveryApplied
  <2>2. /\ [db.deliveries EXCEPT ![d] = dto] \in [DeliveryIds -> DeliveryDtos \cup {None}]
        /\ [db.trackingToId EXCEPT ![DeliveryOf[d].tracking_number] = d]
             \in [Trackings -> DeliveryIds \cup {None}]
    BY DEF Databases
  <2>3. Apply(db, e) \in Databases
    BY <1>3, <2>1, <2>2 DEF Databases
  <2> QED
    BY <1>3, <2>1, <2>3 DEF Indexed, Databases
<1>4. ASSUME NEW d \in DeliveryIds, NEW old \in Statuses \cup {"pending"}, NEW new \in Statuses,
             e = DeliveryStatusChanged(d, old, new)
      PROVE  Apply(db, e) \in Databases /\ Indexed(Apply(db, e))
  <2>1. CASE db.deliveries[d] = None
    <3>1. Apply(db, e) = db
      BY <1>4, <2>1, StatusDropped
    <3> QED
      BY <3>1
  <2>2. CASE db.deliveries[d] # None
    <3>1. /\ Apply(db, e) \in Databases
          /\ Apply(db, e).users = db.users /\ Apply(db, e).loginIndex = db.loginIndex
          /\ Apply(db, e).trackingToId = db.trackingToId
          /\ \A o \in DeliveryIds \ {d} : Apply(db, e).deliveries[o] = db.deliveries[o]
      BY <1>4, <2>2, StatusApplied
    <3> QED
      BY <2>2, <3>1 DEF Indexed
  <2> QED
    BY <2>1, <2>2
<1> QED
  BY <1>1, <1>2, <1>3, <1>4 DEF Events

-----------------------------------------------------------------------------
(* What the actions keep.                                                  *)

\* Deliveries in flight are of a known event.
LEMMA EventTypes ==
  /\ \A u \in UserIds : UserRegistered(u) \in Events
  /\ \A p \in ParcelIds : ParcelCreated(p) \in Events
  /\ \A d \in DeliveryIds : DeliveryCreated(d) \in Events
  /\ \A d \in DeliveryIds, old \in Statuses \cup {"pending"}, new \in Statuses :
       DeliveryStatusChanged(d, old, new) \in Events
BY DEF Events

\* A write appends one event to the outbox.
LEMMA WriteKeeps ==
  ASSUME IInv, NEW e \in Events, Write(e),
         written'.users \subseteq UserIds, written'.parcels \subseteq ParcelIds,
         written'.deliveries \in [DeliveryIds -> DeliveryStates \cup {None}]
  PROVE  IInv'
<1>1. outbox' \in Seq(Events)
  BY AppendProperties DEF IInv, TypeOK, Write
<1>2. writes' \in 0 .. MaxWrites
  BY DEF IInv, TypeOK, Write
<1> QED
  BY <1>1, <1>2 DEF IInv, TypeOK, Write, ProcessedIsLogged, At

\* The events about a delivery are about one of them.
LEMMA AboutDeliveries ==
  ASSUME TypeOK, NEW i \in DOMAIN outbox
  PROVE  /\ outbox[i] \in Events
         /\ About(outbox[i]) \in DeliveryIds \cup {None}
<1>1. outbox[i] \in Events
  BY ElementOfSeq, LenProperties DEF TypeOK
<1> QED
  BY <1>1, AboutType

LEMMA PublishKeeps ==
  ASSUME IInv, NEW i \in DOMAIN outbox, PublishEvent(i)
  PROVE  IInv'
<1> USE DEF IInv
<1>1. outbox' \in Seq(Events)
  BY RemoveAtType DEF TypeOK, PublishEvent
<1>2. events' \in Seq(Events) /\ Len(events') = Len(events) + 1
  BY AboutDeliveries, AppendProperties DEF TypeOK, PublishEvent
<1>3. /\ place' \in Seq(Places)
      /\ Len(place') = Len(place) + 1
      /\ place'[Len(place) + 1] = "queued"
      /\ \A k \in 1 .. Len(place) : place'[k] = place[k]
  BY AppendProperties DEF TypeOK, PublishEvent, Places
<1>4. \A where \in {"unacked", "processed", "acked"} : At(where)' = At(where)
  <2>1. /\ Len(place) \in Nat /\ DOMAIN place = 1 .. Len(place)
        /\ DOMAIN place' = 1 .. Len(place) + 1
    BY <1>3, LenProperties DEF TypeOK
  <2>2. DOMAIN place' = DOMAIN place \cup {Len(place) + 1}
    BY <2>1
  <2> QED
    BY <1>3, <2>1, <2>2 DEF At
<1>5. disturbed' \subseteq DeliveryIds
  BY AboutDeliveries DEF TypeOK, PublishEvent, Waiting
<1>6. DOMAIN events \subseteq DOMAIN events'
  BY <1>2, LenProperties DEF TypeOK
<1>7. replica' \in Databases /\ Indexed(replica')
  BY AboutDeliveries, ApplyKeeps DEF TypeOK, PublishEvent
<1>8. TypeOK'
  BY <1>1, <1>2, <1>3, <1>4, <1>5, <1>6, <1>7 DEF TypeOK, PublishEvent
<1> QED
  BY <1>4, <1>7, <1>8 DEF ProcessedIsLogged, PublishEvent

LEMMA LoseKeeps ==
  ASSUME IInv, NEW i \in DOMAIN outbox, LoseEvent(i)
  PROVE  IInv'
<1>1. outbox' \in Seq(Events)
  BY RemoveAtType DEF IInv, TypeOK, LoseEvent
<1>2. disturbed' \subseteq DeliveryIds
  BY AboutDeliveries DEF IInv, TypeOK, LoseEvent
<1> QED
  BY <1>1, <1>2 DEF IInv, TypeOK, LoseEvent, ProcessedIsLogged, At

\* A message that moves on leaves the others where they are.
LEMMA PlaceMoves ==
  ASSUME TypeOK, NEW i \in DOMAIN place, NEW where \in Places,
         place' = [place EXCEPT ![i] = where]
  PROVE  /\ place' \in Seq(Places)
         /\ Len(place') = Len(place)
         /\ At(where)' = At(where) \cup {i}
         /\ \A other \in Places \ {where} : At(other)' = At(other) \ {i}
<1>1. i \in 1 .. Len(place)
  BY LenProperties DEF TypeOK
<1>2. place' \in Seq(Places) /\ Len(place') = Len(place)
  BY <1>1, ExceptSeq DEF TypeOK
<1>3. DOMAIN place' = DOMAIN place
  OBVIOUS
<1> QED
  BY <1>2, <1>3 DEF At

LEMMA DeliverKeeps ==
  ASSUME IInv, NEW i \in DOMAIN place, Deliver(i)
  PROVE  IInv'
<1> USE DEF IInv
<1>1. /\ place' \in Seq(Places) /\ Len(place') = Len(place)
      /\ At("unacked")' = At("unacked") \cup {i}
      /\ At("processed")' = At("processed") \ {i}
      /\ At("acked")' = At("acked") \ {i}
  BY PlaceMoves DEF Deliver, Places
<1>2. i \notin At("processed") /\ i \notin At("unacked")
  BY DEF Deliver, At
<1>3. Held' = Held \cup {i}
  BY <1>1, <1>2 DEF Held
<1>4. IsFiniteSet(Held) /\ Cardinality(Held) \in Nat
  BY HeldFinite, FS_CardinalityType DEF TypeOK
<1>5. Cardinality(Held') <= Cardinality(Held) + 1 /\ Cardinality(Held') \in Nat
  <2>1. /\ IsFiniteSet(Held \cup {i})
        /\ \/ Cardinality(Held \cup {i}) = Cardinality(Held)
           \/ Cardinality(Held \cup {i}) = Cardinality(Held) + 1
    BY <1>4, FS_AddElement
  <2> QED
    BY <1>3, <1>4, <2>1
<1>6. Cardinality(Held') <= Prefetch
  BY <1>4, <1>5 DEF Deliver, Held
<1>7. TypeOK'
  BY <1>1, <1>6 DEF TypeOK, Deliver, Held
<1> QED
  BY <1>1, <1>7 DEF ProcessedIsLogged, Deliver

LEMMA ProcessKeeps ==
  ASSUME IInv, NEW i \in DOMAIN place, Process(i)
  PROVE  IInv'
<1> USE DEF IInv
<1>1. /\ place' \in Seq(Places) /\ Len(place') = Len(place)
      /\ At("unacked")' = At("unacked") \ {i}
      /\ At("processed")' = At("processed") \cup {i}
      /\ At("acked")' = At("acked") \ {i}
  BY PlaceMoves DEF Process, Places
<1>2. i \in At("unacked") /\ i \in DOMAIN events
  BY LenProperties DEF Process, TypeOK
<1>3. Held' = Held
  BY <1>1, <1>2 DEF Held
<1>4. events[i] \in Events
  BY <1>2, ElementOfSeq, LenProperties DEF TypeOK
<1>5. logged' = logged \cup {i}
  BY <1>4, EventsUnderstood DEF Process
<1>6. TypeOK'
  BY <1>1, <1>2, <1>3, <1>5 DEF TypeOK, Process, Held
<1> QED
  BY <1>1, <1>5, <1>6 DEF ProcessedIsLogged, Process

LEMMA AcknowledgeKeeps ==
  ASSUME IInv, NEW i \in DOMAIN place, Acknowledge(i)
  PROVE  IInv'
<1> USE DEF IInv
<1>1. /\ place' \in Seq(Places) /\ Len(place') = Len(place)
      /\ At("unacked")' = At("unacked") \ {i}
      /\ At("processed")' = At("processed") \ {i}
      /\ At("acked")' = At("acked") \cup {i}
  BY PlaceMoves DEF Acknowledge, Places
<1>2. IsFiniteSet(Held) /\ Held' \subseteq Held
  BY <1>1, HeldFinite DEF Held, TypeOK
<1>3. Cardinality(Held') <= Cardinality(Held)
      /\ Cardinality(Held) \in Nat /\ Cardinality(Held') \in Nat
  BY <1>2, FS_Subset, FS_CardinalityType
<1>4. Cardinality(Held') <= Prefetch
  BY <1>3 DEF TypeOK, Held
<1>5. TypeOK'
  BY <1>1, <1>4 DEF TypeOK, Acknowledge, Held
<1> QED
  BY <1>1, <1>5 DEF ProcessedIsLogged, Acknowledge

\* After a restart of the service or of the broker the consumer holds nothing.
LEMMA RestartKeeps ==
  ASSUME IInv, ServiceRestart \/ BrokerRestart
  PROVE  IInv'
<1> USE DEF IInv
<1>1. place \in Seq(Places) /\ Len(place) \in Nat /\ DOMAIN place = 1 .. Len(place)
  BY LenProperties DEF TypeOK
<1>2. \A k \in 1 .. Len(place) : place[k] \in Places
  BY <1>1, ElementOfSeq
<1>3. DOMAIN place' = 1 .. Len(place) /\ \A k \in 1 .. Len(place) : place'[k] \in Places
  BY <1>1, <1>2 DEF ServiceRestart, BrokerRestart, Places
<1>4. place' \in Seq(Places) /\ Len(place') = Len(place)
  <2>1. place' = [k \in 1 .. Len(place) |-> place'[k]]
    BY <1>1, <1>3 DEF ServiceRestart, BrokerRestart
  <2>2. place' \in Seq(Places)
    BY <1>1, <1>3, <2>1
  <2> QED
    BY <1>1, <1>3, <2>2, LenProperties
<1>5. At("unacked")' = {} /\ At("processed")' = {} /\ At("acked")' = At("acked")
  BY <1>1, <1>3 DEF At, ServiceRestart, BrokerRestart
<1>6. Cardinality(Held') <= Prefetch
  BY <1>5, FS_EmptySet DEF Held
<1>7. outbox' \in Seq(Events) /\ disturbed' \subseteq DeliveryIds
  BY AboutDeliveries, EmptySeq DEF TypeOK, ServiceRestart, BrokerRestart
<1>8. restarts' \in 0 .. MaxRestarts /\ bound' \in BOOLEAN
  <2>1. restarts' \in 0 .. MaxRestarts
    <3>1. restarts < MaxRestarts /\ restarts' = restarts + 1
      BY Zenon DEF ServiceRestart, BrokerRestart
    <3> QED
      BY <3>1 DEF TypeOK
  <2>2. bound \in BOOLEAN /\ (bound' \in {bound, TRUE} \/ bound' = FALSE)
    BY Zenon DEF TypeOK, ServiceRestart, BrokerRestart
  <2>3. bound' \in BOOLEAN
    BY <2>2, Zenon
  <2> QED
    BY <2>1, <2>3
<1>9. UNCHANGED <<written, writes, events, logged, updates>>
  BY DEF ServiceRestart, BrokerRestart
<1>10. /\ replica' \in Databases /\ Indexed(replica')
       /\ readDb' \in Databases /\ Indexed(readDb')
  BY EmptyDatabaseType DEF TypeOK, ServiceRestart, BrokerRestart
<1>11. TypeOK'
  BY <1>4, <1>6, <1>7, <1>8, <1>9, <1>10 DEF TypeOK, Held
<1> QED
  BY <1>5, <1>10, <1>11 DEF ProcessedIsLogged, ServiceRestart, BrokerRestart

LEMMA WritesKeep ==
  ASSUME IInv,
         \/ \E u \in UserIds : RegisterUser(u)
         \/ \E p \in ParcelIds : CreateParcel(p)
         \/ \E d \in DeliveryIds : CreateDelivery(d)
         \/ \E d \in DeliveryIds, s \in Statuses : ChangeStatus(d, s)
  PROVE  IInv'
<1>1. ASSUME NEW u \in UserIds, RegisterUser(u) PROVE IInv'
  BY <1>1, WriteKeeps, EventTypes DEF RegisterUser, IInv, TypeOK
<1>2. ASSUME NEW p \in ParcelIds, CreateParcel(p) PROVE IInv'
  <2>1. ParcelCreated(p) \in Events
    BY EventTypes
  <2>2. Write(ParcelCreated(p)) /\ written' = [written EXCEPT !.parcels = @ \cup {p}]
    BY <1>2 DEF CreateParcel
  <2>3. /\ written'.users \subseteq UserIds /\ written'.parcels \subseteq ParcelIds
        /\ written'.deliveries \in [DeliveryIds -> DeliveryStates \cup {None}]
    BY <2>2 DEF IInv, TypeOK
  <2> QED
    BY <2>1, <2>2, <2>3, WriteKeeps
<1>3. ASSUME NEW d \in DeliveryIds, NEW state \in DeliveryStates,
             written' = [written EXCEPT !.deliveries[d] = state]
      PROVE  /\ written'.users \subseteq UserIds /\ written'.parcels \subseteq ParcelIds
             /\ written'.deliveries \in [DeliveryIds -> DeliveryStates \cup {None}]
  BY <1>3 DEF IInv, TypeOK
<1>4. ASSUME NEW d \in DeliveryIds, CreateDelivery(d) PROVE IInv'
  <2>1. [status |-> "pending", delivered_at |-> FALSE] \in DeliveryStates
    BY DEF DeliveryStates
  <2> QED
    BY <1>3, <1>4, <2>1, WriteKeeps, EventTypes DEF CreateDelivery
<1>5. ASSUME NEW d \in DeliveryIds, NEW s \in Statuses, ChangeStatus(d, s) PROVE IInv'
  <2>1. written.deliveries[d] \in DeliveryStates
    BY <1>5 DEF ChangeStatus, IInv, TypeOK
  <2>2. DeliveryStatusChanged(d, written.deliveries[d].status, s) \in Events
    BY <2>1, EventTypes DEF DeliveryStates
  <2> DEFINE state == [status |-> s,
                       delivered_at |-> s = "delivered" \/ written.deliveries[d].delivered_at]
  <2>3. (s = "delivered" \/ written.deliveries[d].delivered_at) \in BOOLEAN
    OBVIOUS
  <2>4. state \in DeliveryStates
    BY <2>3, Zenon DEF DeliveryStates
  <2>5. written' = [written EXCEPT !.deliveries[d] = state]
    BY <1>5 DEF ChangeStatus
  <2> QED
    BY <1>3, <1>5, <2>2, <2>4, <2>5, WriteKeeps DEF ChangeStatus
<1> QED
  BY <1>1, <1>2, <1>4, <1>5

LEMMA NextKeeps ==
  ASSUME IInv, [Next]_vars
  PROVE  IInv'
<1>1. ASSUME NEW i \in DOMAIN events, Update(i) PROVE IInv'
  <2>1. events[i] \in Events
    BY ElementOfSeq, LenProperties DEF IInv, TypeOK
  <2>2. readDb' \in Databases /\ Indexed(readDb')
    BY <1>1, <2>1, ApplyKeeps DEF Update, IInv, TypeOK
  <2> QED
    BY <1>1, <2>2 DEF Update, IInv, TypeOK, ProcessedIsLogged, At
<1>2. CASE UNCHANGED vars
  BY <1>2 DEF vars, IInv, TypeOK, ProcessedIsLogged, At
<1> QED
  BY <1>1, <1>2, WritesKeep, PublishKeeps, LoseKeeps, DeliverKeeps, ProcessKeeps,
     AcknowledgeKeeps, RestartKeeps DEF Next

LEMMA InitIInv == Init => IInv
<1> SUFFICES ASSUME Init PROVE IInv
  OBVIOUS
<1>1. outbox \in Seq(Events) /\ events \in Seq(Events) /\ place \in Seq(Places)
  BY EmptySeq DEF Init
<1>2. \A where : At(where) = {}
  BY DEF Init, At
<1>3. Cardinality(At("unacked") \cup At("processed")) <= Prefetch
  BY <1>2, FS_EmptySet
<1> QED
  BY <1>1, <1>2, <1>3, EmptyDatabaseType DEF Init, IInv, TypeOK, ProcessedIsLogged

-----------------------------------------------------------------------------
(* The theorems.                                                           *)

THEOREM Invariance == Spec => []IInv
<1>1. IInv /\ [Next]_vars => IInv'
  BY NextKeeps
<1> QED
  BY InitIInv, <1>1, PTL DEF Spec

\* Whatever is lost, published out of order, handed out again or fed twice, the
\* states are of their types and the consumer never holds more than Prefetch
\* messages.  (consumer.cpp 9-55, static_config.yaml 167-174)
THEOREM TypeCorrect == Spec => []TypeOK
<1>1. IInv => TypeOK
  BY DEF IInv
<1> QED
  BY Invariance, <1>1, PTL

\* Every message is acknowledged, whatever Process does; yet none is whose
\* handler threw on the way.  (producer.cpp 64-112, consumer.cpp 27-79)
THEOREM AckedHandled == Spec => []AckedIsHandled
<1>1. IInv => AckedIsHandled
  BY DEF IInv, ProcessedIsLogged, AckedIsHandled
<1> QED
  BY Invariance, <1>1, PTL

\* An entry of a map is what the look-ups through the indexes find, whatever
\* calls fed the database, in whatever order.  (read_database_component.cpp 31-105)
THEOREM IndexesAreAgreed == Spec => []IndexesAgree
<1>1. ASSUME NEW db \in Databases, Indexed(db), NEW u \in UserIds, GetUserById(db, u) # None
      PROVE  /\ GetUserByLogin(db, UserOf[u].login, 1, 1) = GetUserById(db, u)
             /\ VerifyCredentials(db, UserOf[u].login, GetUserById(db, u).hash) = u
  <2>1. db.loginIndex[UserOf[u].login] = u /\ u # None
    BY <1>1, NoneAssumption DEF Indexed, GetUserById
  <2> QED
    BY <1>1, <2>1 DEF GetUserByLogin, GetUserById, VerifyCredentials
<1>2. ASSUME NEW db \in Databases, Indexed(db), NEW d \in DeliveryIds,
             GetDeliveryById(db, d) # None
      PROVE  GetDeliveryByTrackingNumber(db, DeliveryOf[d].tracking_number)
               = GetDeliveryById(db, d)
  <2>1. db.trackingToId[DeliveryOf[d].tracking_number] = d /\ d # None
    BY <1>2, NoneAssumption DEF Indexed, GetDeliveryById
  <2> QED
    BY <2>1 DEF GetDeliveryByTrackingNumber, GetDeliveryById
<1>3. IInv => IndexesAgree
  BY <1>1, <1>2 DEF IInv, TypeOK, IndexesAgree
<1> QED
  BY Invariance, <1>3, PTL

-----------------------------------------------------------------------------
(* That the replica follows the write side.  A delivery whose events were  *)
(* neither lost nor published out of order is in the replica as the write  *)
(* side has it, but for the events of it that still wait in the outbox.    *)

Creation(e) == e.event_type = "delivery.created"

NewStatus(e) == IF Creation(e) THEN "pending" ELSE e.payload.new_status

\* Where the events about d are in a queue.
Of(queue, d) == {i \in DOMAIN queue : About(queue[i]) = d}

\* w is the state of delivery d on the write side and r its entry in the
\* replica: the events in the queue, in their order, lead from r to w.
Follows(queue, w, r, d) ==
  /\ w = None => r = None /\ Of(queue, d) = {}
  /\ w # None /\ r = None => \E i \in Of(queue, d) : Creation(queue[i])
  /\ \A i \in Of(queue, d) :
       Creation(queue[i]) => r = None /\ \A j \in Of(queue, d) : i <= j
  /\ w # None /\ Of(queue, d) = {} => r.status = w.status
  /\ \A i \in Of(queue, d) :
       (\A j \in Of(queue, d) : j <= i) => NewStatus(queue[i]) = w.status
  /\ w # None => (w.delivered_at = TRUE <=>
       \/ r # None /\ r.delivered_at # None
       \/ \E i \in Of(queue, d) : NewStatus(queue[i]) = "delivered")
  /\ r # None => r.tracking_number = DeliveryOf[d].tracking_number

ReplicaIsBehind ==
  \A d \in DeliveryIds \ disturbed :
    Follows(outbox, written.deliveries[d], replica.deliveries[d], d)

\* An event about a delivery is its creation or a change of its status.
LEMMA EventKinds ==
  ASSUME NEW d \in DeliveryIds, NEW e \in Events, About(e) = d
  PROVE  \/ e = DeliveryCreated(d)
         \/ \E old \in Statuses \cup {"pending"}, new \in Statuses :
              e = DeliveryStatusChanged(d, old, new)
<1>1. d # None
  BY NoneAssumption
<1> QED
  BY <1>1 DEF Events, About, Event, UserRegistered, ParcelCreated, DeliveryCreated,
              DeliveryStatusChanged

LEMMA AppliedElsewhere ==
  ASSUME NEW db \in Databases, NEW d \in DeliveryIds, NEW e \in Events, About(e) # d
  PROVE  Apply(db, e).deliveries[d] = db.deliveries[d]
<1>1. ASSUME NEW u \in UserIds, e = UserRegistered(u)
      PROVE  Apply(db, e).deliveries = db.deliveries
  <2>1. PICK entry \in UserEntries :
          Apply(db, UserRegistered(u)) =
            [db EXCEPT !.users = [@ EXCEPT ![u] = entry],
                       !.loginIndex = [@ EXCEPT ![UserOf[u].login] = u], !.now = @ + 1]
    BY UserApplied
  <2> QED
    BY <1>1, <2>1 DEF Databases
<1>2. ASSUME NEW p \in ParcelIds, e = ParcelCreated(p)
      PROVE  Apply(db, e).deliveries = db.deliveries
  BY <1>2, ParcelApplied DEF Databases
<1>3. ASSUME NEW o \in DeliveryIds, e = DeliveryCreated(o)
      PROVE  Apply(db, e).deliveries[d] = db.deliveries[d]
  <2>1. o # d
    BY <1>3 DEF About, DeliveryCreated, Event
  <2>2. PICK dto \in DeliveryDtos :
          /\ dto = NewDto(o)
          /\ Apply(db, DeliveryCreated(o)) =
               [db EXCEPT !.deliveries = [@ EXCEPT ![o] = dto],
                          !.trackingToId = [@ EXCEPT ![DeliveryOf[o].tracking_number] = o]]
    BY DeliveryApplied
  <2> QED
    BY <1>3, <2>1, <2>2 DEF Databases
<1>4. ASSUME NEW o \in DeliveryIds, NEW old \in Statuses \cup {"pending"}, NEW new \in Statuses,
             e = DeliveryStatusChanged(o, old, new)
      PROVE  Apply(db, e).deliveries[d] = db.deliveries[d]
  <2>1. o # d
    BY <1>4 DEF About, DeliveryStatusChanged, Event
  <2>2. CASE db.deliveries[o] = None
    BY <1>4, <2>2, StatusDropped
  <2>3. CASE db.deliveries[o] # None
    <3>1. \A q \in DeliveryIds \ {o} : Apply(db, e).deliveries[q] = db.deliveries[q]
      BY <1>4, <2>3, StatusApplied
    <3> QED
      BY <2>1, <3>1
  <2> QED
    BY <2>2, <2>3
<1> QED
  BY <1>1, <1>2, <1>3, <1>4 DEF Events

\* new is what event e about delivery d makes of the entry old.
Becomes(e, d, old, new) ==
  /\ new # None /\ new.status = NewStatus(e)
  /\ Creation(e) => /\ new.delivered_at = None
                    /\ new.tracking_number = DeliveryOf[d].tracking_number
  /\ ~Creation(e) => /\ new.tracking_number = old.tracking_number
                     /\ new.delivered_at # None <=>
                          NewStatus(e) = "delivered" \/ old.delivered_at # None

LEMMA AppliedHere ==
  ASSUME NEW db \in Databases, NEW d \in DeliveryIds, NEW e \in Events, About(e) = d,
         Creation(e) \/ db.deliveries[d] # None
  PROVE  Becomes(e, d, db.deliveries[d], Apply(db, e).deliveries[d])
<1> DEFINE old == db.deliveries[d]
           new == Apply(db, e).deliveries[d]
<1>1. CASE e = DeliveryCreated(d)
  <2>1. Creation(e) /\ NewStatus(e) = "pending"
    BY <1>1 DEF Creation, NewStatus, DeliveryCreated, Event
  <2>2. PICK dto \in DeliveryDtos :
          /\ dto = NewDto(d)
          /\ Apply(db, DeliveryCreated(d)) =
               [db EXCEPT !.deliveries = [@ EXCEPT ![d] = dto],
                          !.trackingToId = [@ EXCEPT ![DeliveryOf[d].tracking_number] = d]]
    BY DeliveryApplied
  <2>3. Apply(db, e).deliveries[d] = dto
    BY <1>1, <2>2 DEF Databases
  <2>4. dto # None
    BY NoneAssumption
  <2>5. /\ dto.status = "pending" /\ dto.delivered_at = None
        /\ dto.tracking_number = DeliveryOf[d].tracking_number
    BY <2>2, DeliveryApplied
  <2> QED
    BY <2>1, <2>3, <2>4, <2>5 DEF Becomes
<1>2. ASSUME NEW was \in Statuses \cup {"pending"}, NEW s \in Statuses,
             e = DeliveryStatusChanged(d, was, s)
      PROVE  /\ ~Creation(e) /\ new # None /\ new.status = NewStatus(e)
             /\ new.delivered_at # None <=> NewStatus(e) = "delivered" \/ old.delivered_at # None
             /\ new.tracking_number = old.tracking_number
  <2>1. ~Creation(e) /\ NewStatus(e) = s
    BY <1>2 DEF Creation, NewStatus, DeliveryStatusChanged, Event
  <2>2. db.deliveries[d] \in DeliveryDtos
    BY <2>1 DEF Databases
  <2> DEFINE dto == Changed(db, d, s)
  <2>3. /\ dto \in DeliveryDtos /\ dto.status = s
        /\ dto.delivered_at = DeliveredAt(db, d, s)
        /\ dto.tracking_number = db.deliveries[d].tracking_number
        /\ Apply(db, e).deliveries[d] = dto
    BY <1>2, <2>1, StatusApplied
  <2> HIDE DEF dto
  <2>5. dto # None
    BY <2>3, NoneAssumption
  <2>6. db.now # None
    BY NoneAssumption DEF Databases
  <2>7. dto.delivered_at # None <=> s = "delivered" \/ db.deliveries[d].delivered_at # None
    BY <2>3, <2>6 DEF DeliveredAt
  <2> QED
    BY <2>1, <2>3, <2>5, <2>7
<1> QED
  BY <1>1, <1>2, EventKinds DEF Becomes

\* An event that leaves the queue moves those behind it one place forward.
LEMMA RemoveAtIndex ==
  ASSUME NEW S, NEW s \in Seq(S), NEW i \in DOMAIN s
  PROVE  /\ RemoveAt(s, i) \in Seq(S)
         /\ Len(RemoveAt(s, i)) = Len(s) - 1
         /\ \A j \in 1 .. Len(s) - 1 : RemoveAt(s, i)[j] = IF j < i THEN s[j] ELSE s[j + 1]
<1> DEFINE a == SubSeq(s, 1, i - 1)
           b == SubSeq(s, i + 1, Len(s))
<1>1. i \in 1 .. Len(s) /\ Len(s) \in Nat
  BY LenProperties
<1>2. \A j \in 1 .. Len(s) : s[j] \in S
  BY ElementOfSeq
<1>3. /\ a \in Seq(S) /\ Len(a) = i - 1
      /\ \A j \in 1 .. i - 1 : a[j] = s[j]
  BY <1>1, <1>2, SubSeqProperties
<1>4. /\ b \in Seq(S) /\ Len(b) = Len(s) - i
      /\ \A j \in 1 .. Len(s) - i : b[j] = s[j + i]
  BY <1>1, <1>2, SubSeqProperties
<1> HIDE DEF a, b
<1>5. /\ a \o b \in Seq(S) /\ Len(a \o b) = Len(s) - 1
      /\ \A j \in 1 .. Len(s) - 1 : (a \o b)[j] = IF j <= i - 1 THEN a[j] ELSE b[j - (i - 1)]
  BY <1>1, <1>3, <1>4, ConcatProperties
<1>6. \A j \in 1 .. Len(s) - 1 : (a \o b)[j] = IF j < i THEN s[j] ELSE s[j + 1]
  <2> SUFFICES ASSUME NEW j \in 1 .. Len(s) - 1
               PROVE  (a \o b)[j] = IF j < i THEN s[j] ELSE s[j + 1]
    OBVIOUS
  <2>1. CASE j < i
    BY <1>1, <1>3, <1>5, <2>1
  <2>2. CASE ~(j < i)
    <3>1. j - (i - 1) \in 1 .. Len(s) - i /\ (j - (i - 1)) + i = j + 1
      BY <1>1, <2>2
    <3>2. ~(j <= i - 1)
      BY <1>1, <2>2
    <3>3. (a \o b)[j] = b[j - (i - 1)]
      BY <1>5, <3>2
    <3> QED
      BY <1>4, <2>2, <3>1, <3>3
  <2> QED
    BY <2>1, <2>2
<1>7. RemoveAt(s, i) = a \o b
  BY DEF RemoveAt, a, b
<1> QED
  BY <1>5, <1>6, <1>7

\* Where an event of the shorter queue was, and where one of the longer goes.
Up(i, j) == IF j < i THEN j ELSE j + 1
Down(i, k) == IF k < i THEN k ELSE k - 1

LEMMA OfRemoved ==
  ASSUME NEW q \in Seq(Events), NEW i \in DOMAIN q, NEW d \in DeliveryIds
  PROVE  LET r == RemoveAt(q, i)
         IN  /\ \A j \in Of(r, d) : Up(i, j) \in Of(q, d) \ {i} /\ r[j] = q[Up(i, j)]
             /\ \A k \in Of(q, d) \ {i} : Down(i, k) \in Of(r, d) /\ Up(i, Down(i, k)) = k
             /\ \A j, l \in Of(r, d) : j <= l <=> Up(i, j) <= Up(i, l)
             /\ \A k, l \in Of(q, d) \ {i} : k <= l <=> Down(i, k) <= Down(i, l)
<1> DEFINE r == RemoveAt(q, i)
<1>1. /\ Len(q) \in Nat /\ DOMAIN q = 1 .. Len(q)
  BY LenProperties
<1>2. /\ r \in Seq(Events) /\ Len(r) = Len(q) - 1
      /\ \A j \in 1 .. Len(q) - 1 : r[j] = IF j < i THEN q[j] ELSE q[j + 1]
  BY RemoveAtIndex
<1> HIDE DEF r
<1>3. DOMAIN r = 1 .. Len(q) - 1
  BY <1>2, LenProperties
<1>4. \A j \in 1 .. Len(q) - 1 : r[j] = q[Up(i, j)] /\ Up(i, j) \in (1 .. Len(q)) \ {i}
  BY <1>1, <1>2 DEF Up
<1>5. \A k \in (1 .. Len(q)) \ {i} : Down(i, k) \in 1 .. Len(q) - 1 /\ Up(i, Down(i, k)) = k
  BY <1>1 DEF Up, Down
<1>6. \A j, l \in 1 .. Len(q) - 1 : j <= l <=> Up(i, j) <= Up(i, l)
  BY <1>1 DEF Up
<1>7. \A k, l \in (1 .. Len(q)) \ {i} : k <= l <=> Down(i, k) <= Down(i, l)
  BY <1>1 DEF Down
<1>8. \A j \in Of(r, d) : j \in 1 .. Len(q) - 1 /\ About(r[j]) = d
  BY <1>3 DEF Of
<1>9. \A k \in Of(q, d) : k \in 1 .. Len(q) /\ About(q[k]) = d
  BY <1>1 DEF Of
<1>10. \A j \in Of(r, d) : Up(i, j) \in Of(q, d) \ {i} /\ r[j] = q[Up(i, j)]
  BY <1>1, <1>4, <1>8 DEF Of
<1>11. \A k \in Of(q, d) \ {i} : Down(i, k) \in Of(r, d) /\ Up(i, Down(i, k)) = k
  BY <1>3, <1>4, <1>5, <1>9 DEF Of
<1> QED
  BY <1>6, <1>7, <1>8, <1>9, <1>10, <1>11 DEF r

\* An event about something else leaves the queue.
LEMMA OtherRemoved ==
  ASSUME NEW q \in Seq(Events), NEW i \in DOMAIN q, NEW d \in DeliveryIds, NEW w, NEW r,
         About(q[i]) # d, Follows(q, w, r, d)
  PROVE  Follows(RemoveAt(q, i), w, r, d)
<1> DEFINE t == RemoveAt(q, i)
           O == Of(q, d)
           P == Of(t, d)
<1>1. /\ \A j \in P : Up(i, j) \in O /\ t[j] = q[Up(i, j)]
      /\ \A k \in O : Down(i, k) \in P /\ Up(i, Down(i, k)) = k
      /\ \A j, l \in P : j <= l <=> Up(i, j) <= Up(i, l)
      /\ \A k, l \in O : k <= l <=> Down(i, k) <= Down(i, l)
  <2>1. O \ {i} = O
    BY DEF Of
  <2> QED
    BY <2>1, OfRemoved
<1>2. /\ w = None => r = None /\ O = {}
      /\ w # None /\ r = None => \E k \in O : Creation(q[k])
      /\ \A k \in O : Creation(q[k]) => r = None /\ \A l \in O : k <= l
      /\ w # None /\ O = {} => r.status = w.status
      /\ \A k \in O : (\A l \in O : l <= k) => NewStatus(q[k]) = w.status
      /\ w # None => (w.delivered_at = TRUE <=>
           (r # None /\ r.delivered_at # None) \/ \E k \in O : NewStatus(q[k]) = "delivered")
      /\ r # None => r.tracking_number = DeliveryOf[d].tracking_number
  BY DEF Follows
<1> HIDE DEF t, O, P
<1>3. \A k \in O : t[Down(i, k)] = q[k]
  BY <1>1
<1>4. P = {} <=> O = {}
  BY <1>1
<1>5. w # None /\ r = None => \E j \in P : Creation(t[j])
  BY <1>1, <1>2, <1>3
<1>6. \A j \in P : Creation(t[j]) => r = None /\ \A l \in P : j <= l
  BY <1>1, <1>2
<1>7. ASSUME NEW j \in P, \A l \in P : l <= j
      PROVE  NewStatus(t[j]) = w.status
  <2>1. \A k \in O : k <= Up(i, j)
    BY <1>1, <1>7
  <2> QED
    BY <1>1, <1>2, <2>1
<1>8. (\E j \in P : NewStatus(t[j]) = "delivered") <=> (\E k \in O : NewStatus(q[k]) = "delivered")
  BY <1>1, <1>3
<1>9. /\ w = None => r = None /\ P = {}
      /\ w # None /\ P = {} => r.status = w.status
      /\ w # None => (w.delivered_at = TRUE <=>
           (r # None /\ r.delivered_at # None) \/ \E j \in P : NewStatus(t[j]) = "delivered")
  BY <1>2, <1>4, <1>8
<1> QED
  BY <1>2, <1>5, <1>6, <1>7, <1>9 DEF Follows, t, P

\* The first event about the delivery leaves the queue, and n is what it makes
\* of the entry r.
LEMMA FirstTaken ==
  ASSUME NEW q \in Seq(Events), NEW i \in DOMAIN q, NEW d \in DeliveryIds, NEW w, NEW r, NEW n,
         About(q[i]) = d, \A j \in Of(q, d) : i <= j, Follows(q, w, r, d),
         Becomes(q[i], d, r, n)
  PROVE  Follows(RemoveAt(q, i), w, n, d)
<1> DEFINE t == RemoveAt(q, i)
           O == Of(q, d)
           P == Of(t, d)
<1>1. /\ \A j \in P : Up(i, j) \in O \ {i} /\ t[j] = q[Up(i, j)]
      /\ \A k \in O \ {i} : Down(i, k) \in P /\ Up(i, Down(i, k)) = k
      /\ \A j, l \in P : j <= l <=> Up(i, j) <= Up(i, l)
      /\ \A k, l \in O \ {i} : k <= l <=> Down(i, k) <= Down(i, l)
  BY OfRemoved
<1>2. /\ w = None => r = None /\ O = {}
      /\ w # None /\ r = None => \E k \in O : Creation(q[k])
      /\ \A k \in O : Creation(q[k]) => r = None /\ \A l \in O : k <= l
      /\ w # None /\ O = {} => r.status = w.status
      /\ \A k \in O : (\A l \in O : l <= k) => NewStatus(q[k]) = w.status
      /\ w # None => (w.delivered_at = TRUE <=>
           (r # None /\ r.delivered_at # None) \/ \E k \in O : NewStatus(q[k]) = "delivered")
      /\ r # None => r.tracking_number = DeliveryOf[d].tracking_number
  BY DEF Follows
<1>3. i \in O /\ O \subseteq Nat /\ \A k \in O : i <= k
  BY LenProperties DEF Of
<1>4. /\ n # None /\ n.status = NewStatus(q[i])
      /\ Creation(q[i]) => /\ n.delivered_at = None
                           /\ n.tracking_number = DeliveryOf[d].tracking_number
      /\ ~Creation(q[i]) => /\ n.tracking_number = r.tracking_number
                            /\ n.delivered_at # None <=>
                                 NewStatus(q[i]) = "delivered" \/ r.delivered_at # None
  BY DEF Becomes
<1> HIDE DEF t, O, P
<1>5. \A k \in O \ {i} : t[Down(i, k)] = q[k]
  BY <1>1
<1>6. w # None
  BY <1>2, <1>3
<1>7. Creation(q[i]) <=> r = None
  <2>1. ASSUME NEW k \in O, Creation(q[k]) PROVE k = i
    <3>1. k <= i /\ i <= k /\ k \in Nat /\ i \in Nat
      BY <1>2, <1>3, <2>1
    <3> QED
      BY <3>1
  <2> QED
    BY <1>2, <1>3, <1>6, <2>1
<1>8. \A k \in O \ {i} : ~Creation(q[k])
  <2> SUFFICES ASSUME NEW k \in O \ {i}, Creation(q[k]) PROVE FALSE
    OBVIOUS
  <2>1. k <= i /\ i <= k /\ k \in Nat /\ i \in Nat
    BY <1>2, <1>3
  <2> QED
    BY <2>1
<1>9. \A j \in P : ~Creation(t[j])
  BY <1>1, <1>8
<1>10. ASSUME P = {} PROVE n.status = w.status
  <2>1. \A l \in O : l = i
    BY <1>1, <1>10
  <2>2. \A l \in O : l <= i
    BY <1>3, <2>1
  <2> QED
    BY <1>2, <1>3, <1>4, <2>2
<1>11. ASSUME NEW j \in P, \A l \in P : l <= j
       PROVE  NewStatus(t[j]) = w.status
  <2>1. \A k \in O \ {i} : k <= Up(i, j)
    BY <1>1, <1>11
  <2>2. \A k \in O : k <= Up(i, j)
    BY <1>1, <1>3, <2>1
  <2> QED
    BY <1>1, <1>2, <2>2
<1>12. (\E k \in O : NewStatus(q[k]) = "delivered") <=>
         NewStatus(q[i]) = "delivered" \/ \E j \in P : NewStatus(t[j]) = "delivered"
  BY <1>1, <1>3, <1>5
<1>13. w.delivered_at = TRUE <=>
         n.delivered_at # None \/ \E j \in P : NewStatus(t[j]) = "delivered"
  <2>1. CASE Creation(q[i])
    <3>1. NewStatus(q[i]) # "delivered"
      BY <2>1 DEF NewStatus
    <3> QED
      BY <1>2, <1>4, <1>6, <1>7, <1>12, <2>1, <3>1
  <2>2. CASE ~Creation(q[i])
    BY <1>2, <1>4, <1>6, <1>7, <1>12, <2>2
  <2> QED
    BY <2>1, <2>2
<1>14. n.tracking_number = DeliveryOf[d].tracking_number
  BY <1>2, <1>4, <1>7
<1> QED
  BY <1>4, <1>6, <1>9, <1>10, <1>11, <1>13, <1>14 DEF Follows, t, P

\* Where the events about a delivery are in a queue that one has joined.
LEMMA OfAppended ==
  ASSUME NEW q \in Seq(Events), NEW e \in Events, NEW d \in DeliveryIds
  PROVE  /\ About(e) # d => Of(Append(q, e), d) = Of(q, d)
         /\ About(e) = d => Of(Append(q, e), d) = Of(q, d) \cup {Len(q) + 1}
         /\ Append(q, e)[Len(q) + 1] = e
         /\ \A k \in Of(q, d) : k \in 1 .. Len(q) /\ Append(q, e)[k] = q[k]
<1>1. Len(q) \in Nat /\ DOMAIN q = 1 .. Len(q)
  BY LenProperties
<1>2. /\ Append(q, e) \in Seq(Events) /\ Len(Append(q, e)) = Len(q) + 1
      /\ Append(q, e)[Len(q) + 1] = e
      /\ \A k \in 1 .. Len(q) : Append(q, e)[k] = q[k]
  BY AppendProperties
<1>3. DOMAIN Append(q, e) = 1 .. Len(q) + 1
  BY <1>2, LenProperties
<1>4. 1 .. Len(q) + 1 = 1 .. Len(q) \cup {Len(q) + 1}
  BY <1>1
<1> QED
  BY <1>1, <1>2, <1>3, <1>4 DEF Of

LEMMA OtherAppended ==
  ASSUME NEW q \in Seq(Events), NEW e \in Events, NEW d \in DeliveryIds, NEW w, NEW r,
         About(e) # d, Follows(q, w, r, d)
  PROVE  Follows(Append(q, e), w, r, d)
<1> DEFINE t == Append(q, e)
           O == Of(q, d)
<1>1. Of(t, d) = O /\ \A k \in O : t[k] = q[k]
  BY OfAppended
<1>2. Follows(q, w, r, d)
  OBVIOUS
<1> QED
  BY <1>1, <1>2 DEF Follows

LEMMA CreationAppended ==
  ASSUME NEW q \in Seq(Events), NEW d \in DeliveryIds, NEW r, NEW w,
         DeliveryCreated(d) \in Events, Follows(q, None, r, d),
         w # None, w.status = "pending", w.delivered_at = FALSE
  PROVE  Follows(Append(q, DeliveryCreated(d)), w, r, d)
<1> DEFINE e == DeliveryCreated(d)
           t == Append(q, e)
<1>1. About(e) = d /\ Creation(e) /\ NewStatus(e) = "pending"
  BY DEF About, Creation, NewStatus, DeliveryCreated, Event
<1>2. r = None /\ Of(q, d) = {}
  BY DEF Follows
<1>3. Of(t, d) = {Len(q) + 1} /\ t[Len(q) + 1] = e /\ Len(q) \in Nat
  BY <1>1, <1>2, OfAppended, LenProperties
<1> HIDE DEF e, t
<1> QED
  BY <1>1, <1>2, <1>3 DEF Follows, t, e

LEMMA ChangeAppended ==
  ASSUME NEW q \in Seq(Events), NEW d \in DeliveryIds, NEW r, NEW v, NEW w, NEW e \in Events,
         Follows(q, v, r, d), v # None, w # None,
         About(e) = d, ~Creation(e), w.status = NewStatus(e),
         w.delivered_at = TRUE <=> NewStatus(e) = "delivered" \/ v.delivered_at = TRUE
  PROVE  Follows(Append(q, e), w, r, d)
<1> DEFINE t == Append(q, e)
           O == Of(q, d)
           m == Len(q) + 1
<1>1. /\ Of(t, d) = O \cup {m} /\ t[m] = e /\ Len(q) \in Nat
      /\ \A k \in O : k \in 1 .. Len(q) /\ t[k] = q[k]
  BY OfAppended, LenProperties
<1>2. /\ r = None => \E k \in O : Creation(q[k])
      /\ \A k \in O : Creation(q[k]) => r = None /\ \A l \in O : k <= l
      /\ v.delivered_at = TRUE <=>
           (r # None /\ r.delivered_at # None) \/ \E k \in O : NewStatus(q[k]) = "delivered"
      /\ r # None => r.tracking_number = DeliveryOf[d].tracking_number
  BY DEF Follows
<1> HIDE DEF t, O
<1>3. /\ m \notin O /\ \A k \in O : k <= m /\ ~(m <= k)
  BY <1>1
<1>4. r = None => \E k \in O \cup {m} : Creation(t[k])
  BY <1>1, <1>2
<1>5. \A k \in O \cup {m} : Creation(t[k]) => r = None /\ \A l \in O \cup {m} : k <= l
  BY <1>1, <1>2, <1>3
<1>6. \A k \in O \cup {m} : (\A l \in O \cup {m} : l <= k) => NewStatus(t[k]) = w.status
  BY <1>1, <1>3
<1>7. w.delivered_at = TRUE <=>
        (r # None /\ r.delivered_at # None) \/ \E k \in O \cup {m} : NewStatus(t[k]) = "delivered"
  BY <1>1, <1>2
<1> HIDE DEF m
<1> QED
  BY <1>1, <1>2, <1>4, <1>5, <1>6, <1>7 DEF Follows, t

-----------------------------------------------------------------------------
(* Every step keeps the replica behind the write side.                     *)

LEMMA WriteKeepsBehind ==
  ASSUME IInv, ReplicaIsBehind,
         \/ \E u \in UserIds : RegisterUser(u)
         \/ \E p \in ParcelIds : CreateParcel(p)
         \/ \E d \in DeliveryIds : CreateDelivery(d)
         \/ \E d \in DeliveryIds, s \in Statuses : ChangeStatus(d, s)
  PROVE  ReplicaIsBehind'
<1> USE DEF IInv
<1>1. ASSUME NEW e \in Events, Write(e), About(e) = None, written'.deliveries = written.deliveries
      PROVE  ReplicaIsBehind'
  <2>1. None \notin DeliveryIds
    BY NoneAssumption
  <2> QED
    BY <1>1, <2>1, OtherAppended DEF ReplicaIsBehind, Write, TypeOK
<1>2. ASSUME NEW o \in DeliveryIds, NEW e \in Events, Write(e), About(e) = o, NEW state,
             written' = [written EXCEPT !.deliveries[o] = state],
             o \notin disturbed => Follows(outbox', state, replica.deliveries[o], o)
      PROVE  ReplicaIsBehind'
  <2>1. written'.deliveries[o] = state /\ \A d \in DeliveryIds \ {o} :
           written'.deliveries[d] = written.deliveries[d]
    BY <1>2 DEF TypeOK
  <2>2. outbox' = Append(outbox, e) /\ UNCHANGED <<replica, disturbed>>
    BY <1>2 DEF Write
  <2> SUFFICES ASSUME NEW d \in DeliveryIds \ disturbed
               PROVE  Follows(outbox', written'.deliveries[d], replica.deliveries[d], d)
    BY <2>2 DEF ReplicaIsBehind
  <2>3. CASE d = o
    BY <1>2, <2>1, <2>3
  <2>4. CASE d # o
    BY <1>2, <2>1, <2>2, <2>4, OtherAppended DEF ReplicaIsBehind, TypeOK
  <2> QED
    BY <2>3, <2>4
<1>3. ASSUME NEW u \in UserIds, RegisterUser(u) PROVE ReplicaIsBehind'
  <2>1. UserRegistered(u) \in Events /\ About(UserRegistered(u)) = None
    BY EventTypes DEF About, UserRegistered, Event
  <2> QED
    BY <1>1, <1>3, <2>1 DEF RegisterUser, TypeOK
<1>4. ASSUME NEW p \in ParcelIds, CreateParcel(p) PROVE ReplicaIsBehind'
  <2>1. ParcelCreated(p) \in Events /\ About(ParcelCreated(p)) = None
    BY EventTypes DEF About, ParcelCreated, Event
  <2>2. Write(ParcelCreated(p)) /\ written'.deliveries = written.deliveries
    BY <1>4 DEF CreateParcel, TypeOK
  <2> QED
    BY <1>1, <2>1, <2>2
<1>5. ASSUME NEW o \in DeliveryIds, CreateDelivery(o) PROVE ReplicaIsBehind'
  <2> DEFINE state == [status |-> "pending", delivered_at |-> FALSE]
  <2>1. DeliveryCreated(o) \in Events /\ About(DeliveryCreated(o)) = o
    BY EventTypes DEF About, DeliveryCreated, Event
  <2>2. state # None /\ state.status = "pending" /\ state.delivered_at = FALSE
    <3>1. state \in DeliveryStates
      BY DEF DeliveryStates
    <3> QED
      BY <3>1, NoneAssumption
  <2>3. /\ Write(DeliveryCreated(o)) /\ written.deliveries[o] = None
        /\ written' = [written EXCEPT !.deliveries[o] = state]
        /\ outbox' = Append(outbox, DeliveryCreated(o))
    BY <1>5 DEF CreateDelivery, Write
  <2> HIDE DEF state
  <2>4. o \notin disturbed => Follows(outbox', state, replica.deliveries[o], o)
    BY <2>1, <2>2, <2>3, CreationAppended DEF ReplicaIsBehind, TypeOK
  <2> QED
    BY <1>2, <2>1, <2>3, <2>4
<1>6. ASSUME NEW o \in DeliveryIds, NEW s \in Statuses, ChangeStatus(o, s) PROVE ReplicaIsBehind'
  <2> DEFINE v == written.deliveries[o]
             ever == s = "delivered" \/ v.delivered_at
             state == [status |-> s, delivered_at |-> ever]
             e == DeliveryStatusChanged(o, v.status, s)
  <2>1. v # None /\ v \in DeliveryStates
    BY <1>6 DEF ChangeStatus, TypeOK
  <2>2. e \in Events /\ About(e) = o /\ ~Creation(e) /\ NewStatus(e) = s
    BY <2>1, EventTypes
       DEF About, Creation, NewStatus, DeliveryStatusChanged, Event, DeliveryStates
  <2>3. /\ Write(e) /\ written' = [written EXCEPT !.deliveries[o] = state]
        /\ outbox' = Append(outbox, e)
    BY <1>6 DEF ChangeStatus, Write
  <2>4. ever \in BOOLEAN /\ v.delivered_at \in BOOLEAN
    BY <2>1 DEF DeliveryStates
  <2>5. ever = TRUE <=> s = "delivered" \/ v.delivered_at = TRUE
    BY <2>4
  <2> HIDE DEF ever
  <2>6. state \in DeliveryStates /\ state.status = s /\ state.delivered_at = ever
    BY <2>4 DEF DeliveryStates
  <2> HIDE DEF state, e, v
  <2>7. state # None
    BY <2>6, NoneAssumption
  <2>8. ASSUME o \notin disturbed PROVE Follows(outbox', state, replica.deliveries[o], o)
    <3>1. Follows(outbox, v, replica.deliveries[o], o)
      BY <2>8 DEF ReplicaIsBehind, v
    <3>2. outbox \in Seq(Events)
      BY DEF TypeOK
    <3> QED
      BY <2>1, <2>2, <2>3, <2>5, <2>6, <2>7, <3>1, <3>2, ChangeAppended
  <2> QED
    BY <1>2, <2>2, <2>3, <2>8
<1> QED
  BY <1>3, <1>4, <1>5, <1>6

LEMMA PublishKeepsBehind ==
  ASSUME IInv, ReplicaIsBehind, NEW i \in DOMAIN outbox, PublishEvent(i)
  PROVE  ReplicaIsBehind'
<1> DEFINE e == outbox[i]
<1>1. /\ outbox \in Seq(Events) /\ replica \in Databases /\ e \in Events
      /\ DOMAIN outbox = 1 .. Len(outbox) /\ Len(outbox) \in Nat
  BY AboutDeliveries, LenProperties DEF IInv, TypeOK
<1>2. /\ outbox' = RemoveAt(outbox, i) /\ replica' = Apply(replica, e)
      /\ disturbed' = disturbed \cup ({About(e)} \cap Waiting(i)) /\ written' = written
  BY DEF PublishEvent
<1> SUFFICES ASSUME NEW d \in DeliveryIds \ disturbed'
             PROVE  Follows(outbox', written.deliveries[d], replica'.deliveries[d], d)
  BY <1>2 DEF ReplicaIsBehind
<1>3. Follows(outbox, written.deliveries[d], replica.deliveries[d], d)
  BY <1>2 DEF ReplicaIsBehind
<1>4. CASE About(e) # d
  BY <1>1, <1>2, <1>3, <1>4, OtherRemoved, AppliedElsewhere
<1>5. CASE About(e) = d
  <2>1. \A j \in Of(outbox, d) : i <= j
    <3> SUFFICES ASSUME NEW j \in Of(outbox, d), ~(i <= j) PROVE FALSE
      OBVIOUS
    <3>1. j \in 1 .. i - 1 /\ About(outbox[j]) = d
      BY <1>1 DEF Of
    <3>2. d \in Waiting(i)
      BY <3>1, NoneAssumption DEF Waiting
    <3> QED
      BY <1>2, <1>5, <3>2
  <2>2. i \in Of(outbox, d) /\ Of(outbox, d) \subseteq Nat
    BY <1>1, <1>5 DEF Of
  <2>3. Creation(e) \/ replica.deliveries[d] # None
    <3>1. ASSUME replica.deliveries[d] = None PROVE Creation(e)
      <4>1. written.deliveries[d] # None
        BY <1>3, <2>2 DEF Follows
      <4>2. PICK k \in Of(outbox, d) : Creation(outbox[k])
        BY <1>3, <3>1, <4>1 DEF Follows
      <4>3. k <= i
        BY <1>3, <2>2, <4>2 DEF Follows
      <4> QED
        BY <2>1, <2>2, <4>2, <4>3
    <3> QED
      BY <3>1
  <2>4. Becomes(e, d, replica.deliveries[d], replica'.deliveries[d])
    BY <1>1, <1>2, <1>5, <2>3, AppliedHere
  <2> QED
    BY <1>1, <1>2, <1>3, <1>5, <2>1, <2>4, FirstTaken
<1> QED
  BY <1>4, <1>5

LEMMA LoseKeepsBehind ==
  ASSUME IInv, ReplicaIsBehind, NEW i \in DOMAIN outbox, LoseEvent(i)
  PROVE  ReplicaIsBehind'
<1> SUFFICES ASSUME NEW d \in DeliveryIds \ disturbed'
             PROVE  Follows(outbox', written.deliveries[d], replica.deliveries[d], d)
  BY DEF ReplicaIsBehind, LoseEvent
<1>1. d # None
  BY NoneAssumption
<1>2. About(outbox[i]) # d /\ d \notin disturbed
  BY <1>1 DEF LoseEvent
<1> QED
  BY <1>2, OtherRemoved DEF ReplicaIsBehind, LoseEvent, IInv, TypeOK

\* What a restart of the service takes from the outbox is disturbed.
LEMMA RestartKeepsBehind ==
  ASSUME IInv, ReplicaIsBehind, ServiceRestart
  PROVE  ReplicaIsBehind'
<1>1. /\ outbox' = <<>> /\ UNCHANGED <<written, replica>>
      /\ disturbed' = disturbed \cup ({About(outbox[i]) : i \in DOMAIN outbox} \ {None})
  BY DEF ServiceRestart
<1> SUFFICES ASSUME NEW d \in DeliveryIds \ disturbed'
             PROVE  Follows(<<>>, written.deliveries[d], replica.deliveries[d], d)
  BY <1>1 DEF ReplicaIsBehind
<1>2. d # None
  BY NoneAssumption
<1>3. Of(outbox, d) = {}
  BY <1>1, <1>2 DEF Of
<1>4. Of(<<>>, d) = {}
  BY DEF Of
<1>5. Follows(outbox, written.deliveries[d], replica.deliveries[d], d)
  BY <1>1 DEF ReplicaIsBehind
<1> QED
  BY <1>3, <1>4, <1>5 DEF Follows

LEMMA NextKeepsBehind ==
  ASSUME IInv, ReplicaIsBehind, [Next]_vars
  PROVE  ReplicaIsBehind'
<1>1. ASSUME UNCHANGED <<outbox, written, replica, disturbed>> PROVE ReplicaIsBehind'
  BY <1>1 DEF ReplicaIsBehind
<1>2. ASSUME NEW i \in DOMAIN place, Deliver(i) \/ Process(i) \/ Acknowledge(i)
      PROVE  ReplicaIsBehind'
  BY <1>1, <1>2 DEF Deliver, Process, Acknowledge
<1>3. ASSUME NEW i \in DOMAIN events, Update(i) PROVE ReplicaIsBehind'
  BY <1>1, <1>3 DEF Update
<1>4. CASE BrokerRestart
  BY <1>1, <1>4 DEF BrokerRestart
<1>5. CASE UNCHANGED vars
  BY <1>1, <1>5 DEF vars
<1> QED
  BY <1>2, <1>3, <1>4, <1>5, WriteKeepsBehind, PublishKeepsBehind, LoseKeepsBehind,
     RestartKeepsBehind DEF Next

LEMMA InitBehind == Init => ReplicaIsBehind
<1> SUFFICES ASSUME Init, NEW d \in DeliveryIds
             PROVE  Follows(<<>>, written.deliveries[d], replica.deliveries[d], d)
  BY DEF ReplicaIsBehind, Init
<1>1. written.deliveries[d] = None /\ replica.deliveries[d] = None
  BY DEF Init, EmptyDatabase
<1>2. Of(<<>>, d) = {}
  BY DEF Of
<1> QED
  BY <1>1, <1>2 DEF Follows

\* For any number of writes, whoever applies the accepted events in their order
\* knows of every delivery what the write side knows, unless one of the events of
\* the delivery was lost, published out of order or is still to be published.
\* (producer.cpp 64-112, read_database_component.cpp 31-105)
THEOREM ReplicaIsFaithful == Spec => []ReplicaFollows
<1>1. IInv /\ ReplicaIsBehind /\ [Next]_vars => ReplicaIsBehind'
  BY NextKeepsBehind
<1>2. IInv /\ ReplicaIsBehind => ReplicaFollows
  <2> SUFFICES ASSUME IInv, ReplicaIsBehind, NEW d \in DeliveryIds \ disturbed,
                      ~ \E i \in DOMAIN outbox : About(outbox[i]) = d
               PROVE  \/ written.deliveries[d] = None /\ GetDeliveryById(replica, d) = None
                      \/ /\ written.deliveries[d] # None
                         /\ GetDeliveryById(replica, d) # None
                         /\ GetDeliveryById(replica, d).status = written.deliveries[d].status
                         /\ (GetDeliveryById(replica, d).delivered_at # None)
                              = written.deliveries[d].delivered_at
                         /\ GetDeliveryById(replica, d).tracking_number
                              = DeliveryOf[d].tracking_number
    BY Zenon DEF ReplicaFollows
  <2> DEFINE w == written.deliveries[d]
             r == replica.deliveries[d]
  <2>1. Of(outbox, d) = {}
    BY DEF Of
  <2>2. /\ w = None => r = None
        /\ w # None => r # None /\ r.status = w.status
        /\ w # None => (w.delivered_at = TRUE <=> r.delivered_at # None)
        /\ r # None => r.tracking_number = DeliveryOf[d].tracking_number
    BY <2>1 DEF ReplicaIsBehind, Follows
  <2>3. w # None => w.delivered_at \in BOOLEAN
    BY DEF IInv, TypeOK, DeliveryStates
  <2>4. w # None => (r.delivered_at # None) = w.delivered_at
    BY <2>2, <2>3
  <2> QED
    BY <2>2, <2>4 DEF GetDeliveryById
<1> QED
  BY Invariance, InitBehind, <1>1, <1>2, PTL DEF Spec

-----------------------------------------------------------------------------
(* Sorting what a map holds.                                               *)

\* A set of numbers has a least one: what induction over them rests on.
LEMMA LeastNumber ==
  ASSUME NEW T, T \subseteq Nat, T # {}
  PROVE  \E x \in T : \A y \in T : x <= y
<1>1. PICK x \in T : \A y \in T : ~(<<y, x>> \in OpToRel(<, Nat))
  BY NatLessThanWellFounded, WFMin, Zenon
<1>2. ASSUME NEW y \in T PROVE x <= y
  <2>1. ~(<<y, x>> \in OpToRel(<, Nat))
    BY <1>1
  <2>2. x \in Nat /\ y \in Nat /\ <<y, x>> \in Nat \X Nat
    OBVIOUS
  <2>3. ~(<<y, x>>[1] < <<y, x>>[2])
    BY <2>1, <2>2, Zenon DEF OpToRel
  <2> QED
    BY <2>2, <2>3
<1> QED
  BY <1>2

\* S can be listed so that no item stands after one it is "before".
HasListing(S, before) ==
  \E s \in SetToSeqs(S) : \A i, j \in DOMAIN s : i < j => <<s[j], s[i]>> \notin before

\* One more item can be listed in front of those it may be in front of.
LEMMA ListingGrows ==
  ASSUME NEW T, IsFiniteSet(T), NEW x \in T, NEW before,
         \A y \in T : <<y, x>> \notin before, HasListing(T \ {x}, before)
  PROVE  HasListing(T, before)
<1> DEFINE R == T \ {x}
           n == Cardinality(T)
<1>1. /\ Cardinality(R) = n - 1 /\ n \in Nat \ {0}
  <2>1. Cardinality(R) = n - 1 /\ n # 0
    BY FS_RemoveElement, FS_EmptySet, Zenon
  <2> QED
    BY <2>1, FS_CardinalityType
<1>2. PICK g \in [1 .. n - 1 -> R] :
        /\ \A i, j \in 1 .. n - 1 : i # j => g[i] # g[j]
        /\ \A i, j \in 1 .. n - 1 : i < j => <<g[j], g[i]>> \notin before
  <2>1. PICK g \in SetToSeqs(R) :
          \A i, j \in DOMAIN g : i < j => <<g[j], g[i]>> \notin before
    BY DEF HasListing
  <2>2. g \in [1 .. n - 1 -> R] /\ \A i, j \in 1 .. n - 1 : i # j => g[i] # g[j]
    BY <1>1, <2>1 DEF SetToSeqs
  <2> QED
    BY <2>1, <2>2
<1> DEFINE f == [i \in 1 .. n |-> IF i = 1 THEN x ELSE g[i - 1]]
<1> HIDE DEF n
<1>3. \A i \in 1 .. n : i # 1 => i - 1 \in 1 .. n - 1 /\ f[i] = g[i - 1] /\ f[i] \in R
  BY <1>1, <1>2
<1>4. f[1] = x /\ x \notin R /\ f \in [1 .. n -> T]
  BY <1>1, <1>3
<1>5. \A i, j \in 1 .. n : i # j => f[i] # f[j]
  <2> SUFFICES ASSUME NEW i \in 1 .. n, NEW j \in 1 .. n, i # j PROVE f[i] # f[j]
    OBVIOUS
  <2>1. CASE i = 1 \/ j = 1
    BY <1>3, <1>4, <2>1
  <2>2. CASE i # 1 /\ j # 1
    <3>1. i - 1 # j - 1 /\ i - 1 \in 1 .. n - 1 /\ j - 1 \in 1 .. n - 1
      BY <1>1, <2>2
    <3> HIDE DEF f
    <3> QED
      BY <1>2, <1>3, <2>2, <3>1
  <2> QED
    BY <2>1, <2>2
<1>6. \A i, j \in 1 .. n : i < j => <<f[j], f[i]>> \notin before
  <2> SUFFICES ASSUME NEW i \in 1 .. n, NEW j \in 1 .. n, i < j
               PROVE  <<f[j], f[i]>> \notin before
    OBVIOUS
  <2>1. CASE i = 1
    BY <1>1, <1>4, <2>1
  <2>2. CASE i # 1
    <3>1. j # 1 /\ i - 1 < j - 1 /\ i - 1 \in 1 .. n - 1 /\ j - 1 \in 1 .. n - 1
      BY <1>1, <2>2
    <3> HIDE DEF f
    <3> QED
      BY <1>2, <1>3, <2>2, <3>1
  <2> QED
    BY <2>1, <2>2
<1>7. f \in SetToSeqs(T) /\ DOMAIN f = 1 .. n
  <2> HIDE DEF f
  <2> QED
    BY <1>4, <1>5 DEF SetToSeqs, n
<1> HIDE DEF f
<1> QED
  BY <1>6, <1>7 DEF HasListing

\* Whatever finite set in which there is always something to come first.
LEMMA ListingExists ==
  ASSUME NEW S, IsFiniteSet(S), NEW before,
         \A T \in SUBSET S : T # {} => \E x \in T : \A y \in T : <<y, x>> \notin before
  PROVE  HasListing(S, before)
<1> DEFINE Bad == {n \in Nat : \E T \in SUBSET S : Cardinality(T) = n /\ ~HasListing(T, before)}
<1>1. Bad = {}
  <2> SUFFICES ASSUME Bad # {} PROVE FALSE
    OBVIOUS
  <2>1. PICK n \in Bad : \A m \in Bad : n <= m
    <3>1. Bad \subseteq Nat
      OBVIOUS
    <3> HIDE DEF Bad
    <3> QED
      BY <3>1, LeastNumber
  <2>2. PICK T \in SUBSET S : Cardinality(T) = n /\ ~HasListing(T, before)
    OBVIOUS
  <2>3. IsFiniteSet(T) /\ n \in Nat
    BY FS_Subset
  <2>4. CASE T = {}
    <3>1. n = 0
      BY <2>2, <2>4, FS_EmptySet
    <3>2. <<>> \in SetToSeqs(T) /\ DOMAIN <<>> = {}
      <4>1. 1 .. Cardinality(T) = {}
        BY <2>2, <3>1
      <4>2. SetToSeqs(T) = {f \in [{} -> T] : \A i, j \in {} : i # j => f[i] # f[j]}
        BY <4>1 DEF SetToSeqs
      <4>3. <<>> \in [{} -> T]
        OBVIOUS
      <4> QED
        BY <4>2, <4>3
    <3> QED
      BY <2>2, <3>2 DEF HasListing
  <2>5. CASE T # {}
    <3>1. PICK x \in T : \A y \in T : <<y, x>> \notin before
      BY <2>5
    <3>2. T \ {x} \in SUBSET S /\ Cardinality(T \ {x}) = n - 1 /\ n # 0
      <4>1. Cardinality(T \ {x}) = Cardinality(T) - 1 /\ Cardinality(T) # 0
        BY <2>3, FS_RemoveElement, FS_EmptySet, Zenon
      <4> QED
        BY <2>2, <4>1
    <3>3. HasListing(T \ {x}, before)
      <4>1. n - 1 \in Nat /\ ~(n <= n - 1)
        BY <2>3, <3>2
      <4>2. n - 1 \notin Bad
        BY <2>1, <4>1
      <4> QED
        BY <3>2, <4>1, <4>2
    <3> QED
      BY <2>2, <2>3, <3>1, <3>3, ListingGrows
  <2> QED
    BY <2>4, <2>5
<1>2. Cardinality(S) \in Nat
  BY FS_CardinalityType
<1> QED
  BY <1>1, <1>2

LEMMA SortedLists ==
  ASSUME NEW S, NEW before, HasListing(S, before)
  PROVE  Sorted(S, before) \in SetToSeqs(S)
  BY DEF HasListing, Sorted

\* By time, the newest first.
LEMMA NewestFirstLists ==
  ASSUME NEW S, IsFiniteSet(S), NEW map, NEW m \in Nat,
         \A x \in S : map[x].created_at \in 0 .. m
  PROVE  NewestFirst(map, S) \in SetToSeqs(S)
<1> DEFINE before == {pair \in S \X S : map[pair[1]].created_at > map[pair[2]].created_at}
<1>1. ASSUME NEW T \in SUBSET S, T # {}
      PROVE  \E x \in T : \A y \in T : <<y, x>> \notin before
  <2> DEFINE ages == {m - map[x].created_at : x \in T}
  <2>1. ages \subseteq Nat /\ ages # {}
    BY <1>1
  <2>2. PICK age \in ages : \A other \in ages : age <= other
    <3> HIDE DEF ages
    <3> QED
      BY <2>1, LeastNumber
  <2>3. PICK x \in T : age = m - map[x].created_at
    OBVIOUS
  <2>4. ASSUME NEW y \in T PROVE <<y, x>> \notin before
    <3>1. m - map[x].created_at <= m - map[y].created_at
      BY <2>2, <2>3
    <3>2. map[x].created_at \in 0 .. m /\ map[y].created_at \in 0 .. m
      OBVIOUS
    <3>3. ~(map[y].created_at > map[x].created_at)
      BY <3>1, <3>2
    <3> QED
      BY <3>3
  <2> QED
    BY <2>4
<1>2. HasListing(S, before)
  <2> HIDE DEF before
  <2> QED
    BY <1>1, ListingExists
<1> QED
  BY <1>2, SortedLists DEF NewestFirst

\* By number.
LEMMA ByNumberLists ==
  ASSUME NEW S, IsFiniteSet(S), S \subseteq Nat
  PROVE  Sorted(S, {pair \in S \X S : pair[1] < pair[2]}) \in SetToSeqs(S)
<1> DEFINE before == {pair \in S \X S : pair[1] < pair[2]}
<1>1. ASSUME NEW T \in SUBSET S, T # {}
      PROVE  \E x \in T : \A y \in T : <<y, x>> \notin before
  <2>1. PICK x \in T : \A y \in T : x <= y
    BY <1>1, LeastNumber
  <2>2. \A y \in T : x \in Nat /\ y \in Nat /\ ~(y < x)
    BY <2>1
  <2> QED
    BY <2>2
<1>2. HasListing(S, before)
  <2> HIDE DEF before
  <2> QED
    BY <1>1, ListingExists
<1> QED
  BY <1>2, SortedLists

-----------------------------------------------------------------------------
(* Turning the pages of a list.                                            *)

\* Later pages begin behind earlier ones.
LEMMA PagesApart ==
  ASSUME NEW k \in Nat, NEW q \in Nat, NEW n \in Nat, k < q
  PROVE  k * n + n <= q * n
<1> DEFINE r == q - k - 1
<1>1. r \in Nat /\ q = k + 1 + r
  OBVIOUS
<1>2. r * n \in Nat
  BY <1>1
<1> HIDE DEF r
<1>3. (k + 1 + r) * n = k * n + n + r * n
  BY <1>1
<1>4. k * n \in Nat
  OBVIOUS
<1> QED
  BY <1>1, <1>2, <1>3, <1>4

\* The page an item at position i is on.
LEMMA PageOfPosition ==
  ASSUME NEW i \in Nat \ {0}, NEW n \in Nat \ {0}
  PROVE  \E q \in 0 .. i - 1 :
           /\ q * n + 1 <= i /\ i <= q * n + n
           /\ \A k \in Nat : k * n + 1 <= i /\ i <= k * n + n => k = q
<1> DEFINE q == (i - 1) \div n
<1>1. q \in Nat /\ q * n <= i - 1 /\ i - 1 < q * n + n
  <2>1. i - 1 \in Nat
    OBVIOUS
  <2> QED
    BY <2>1
<1> HIDE DEF q
<1>2. q * n \in Nat /\ q <= q * n
  <2>1. q * n = q * (n - 1) + q
    BY <1>1
  <2>2. q * (n - 1) \in Nat
    BY <1>1
  <2> QED
    BY <1>1, <2>1, <2>2
<1>3. q \in 0 .. i - 1 /\ q * n + 1 <= i /\ i <= q * n + n
  BY <1>1, <1>2
<1>4. \A k \in Nat : k * n + 1 <= i /\ i <= k * n + n => k = q
  <2> SUFFICES ASSUME NEW k \in Nat, k * n + 1 <= i, i <= k * n + n PROVE k = q
    OBVIOUS
  <2>1. k * n \in Nat
    OBVIOUS
  <2>2. CASE k < q
    BY <1>1, <1>2, <2>1, <2>2, PagesApart
  <2>3. CASE q < k
    BY <1>1, <1>2, <2>1, <2>3, PagesApart
  <2> QED
    BY <1>1, <2>2, <2>3
<1> QED
  BY <1>3, <1>4, Zenon

\* What ApplyPagination cuts out.
LEMMA PageRange ==
  ASSUME NEW S, NEW list \in Seq(S), NEW from \in Nat \ {0}, NEW to \in Nat
  PROVE  Range(ApplyPagination(list, from, to))
           = {list[j] : j \in {j \in 1 .. Len(list) : from <= j /\ j <= to}}
<1> DEFINE len == Len(list)
           end == IF len < to THEN len ELSE to
           page == ApplyPagination(list, from, to)
<1>1. /\ len \in Nat /\ end \in Nat /\ end <= len /\ end <= to
      /\ \A j \in 1 .. len : list[j] \in S
      /\ \A j \in 1 .. len : j <= to => j <= end
  BY LenProperties, ElementOfSeq
<1>2. page = IF from > end THEN <<>> ELSE SubSeq(list, from, end)
  <2>1. (IF from > 1 THEN from ELSE 1) = from
    OBVIOUS
  <2> QED
    BY <2>1 DEF ApplyPagination
<1> HIDE DEF len, end, page
<1>3. CASE from > end
  <2>1. page = <<>>
    BY <1>2, <1>3
  <2>2. {j \in 1 .. len : from <= j /\ j <= to} = {}
    BY <1>1, <1>3
  <2> QED
    BY <2>1, <2>2 DEF Range, page, len
<1>4. CASE from <= end
  <2>1. page = SubSeq(list, from, end)
    BY <1>1, <1>2, <1>4
  <2>2. /\ page \in Seq(S) /\ Len(page) = end - from + 1
        /\ \A i \in 1 .. end - from + 1 : page[i] = list[from + i - 1]
    <3>1. \A i \in from .. end : list[i] \in S
      BY <1>1
    <3> QED
      BY <1>1, <1>4, <2>1, <3>1, SubSeqProperties
  <2>3. DOMAIN page = 1 .. end - from + 1
    BY <2>2, LenProperties
  <2>4. ASSUME NEW i \in DOMAIN page
        PROVE  \E j \in 1 .. len : from <= j /\ j <= to /\ page[i] = list[j]
    <3>1. from + i - 1 \in 1 .. len /\ from <= from + i - 1 /\ from + i - 1 <= to
      BY <1>1, <1>4, <2>3
    <3> QED
      BY <2>2, <2>3, <3>1
  <2>5. ASSUME NEW j \in 1 .. len, from <= j, j <= to
        PROVE  \E i \in DOMAIN page : page[i] = list[j]
    <3>1. j - from + 1 \in 1 .. end - from + 1 /\ from + (j - from + 1) - 1 = j
      BY <1>1, <1>4, <2>5
    <3> QED
      BY <2>2, <2>3, <3>1
  <2> QED
    BY <2>4, <2>5 DEF Range, page, len
<1> QED
  BY <1>1, <1>3, <1>4

\* Whatever the order of a list and the size of its pages, an item is on one.
LEMMA ListedOnOnePage ==
  ASSUME NEW S, IsFiniteSet(S), NEW list \in SetToSeqs(S), NEW x \in S,
         NEW n \in Nat \ {0}, NEW last \in Nat, Cardinality(S) <= last
  PROVE  OnOnePage(x, [k \in 0 .. last |-> ApplyPagination(list, k * n + 1, k * n + n)])
<1> DEFINE c == Cardinality(S)
           pages == [k \in 0 .. last |-> ApplyPagination(list, k * n + 1, k * n + n)]
<1>1. c \in Nat
  BY FS_CardinalityType
<1>2. list \in [1 .. c -> S] /\ \A i, j \in 1 .. c : i # j => list[i] # list[j]
  BY DEF SetToSeqs
<1> HIDE DEF c
<1>3. list \in Seq(S) /\ Len(list) = c
  <2>1. list = [i \in 1 .. c |-> list[i]] /\ \A i \in 1 .. c : list[i] \in S
    BY <1>2
  <2>2. list \in Seq(S)
    BY <1>1, <2>1
  <2>3. DOMAIN list = 1 .. c /\ DOMAIN list = 1 .. Len(list) /\ Len(list) \in Nat
    BY <1>2, <2>2, LenProperties
  <2> QED
    BY <1>1, <2>2, <2>3
<1>4. PICK i \in 1 .. c : list[i] = x
  <2>1. list \in Injection(1 .. c, S)
    BY <1>2, Zenon DEF Injection, IsInjective
  <2>2. Cardinality(1 .. c) = Cardinality(S)
    BY <1>1, FS_Interval DEF c
  <2>3. list \in Surjection(1 .. c, S)
    BY <2>1, <2>2, FS_Injection, Zenon
  <2> QED
    BY <2>3, Zenon DEF Surjection
<1>5. PICK q \in 0 .. i - 1 :
        /\ q * n + 1 <= i /\ i <= q * n + n
        /\ \A k \in Nat : k * n + 1 <= i /\ i <= k * n + n => k = q
  <2>1. i \in Nat \ {0}
    BY <1>1
  <2> QED
    BY <2>1, PageOfPosition, Zenon
<1>6. q \in 0 .. last
  BY <1>1, <1>4, <1>5 DEF c
<1>7. ASSUME NEW k \in 0 .. last
      PROVE  x \in Range(pages[k]) <=> k = q
  <2>1. k * n + 1 \in Nat \ {0} /\ k * n + n \in Nat
    OBVIOUS
  <2>2. Range(pages[k]) = {list[j] : j \in {j \in 1 .. c : k * n + 1 <= j /\ j <= k * n + n}}
    BY <1>3, <2>1, PageRange
  <2>3. x \in Range(pages[k]) <=> k * n + 1 <= i /\ i <= k * n + n
    BY <1>2, <1>4, <2>2
  <2> QED
    BY <1>5, <2>3
<1>8. {k \in DOMAIN pages : x \in Range(pages[k])} = {q}
  BY <1>6, <1>7
<1> HIDE DEF pages
<1>9. Cardinality({k \in DOMAIN pages : x \in Range(pages[k])}) = 1
  BY <1>8, FS_Singleton
<1>10. OnOnePage(x, pages)
  BY <1>9 DEF OnOnePage
<1> QED
  BY <1>10 DEF pages

-----------------------------------------------------------------------------
(* That every entry is found.                                              *)

\* The entries are of the events that were published, at times that are past.
Genuine(db) ==
  /\ \A u \in UserIds : db.users[u] # None =>
       /\ db.users[u] = UserEntry(u, db.users[u].created_at)
       /\ db.users[u].created_at < db.now
  /\ \A p \in ParcelIds : db.parcels[p] # None =>
       db.parcels[p].sender = SenderOf[p] /\ db.parcels[p].created_at < db.now
  /\ \A d \in DeliveryIds : db.deliveries[d] # None =>
       /\ db.deliveries[d].sender_id = DeliveryOf[d].sender_id
       /\ db.deliveries[d].receiver_id = DeliveryOf[d].receiver_id
       /\ db.deliveries[d].delivered_at # None => db.deliveries[d].delivered_at < db.now

GenuineDatabases == Genuine(replica) /\ Genuine(readDb)

\* Stamps that are before some time stay before a later one.
LEMMA PastStaysPast ==
  ASSUME NEW db \in Databases, Genuine(db), NEW m \in Nat, db.now <= m
  PROVE  /\ \A u \in UserIds : db.users[u] # None => db.users[u].created_at < m
         /\ \A p \in ParcelIds : db.parcels[p] # None => db.parcels[p].created_at < m
         /\ \A d \in DeliveryIds :
              db.deliveries[d] # None /\ db.deliveries[d].delivered_at # None =>
                db.deliveries[d].delivered_at < m
<1>1. db.now \in Nat
  BY DEF Databases
<1>2. \A u \in UserIds : db.users[u] # None => db.users[u].created_at \in Nat
  BY DEF Databases, UserEntries
<1>3. \A p \in ParcelIds : db.parcels[p] # None => db.parcels[p].created_at \in Nat
  BY DEF Databases, ParcelEntries
<1>4. \A d \in DeliveryIds : db.deliveries[d] # None /\ db.deliveries[d].delivered_at # None =>
        db.deliveries[d].delivered_at \in Nat
  <2>1. \A d \in DeliveryIds : db.deliveries[d] # None => db.deliveries[d] \in DeliveryDtos
    BY DEF Databases
  <2> QED
    BY <2>1 DEF DeliveryDtos
<1>5. /\ \A u \in UserIds : db.users[u] # None => db.users[u].created_at < db.now
      /\ \A p \in ParcelIds : db.parcels[p] # None => db.parcels[p].created_at < db.now
      /\ \A d \in DeliveryIds :
           db.deliveries[d] # None /\ db.deliveries[d].delivered_at # None =>
             db.deliveries[d].delivered_at < db.now
  BY DEF Genuine
<1> QED
  BY <1>1, <1>2, <1>3, <1>4, <1>5

LEMMA ApplyGenuine ==
  ASSUME NEW db \in Databases, Genuine(db), NEW e \in Events
  PROVE  Genuine(Apply(db, e))
<1> DEFINE after == Apply(db, e)
<1>1. db.now \in Nat
  BY DEF Databases
<1>2. ASSUME NEW u \in UserIds, e = UserRegistered(u) PROVE Genuine(after)
  <2>1. PICK entry \in UserEntries :
          /\ entry = UserEntry(u, db.now)
          /\ Apply(db, UserRegistered(u)) =
               [db EXCEPT !.users = [@ EXCEPT ![u] = entry],
                          !.loginIndex = [@ EXCEPT ![UserOf[u].login] = u], !.now = @ + 1]
    BY UserApplied
  <2>2. /\ after.now = db.now + 1 /\ after.users[u] = entry
        /\ \A v \in UserIds \ {u} : after.users[v] = db.users[v]
        /\ after.parcels = db.parcels /\ after.deliveries = db.deliveries
    BY <1>2, <2>1 DEF Databases
  <2>3. entry.created_at = db.now /\ entry = UserEntry(u, entry.created_at)
    BY <2>1, Zenon DEF UserEntry
  <2> HIDE DEF after
  <2> QED
    BY <1>1, <2>2, <2>3, PastStaysPast DEF Genuine
<1>3. ASSUME NEW p \in ParcelIds, e = ParcelCreated(p) PROVE Genuine(after)
  <2>1. PICK entry \in ParcelEntries :
          /\ entry = [sender |-> SenderOf[p], created_at |-> db.now]
          /\ Apply(db, ParcelCreated(p)) =
               [db EXCEPT !.parcels = [@ EXCEPT ![p] = entry], !.now = @ + 1]
    BY ParcelApplied
  <2>2. /\ after.now = db.now + 1 /\ after.parcels[p] = entry
        /\ \A q \in ParcelIds \ {p} : after.parcels[q] = db.parcels[q]
        /\ after.users = db.users /\ after.deliveries = db.deliveries
    BY <1>3, <2>1 DEF Databases
  <2>3. entry.created_at = db.now /\ entry.sender = SenderOf[p]
    BY <2>1
  <2> HIDE DEF after
  <2> QED
    BY <1>1, <2>2, <2>3, PastStaysPast DEF Genuine
<1>4. ASSUME NEW d \in DeliveryIds, e = DeliveryCreated(d) PROVE Genuine(after)
  <2>1. PICK dto \in DeliveryDtos :
          /\ dto = NewDto(d)
          /\ Apply(db, DeliveryCreated(d)) =
               [db EXCEPT !.deliveries = [@ EXCEPT ![d] = dto],
                          !.trackingToId = [@ EXCEPT ![DeliveryOf[d].tracking_number] = d]]
    BY DeliveryApplied
  <2>2. /\ dto.sender_id = DeliveryOf[d].sender_id /\ dto.receiver_id = DeliveryOf[d].receiver_id
        /\ dto.delivered_at = None
    BY <2>1, DeliveryApplied
  <2>3. /\ after.now = db.now /\ after.deliveries[d] = dto
        /\ \A o \in DeliveryIds \ {d} : after.deliveries[o] = db.deliveries[o]
        /\ after.users = db.users /\ after.parcels = db.parcels
    BY <1>4, <2>1 DEF Databases
  <2> HIDE DEF after
  <2> QED
    BY <2>2, <2>3 DEF Genuine
<1>5. ASSUME NEW d \in DeliveryIds, NEW old \in Statuses \cup {"pending"}, NEW new \in Statuses,
             e = DeliveryStatusChanged(d, old, new)
      PROVE  Genuine(after)
  <2>1. CASE db.deliveries[d] = None
    BY <1>5, <2>1, StatusDropped
  <2>2. CASE db.deliveries[d] # None
    <3> DEFINE m == ClockAfter(db, new)
               dto == Changed(db, d, new)
    <3>1. /\ dto \in DeliveryDtos /\ dto.delivered_at = DeliveredAt(db, d, new)
          /\ dto.sender_id = db.deliveries[d].sender_id
          /\ dto.receiver_id = db.deliveries[d].receiver_id
          /\ after.now = m /\ after.deliveries[d] = dto
          /\ \A o \in DeliveryIds \ {d} : after.deliveries[o] = db.deliveries[o]
          /\ after.users = db.users /\ after.parcels = db.parcels
      BY <1>5, <2>2, StatusApplied
    <3> HIDE DEF dto
    <3>2. m \in Nat /\ db.now <= m
      BY <1>1, ClockMovesOn
    <3>3. /\ \A u \in UserIds : db.users[u] # None => db.users[u].created_at < m
          /\ \A p \in ParcelIds : db.parcels[p] # None => db.parcels[p].created_at < m
          /\ \A o \in DeliveryIds :
               db.deliveries[o] # None /\ db.deliveries[o].delivered_at # None =>
                 db.deliveries[o].delivered_at < m
      BY <3>2, PastStaysPast
    <3>4. dto.delivered_at # None => dto.delivered_at < m
      <4>1. CASE new = "delivered"
        BY <1>1, <3>1, <4>1 DEF DeliveredAt, ClockAfter
      <4>2. CASE new # "delivered"
        <5>1. dto.delivered_at = db.deliveries[d].delivered_at
          BY <3>1, <4>2 DEF DeliveredAt
        <5> QED
          BY <2>2, <3>3, <5>1
      <4> QED
        BY <4>1, <4>2
    <3> HIDE DEF m, after
    <3> QED
      BY <2>2, <3>1, <3>3, <3>4 DEF Genuine
  <2> QED
    BY <2>1, <2>2
<1> QED
  BY <1>2, <1>3, <1>4, <1>5 DEF Events

LEMMA InitGenuine == Init => GenuineDatabases
BY DEF Init, EmptyDatabase, GenuineDatabases, Genuine

LEMMA NextGenuine ==
  ASSUME IInv, GenuineDatabases, [Next]_vars
  PROVE  GenuineDatabases'
<1>1. ASSUME NEW i \in DOMAIN events, Update(i) PROVE GenuineDatabases'
  <2>1. events[i] \in Events
    BY ElementOfSeq, LenProperties DEF IInv, TypeOK
  <2> QED
    BY <1>1, <2>1, ApplyGenuine DEF GenuineDatabases, Update, IInv, TypeOK
<1>2. ASSUME NEW i \in DOMAIN outbox, PublishEvent(i) PROVE GenuineDatabases'
  <2>1. outbox[i] \in Events
    BY ElementOfSeq, LenProperties DEF IInv, TypeOK
  <2> QED
    BY <1>2, <2>1, ApplyGenuine DEF GenuineDatabases, PublishEvent, IInv, TypeOK
<1>3. CASE ServiceRestart
  <2>1. Genuine(EmptyDatabase)
    BY DEF EmptyDatabase, Genuine
  <2> QED
    BY <1>3, <2>1 DEF GenuineDatabases, ServiceRestart
<1>4. CASE UNCHANGED <<replica, readDb>>
  BY <1>4 DEF GenuineDatabases
<1> QED
  BY <1>1, <1>2, <1>3, <1>4
     DEF Next, vars, RegisterUser, CreateParcel, CreateDelivery, ChangeStatus, Write,
         LoseEvent, Deliver, Process, Acknowledge, BrokerRestart

\* The mask of one '*' finds every name.
LEMMA StarFindsAll ==
  ASSUME NEW text \in Seq(Letters)
  PROVE  HasPart(text, Front([i \in DOMAIN <<Star>> |->
                                IF <<Star>>[i] = Star THEN Percent ELSE <<Star>>[i]]))
<1> DEFINE pattern == [i \in DOMAIN <<Star>> |-> IF <<Star>>[i] = Star THEN Percent ELSE <<Star>>[i]]
<1>1. pattern = [i \in 1 .. 1 |-> Percent]
  OBVIOUS
<1>2. pattern \in Seq({Percent}) /\ Len(pattern) = 1
  BY <1>1
<1>3. Front(pattern) = <<>>
  <2> HIDE DEF pattern
  <2> QED
    BY <1>2, SubSeqEmpty DEF Front
<1> HIDE DEF pattern
<1>4. Len(text) \in Nat /\ 1 \in 1 .. Len(text) + 1
  BY LenProperties
<1> DEFINE rest == SubSeq(text, 1, Len(text))
<1>5. Len(rest) \in Nat
  <2>1. \A i \in 1 .. Len(text) : text[i] \in Letters
    BY <1>4, ElementOfSeq
  <2> QED
    BY <1>4, <2>1, SubSeqProperties, LenProperties
<1> HIDE DEF rest
<1>6. SubSeq(<<>>, 1, 0) = SubSeq(rest, 1, 0) /\ Len(<<>>) = 0
  BY SubSeqEmpty
<1>7. IsPrefix(<<>>, rest)
  BY <1>5, <1>6 DEF IsPrefix
<1>8. HasPart(text, <<>>)
  BY <1>4, <1>7 DEF HasPart, rest
<1> QED
  BY <1>3, <1>8 DEF pattern

LEMMA UserOnOnePage ==
  ASSUME NEW db \in Databases, Genuine(db), NEW u \in UserIds, db.users[u] # None
  PROVE  OnOnePage(u, UserPages(db))
<1> DEFINE last == Cardinality(UserIds)
           found == {v \in UserIds : db.users[v] # None}
           list == Sorted(found, {pair \in found \X found : pair[1] < pair[2]})
<1>1. IsFiniteSet(found) /\ found \subseteq Nat /\ Cardinality(found) <= last /\ last \in Nat
  BY IdsAssumption, FS_Subset, FS_CardinalityType
<1>2. list \in SetToSeqs(found)
  <2> HIDE DEF found
  <2> QED
    BY <1>1, ByNumberLists
<1>3. UserPages(db) = [k \in 0 .. last |-> ApplyPagination(list, k * 1 + 1, k * 1 + 1)]
  <2> DEFINE pattern == [i \in DOMAIN <<Star>> |->
                           IF <<Star>>[i] = Star THEN Percent ELSE <<Star>>[i]]
  <2>1. found = {v \in UserIds : /\ db.users[v] # None
                                 /\ HasPart(db.users[v].name, Front(pattern))}
    <3>1. ASSUME NEW v \in found PROVE HasPart(db.users[v].name, Front(pattern))
      <4>1. v \in UserIds /\ db.users[v] # None
        OBVIOUS
      <4>2. db.users[v] = UserEntry(v, db.users[v].created_at)
        BY <4>1 DEF Genuine
      <4>3. db.users[v].name = UserOf[v].name
        BY <4>2 DEF UserEntry
      <4>4. UserOf[v].name \in Seq(Letters)
        BY <4>1, NameAssumption, Zenon
      <4> QED
        BY <4>3, <4>4, StarFindsAll
    <3> HIDE DEF pattern
    <3> QED
      BY <3>1
  <2>2. ASSUME NEW k \in 0 .. last
        PROVE  SearchUsersByNameMask(db, <<Star>>, k + 1, k + 1)
                 = ApplyPagination(list, k * 1 + 1, k * 1 + 1)
    <3>1. k * 1 = k
      OBVIOUS
    <3>2. SearchUsersByNameMask(db, <<Star>>, k + 1, k + 1) = ApplyPagination(list, k + 1, k + 1)
      BY <2>1, Zenon DEF SearchUsersByNameMask
    <3> QED
      BY <3>1, <3>2
  <2> HIDE DEF list
  <2> QED
    BY <2>2, Zenon DEF UserPages
<1>4. u \in found
  OBVIOUS
<1> HIDE DEF list, found, last
<1>5. 1 \in Nat \ {0}
  OBVIOUS
<1>6. OnOnePage(u, [k \in 0 .. last |-> ApplyPagination(list, k * 1 + 1, k * 1 + 1)])
  BY <1>1, <1>2, <1>4, <1>5, ListedOnOnePage
<1> QED
  BY <1>3, <1>6

\* Parcels that are there have stamps before now.
LEMMA ParcelStamps ==
  ASSUME NEW db \in Databases, Genuine(db), NEW p \in ParcelIds, db.parcels[p] # None
  PROVE  db.parcels[p].created_at \in 0 .. db.now
<1>1. db.parcels[p] \in ParcelEntries /\ db.now \in Nat
  BY DEF Databases
<1> QED
  BY <1>1 DEF ParcelEntries, Genuine

LEMMA ParcelOnOnePage ==
  ASSUME NEW db \in Databases, Genuine(db), NEW p \in ParcelIds, db.parcels[p] # None,
         NEW n \in 1 .. 2
  PROVE  OnOnePage(p, ParcelPages(db, SenderOf[p], n))
<1> DEFINE last == Cardinality(ParcelIds)
           found == {q \in ParcelIds : db.parcels[q] # None /\ db.parcels[q].sender = SenderOf[p]}
           list == NewestFirst(db.parcels, found)
<1>1. IsFiniteSet(found) /\ Cardinality(found) <= last /\ last \in Nat
  BY IdsAssumption, FS_Subset, FS_CardinalityType
<1>2. db.now \in Nat /\ \A q \in found : db.parcels[q].created_at \in 0 .. db.now
  BY ParcelStamps DEF Databases
<1>3. p \in found
  BY DEF Genuine
<1>4. ParcelPages(db, SenderOf[p], n) =
        [k \in 0 .. last |-> ApplyPagination(list, k * n + 1, k * n + n)]
  BY Zenon DEF ParcelPages, GetParcelsBySender
<1> HIDE DEF found
<1>5. list \in SetToSeqs(found)
  BY <1>1, <1>2, NewestFirstLists
<1>6. n \in Nat \ {0}
  OBVIOUS
<1> HIDE DEF list, last
<1>7. OnOnePage(p, [k \in 0 .. last |-> ApplyPagination(list, k * n + 1, k * n + n)])
  BY <1>1, <1>3, <1>5, <1>6, ListedOnOnePage, Zenon
<1> QED
  BY <1>4, <1>7

\* A list of the deliveries that are there and that a party has part in.
LEMMA DeliveryOnOnePage ==
  ASSUME NEW db \in Databases, NEW found \in SUBSET DeliveryIds,
         \A d \in found : db.deliveries[d] # None, NEW d \in found, NEW n \in 1 .. 2
  PROVE  OnOnePage(d, [k \in 0 .. Cardinality(DeliveryIds) |->
                         ApplyPagination(NewestFirst(db.deliveries, found), k * n + 1, k * n + n)])
<1> DEFINE last == Cardinality(DeliveryIds)
           list == NewestFirst(db.deliveries, found)
<1>1. IsFiniteSet(found) /\ Cardinality(found) <= last /\ last \in Nat
  BY IdsAssumption, FS_Subset, FS_CardinalityType
<1>2. 0 \in Nat /\ \A o \in found : db.deliveries[o].created_at \in 0 .. 0
  <2>1. \A o \in found : db.deliveries[o] \in DeliveryDtos
    BY DEF Databases
  <2> QED
    BY <2>1 DEF DeliveryDtos
<1>3. list \in SetToSeqs(found)
  BY <1>1, <1>2, NewestFirstLists
<1>4. n \in Nat \ {0}
  OBVIOUS
<1> HIDE DEF list, last
<1>5. OnOnePage(d, [k \in 0 .. last |-> ApplyPagination(list, k * n + 1, k * n + n)])
  BY <1>1, <1>3, <1>4, ListedOnOnePage, Zenon
<1> QED
  BY <1>5 DEF list, last

LEMMA DeliveriesOnOnePage ==
  ASSUME NEW db \in Databases, Genuine(db), NEW d \in DeliveryIds, db.deliveries[d] # None,
         NEW n \in 1 .. 2
  PROVE  /\ OnOnePage(d, SentPages(db, DeliveryOf[d].sender_id, n))
         /\ OnOnePage(d, ReceivedPages(db, DeliveryOf[d].receiver_id, n))
<1>1. OnOnePage(d, SentPages(db, DeliveryOf[d].sender_id, n))
  <2> DEFINE found == {o \in DeliveryIds : /\ db.deliveries[o] # None
                                           /\ db.deliveries[o].sender_id = DeliveryOf[d].sender_id}
  <2>1. d \in found /\ found \in SUBSET DeliveryIds /\ \A o \in found : db.deliveries[o] # None
    BY DEF Genuine
  <2>2. SentPages(db, DeliveryOf[d].sender_id, n) =
          [k \in 0 .. Cardinality(DeliveryIds) |->
             ApplyPagination(NewestFirst(db.deliveries, found), k * n + 1, k * n + n)]
    BY Zenon DEF SentPages, GetDeliveriesBySender
  <2> HIDE DEF found
  <2> QED
    BY <2>1, <2>2, DeliveryOnOnePage, Zenon
<1>2. OnOnePage(d, ReceivedPages(db, DeliveryOf[d].receiver_id, n))
  <2> DEFINE found == {o \in DeliveryIds :
                         /\ db.deliveries[o] # None
                         /\ db.deliveries[o].receiver_id = DeliveryOf[d].receiver_id}
  <2>1. d \in found /\ found \in SUBSET DeliveryIds /\ \A o \in found : db.deliveries[o] # None
    BY DEF Genuine
  <2>2. ReceivedPages(db, DeliveryOf[d].receiver_id, n) =
          [k \in 0 .. Cardinality(DeliveryIds) |->
             ApplyPagination(NewestFirst(db.deliveries, found), k * n + 1, k * n + n)]
    BY Zenon DEF ReceivedPages, GetDeliveriesByReceiver
  <2> HIDE DEF found
  <2> QED
    BY <2>1, <2>2, DeliveryOnOnePage, Zenon
<1> QED
  BY <1>1, <1>2

\* Whatever calls fed a read database, look-ups find every entry, and a client
\* that turns the pages of a list meets every entry exactly once: sorting and
\* cutting neither drop an entry nor show it twice, for lists of any length.
\* (read_database_component.cpp 31-262)
THEOREM EntriesAreFound == Spec => []EveryEntryIsFound
<1>1. IInv /\ GenuineDatabases /\ [Next]_vars => GenuineDatabases'
  BY NextGenuine
<1>2. IInv /\ GenuineDatabases /\ IndexesAgree => EveryEntryIsFound
  <2> SUFFICES ASSUME IInv, GenuineDatabases, IndexesAgree PROVE EveryEntryIsFound
    OBVIOUS
  <2>1. ASSUME NEW db \in {readDb, replica}
        PROVE  db \in Databases /\ Genuine(db)
    BY DEF IInv, TypeOK, GenuineDatabases
  <2>2. ASSUME NEW db \in {readDb, replica}, NEW u \in UserIds, GetUserById(db, u) # None
        PROVE  OnOnePage(u, UserPages(db))
    BY <2>1, <2>2, UserOnOnePage DEF GetUserById
  <2>3. ASSUME NEW db \in {readDb, replica}, NEW p \in ParcelIds, NEW n \in 1 .. 2,
               GetParcelById(db, p) # None
        PROVE  OnOnePage(p, ParcelPages(db, SenderOf[p], n))
    BY <2>1, <2>3, ParcelOnOnePage DEF GetParcelById
  <2>4. ASSUME NEW db \in {readDb, replica}, NEW d \in DeliveryIds, NEW n \in 1 .. 2,
               GetDeliveryById(db, d) # None
        PROVE  /\ OnOnePage(d, SentPages(db, DeliveryOf[d].sender_id, n))
               /\ OnOnePage(d, ReceivedPages(db, DeliveryOf[d].receiver_id, n))
    BY <2>1, <2>4, DeliveriesOnOnePage DEF GetDeliveryById
  <2> QED
    BY <2>2, <2>3, <2>4 DEF EveryEntryIsFound
<1> QED
  BY Invariance, IndexesAreAgreed, InitGenuine, <1>1, <1>2, PTL DEF Spec

-----------------------------------------------------------------------------
(* That a redelivery moves stamps on and does nothing else.                *)

\* The database is as event e leaves it, as far as e has a say in it.
Settled(db, e) ==
  /\ \A u \in UserIds : e = UserRegistered(u) =>
       db.users[u] # None /\ db.loginIndex[UserOf[u].login] = u
  /\ \A p \in ParcelIds : e = ParcelCreated(p) =>
       /\ db.parcels[p] # None
       /\ \A q \in ParcelIds \ {p} : db.parcels[q] # None /\ SenderOf[q] = SenderOf[p] =>
            db.parcels[q].created_at < db.parcels[p].created_at
  /\ \A d \in DeliveryIds : e = DeliveryCreated(d) =>
       /\ db.deliveries[d] = NewDto(d)
       /\ db.trackingToId[DeliveryOf[d].tracking_number] = d
  /\ \A d \in DeliveryIds, old \in Statuses \cup {"pending"}, new \in Statuses :
       e = DeliveryStatusChanged(d, old, new) =>
         \/ db.deliveries[d] = None
         \/ /\ db.deliveries[d].status = new
            /\ new = "delivered" => db.deliveries[d].delivered_at # None

\* An accepted event is settled in the replica, or a later one overtakes it.
SettledOrOvertaken ==
  \A i \in DOMAIN events :
    \/ Settled(replica, events[i])
    \/ \E j \in i + 1 .. Len(events) : Overtakes(events[j], events[i])

\* Of what kind an event is and whom it is about.
LEMMA EventParts ==
  /\ \A u \in UserIds : UserRegistered(u).event_type = "user.registered"
                        /\ UserRegistered(u).payload.user_id = u
  /\ \A p \in ParcelIds : /\ ParcelCreated(p).event_type = "parcel.created"
                          /\ ParcelCreated(p).payload.id = p
                          /\ ParcelCreated(p).payload.sender_id = SenderOf[p]
  /\ \A d \in DeliveryIds : /\ DeliveryCreated(d).event_type = "delivery.created"
                            /\ About(DeliveryCreated(d)) = d
  /\ \A d \in DeliveryIds, old \in Statuses \cup {"pending"}, new \in Statuses :
       /\ DeliveryStatusChanged(d, old, new).event_type = "delivery.status_changed"
       /\ About(DeliveryStatusChanged(d, old, new)) = d
       /\ DeliveryStatusChanged(d, old, new).payload.new_status = new
BY DEF UserRegistered, ParcelCreated, DeliveryCreated, DeliveryStatusChanged, Event, About

\* What an event leaves alone.
LEMMA AppliedToOthers ==
  ASSUME NEW db \in Databases, NEW e \in Events
  PROVE  /\ (\A u \in UserIds : e # UserRegistered(u)) =>
              Apply(db, e).users = db.users /\ Apply(db, e).loginIndex = db.loginIndex
         /\ (\A p \in ParcelIds : e # ParcelCreated(p)) => Apply(db, e).parcels = db.parcels
         /\ (\A d \in DeliveryIds : e # DeliveryCreated(d)) =>
              Apply(db, e).trackingToId = db.trackingToId
<1> DEFINE after == Apply(db, e)
<1>1. ASSUME NEW u \in UserIds, e = UserRegistered(u)
      PROVE  after.parcels = db.parcels /\ after.trackingToId = db.trackingToId
  <2>1. PICK entry \in UserEntries :
          /\ entry = UserEntry(u, db.now)
          /\ Apply(db, UserRegistered(u)) =
               [db EXCEPT !.users = [@ EXCEPT ![u] = entry],
                          !.loginIndex = [@ EXCEPT ![UserOf[u].login] = u], !.now = @ + 1]
    BY UserApplied
  <2> QED
    BY <1>1, <2>1 DEF Databases
<1>2. ASSUME NEW p \in ParcelIds, e = ParcelCreated(p)
      PROVE  /\ after.users = db.users /\ after.loginIndex = db.loginIndex
             /\ after.trackingToId = db.trackingToId
  <2>1. PICK entry \in ParcelEntries :
          Apply(db, ParcelCreated(p)) =
            [db EXCEPT !.parcels = [@ EXCEPT ![p] = entry], !.now = @ + 1]
    BY ParcelApplied
  <2> QED
    BY <1>2, <2>1 DEF Databases
<1>3. ASSUME NEW d \in DeliveryIds, e = DeliveryCreated(d)
      PROVE  /\ after.users = db.users /\ after.loginIndex = db.loginIndex
             /\ after.parcels = db.parcels
  <2>1. PICK dto \in DeliveryDtos :
          Apply(db, DeliveryCreated(d)) =
            [db EXCEPT !.deliveries = [@ EXCEPT ![d] = dto],
                       !.trackingToId = [@ EXCEPT ![DeliveryOf[d].tracking_number] = d]]
    BY DeliveryApplied
  <2> QED
    BY <1>3, <2>1 DEF Databases
<1>4. ASSUME NEW d \in DeliveryIds, NEW old \in Statuses \cup {"pending"}, NEW new \in Statuses,
             e = DeliveryStatusChanged(d, old, new)
      PROVE  /\ after.users = db.users /\ after.loginIndex = db.loginIndex
             /\ after.parcels = db.parcels /\ after.trackingToId = db.trackingToId
  <2>1. CASE db.deliveries[d] = None
    BY <1>4, <2>1, StatusDropped
  <2>2. CASE db.deliveries[d] # None
    BY <1>4, <2>2, StatusApplied
  <2> QED
    BY <2>1, <2>2
<1> QED
  BY <1>1, <1>2, <1>3, <1>4 DEF Events

\* An event is settled once it has been applied.
LEMMA AppliedIsSettled ==
  ASSUME NEW db \in Databases, Genuine(db), NEW e \in Events
  PROVE  Settled(Apply(db, e), e)
<1>1. ASSUME NEW u \in UserIds, e = UserRegistered(u) PROVE Settled(Apply(db, e), e)
  <2>1. PICK entry \in UserEntries :
          /\ entry = UserEntry(u, db.now)
          /\ Apply(db, UserRegistered(u)) =
               [db EXCEPT !.users = [@ EXCEPT ![u] = entry],
                          !.loginIndex = [@ EXCEPT ![UserOf[u].login] = u], !.now = @ + 1]
    BY UserApplied
  <2>2. /\ Apply(db, e).users[u] # None
        /\ Apply(db, e).loginIndex[UserOf[u].login] = u
    BY <1>1, <2>1, SchemaAssumption, NoneAssumption DEF Databases
  <2> QED
    BY <1>1, <2>2, EventParts DEF Settled
<1>2. ASSUME NEW p \in ParcelIds, e = ParcelCreated(p) PROVE Settled(Apply(db, e), e)
  <2> DEFINE after == Apply(db, e).parcels
  <2>1. PICK entry \in ParcelEntries :
          /\ entry = [sender |-> SenderOf[p], created_at |-> db.now]
          /\ Apply(db, ParcelCreated(p)) =
               [db EXCEPT !.parcels = [@ EXCEPT ![p] = entry], !.now = @ + 1]
    BY ParcelApplied
  <2>2. after[p] = entry /\ entry # None /\ entry.created_at = db.now
    BY <1>2, <2>1, NoneAssumption DEF Databases
  <2>3. ASSUME NEW q \in ParcelIds \ {p}, after[q] # None
        PROVE  after[q].created_at < db.now
    <3>1. after[q] = db.parcels[q]
      BY <1>2, <2>1 DEF Databases
    <3> QED
      BY <2>3, <3>1 DEF Genuine
  <2> QED
    BY <1>2, <2>2, <2>3, EventParts DEF Settled
<1>3. ASSUME NEW d \in DeliveryIds, e = DeliveryCreated(d) PROVE Settled(Apply(db, e), e)
  <2>1. PICK dto \in DeliveryDtos :
          /\ dto = NewDto(d)
          /\ Apply(db, DeliveryCreated(d)) =
               [db EXCEPT !.deliveries = [@ EXCEPT ![d] = dto],
                          !.trackingToId = [@ EXCEPT ![DeliveryOf[d].tracking_number] = d]]
    BY DeliveryApplied
  <2>2. /\ Apply(db, e).deliveries[d] = NewDto(d)
        /\ Apply(db, e).trackingToId[DeliveryOf[d].tracking_number] = d
    BY <1>3, <2>1, SchemaAssumption DEF Databases
  <2> QED
    BY <1>3, <2>2, EventParts DEF Settled
<1>4. ASSUME NEW d \in DeliveryIds, NEW old \in Statuses \cup {"pending"}, NEW new \in Statuses,
             e = DeliveryStatusChanged(d, old, new)
      PROVE  Settled(Apply(db, e), e)
  <2> DEFINE dto == Apply(db, e).deliveries[d]
  <2>1. \/ dto = None
        \/ dto.status = new /\ (new = "delivered" => dto.delivered_at # None)
    <3>1. CASE db.deliveries[d] = None
      <4>1. Apply(db, e) = db
        BY <1>4, <3>1, StatusDropped
      <4>2. dto = None
        BY <3>1, <4>1
      <4> QED
        BY <4>2
    <3>2. CASE db.deliveries[d] # None
      <4>1. dto.status = new /\ dto.delivered_at = DeliveredAt(db, d, new)
        BY <1>4, <3>2, StatusApplied
      <4>2. new = "delivered" => DeliveredAt(db, d, new) # None
        BY NoneAssumption DEF DeliveredAt, Databases
      <4> QED
        BY <4>1, <4>2
    <3> QED
      BY <3>1, <3>2
  <2> HIDE DEF dto
  <2>2. ASSUME NEW f \in DeliveryIds, NEW o \in Statuses \cup {"pending"}, NEW n \in Statuses,
               e = DeliveryStatusChanged(f, o, n)
        PROVE  f = d /\ n = new
    <3>1. About(e) = d /\ e.payload.new_status = new
      BY <1>4, EventParts
    <3>2. About(e) = f /\ e.payload.new_status = n
      BY <2>2, EventParts
    <3> QED
      BY <3>1, <3>2
  <2>3. /\ \A u \in UserIds : e # UserRegistered(u)
        /\ \A p \in ParcelIds : e # ParcelCreated(p)
        /\ \A f \in DeliveryIds : e # DeliveryCreated(f)
    BY <1>4, EventParts
  <2>4. \A f \in DeliveryIds, o \in Statuses \cup {"pending"}, n \in Statuses :
          e = DeliveryStatusChanged(f, o, n) => f = d /\ n = new
    BY <2>2
  <2> QED
    BY <2>1, <2>3, <2>4, Zenon DEF Settled, dto
<1> QED
  BY <1>1, <1>2, <1>3, <1>4 DEF Events

\* An event that does not overtake another leaves it settled.
LEMMA SettledStays ==
  ASSUME NEW db \in Databases, Genuine(db), NEW e \in Events, NEW f \in Events,
         Settled(db, e), ~Overtakes(f, e)
  PROVE  Settled(Apply(db, f), e)
<1>1. ASSUME NEW u \in UserIds, e = UserRegistered(u)
      PROVE  /\ Apply(db, f).users[u] # None
             /\ Apply(db, f).loginIndex[UserOf[u].login] = u
  <2>1. db.users[u] # None /\ db.loginIndex[UserOf[u].login] = u
    BY <1>1 DEF Settled
  <2>2. ASSUME NEW v \in UserIds, f = UserRegistered(v)
        PROVE  /\ Apply(db, f).users[u] # None
               /\ Apply(db, f).loginIndex[UserOf[u].login] = u
    <3>1. PICK entry \in UserEntries :
            /\ entry = UserEntry(v, db.now)
            /\ Apply(db, UserRegistered(v)) =
                 [db EXCEPT !.users = [@ EXCEPT ![v] = entry],
                            !.loginIndex = [@ EXCEPT ![UserOf[v].login] = v], !.now = @ + 1]
      BY UserApplied
    <3> QED
      BY <2>1, <2>2, <3>1, SchemaAssumption, NoneAssumption DEF Databases
  <2>3. ASSUME \A v \in UserIds : f # UserRegistered(v)
        PROVE  Apply(db, f).users = db.users /\ Apply(db, f).loginIndex = db.loginIndex
    BY <2>3, AppliedToOthers
  <2> QED
    BY <2>1, <2>2, <2>3
<1>2. ASSUME NEW p \in ParcelIds, e = ParcelCreated(p)
      PROVE  /\ Apply(db, f).parcels[p] # None
             /\ \A q \in ParcelIds \ {p} :
                  Apply(db, f).parcels[q] # None /\ SenderOf[q] = SenderOf[p] =>
                    Apply(db, f).parcels[q].created_at < Apply(db, f).parcels[p].created_at
  <2>1. /\ db.parcels[p] # None
        /\ \A q \in ParcelIds \ {p} : db.parcels[q] # None /\ SenderOf[q] = SenderOf[p] =>
             db.parcels[q].created_at < db.parcels[p].created_at
    BY <1>2 DEF Settled
  <2>2. ASSUME NEW o \in ParcelIds, f = ParcelCreated(o)
        PROVE  /\ Apply(db, f).parcels[p] = db.parcels[p]
               /\ \A q \in ParcelIds : SenderOf[q] = SenderOf[p] =>
                    Apply(db, f).parcels[q] = db.parcels[q]
    <3>1. PICK entry \in ParcelEntries :
            Apply(db, ParcelCreated(o)) =
              [db EXCEPT !.parcels = [@ EXCEPT ![o] = entry], !.now = @ + 1]
      BY ParcelApplied
    <3>2. SenderOf[o] # SenderOf[p]
      BY <1>2, <2>2, EventParts DEF Overtakes
    <3> QED
      BY <2>2, <3>1, <3>2 DEF Databases
  <2>3. ASSUME \A o \in ParcelIds : f # ParcelCreated(o)
        PROVE  Apply(db, f).parcels = db.parcels
    BY <2>3, AppliedToOthers
  <2>4. /\ Apply(db, f).parcels[p] = db.parcels[p]
        /\ \A q \in ParcelIds : SenderOf[q] = SenderOf[p] =>
             Apply(db, f).parcels[q] = db.parcels[q]
    BY <2>2, <2>3
  <2> QED
    BY <2>1, <2>4
<1>3. ASSUME NEW d \in DeliveryIds, About(e) = d
      PROVE  Apply(db, f).deliveries[d] = db.deliveries[d]
  <2>1. About(f) # d
    BY <1>3, NoneAssumption DEF Overtakes
  <2> QED
    BY <2>1, AppliedElsewhere
<1>4. ASSUME NEW d \in DeliveryIds, e = DeliveryCreated(d)
      PROVE  Apply(db, f).trackingToId[DeliveryOf[d].tracking_number]
               = db.trackingToId[DeliveryOf[d].tracking_number]
  <2>1. ASSUME NEW o \in DeliveryIds, f = DeliveryCreated(o)
        PROVE  Apply(db, f).trackingToId[DeliveryOf[d].tracking_number]
                 = db.trackingToId[DeliveryOf[d].tracking_number]
    <3>1. o # d
      BY <1>4, <2>1, EventParts, NoneAssumption DEF Overtakes
    <3>2. PICK dto \in DeliveryDtos :
            Apply(db, DeliveryCreated(o)) =
              [db EXCEPT !.deliveries = [@ EXCEPT ![o] = dto],
                         !.trackingToId = [@ EXCEPT ![DeliveryOf[o].tracking_number] = o]]
      BY DeliveryApplied
    <3> QED
      BY <2>1, <3>1, <3>2, SchemaAssumption DEF Databases
  <2>2. ASSUME \A o \in DeliveryIds : f # DeliveryCreated(o)
        PROVE  Apply(db, f).trackingToId = db.trackingToId
    BY <2>2, AppliedToOthers
  <2> QED
    BY <2>1, <2>2
<1>5. ASSUME NEW u \in UserIds, e = UserRegistered(u) PROVE Settled(Apply(db, f), e)
  BY <1>1, <1>5, EventParts DEF Settled
<1>6. ASSUME NEW p \in ParcelIds, e = ParcelCreated(p) PROVE Settled(Apply(db, f), e)
  BY <1>2, <1>6, EventParts DEF Settled
<1>7. ASSUME NEW d \in DeliveryIds, e = DeliveryCreated(d) PROVE Settled(Apply(db, f), e)
  <2>1. /\ Apply(db, f).deliveries[d] = NewDto(d)
        /\ Apply(db, f).trackingToId[DeliveryOf[d].tracking_number] = d
    BY <1>3, <1>4, <1>7, EventParts DEF Settled
  <2> QED
    BY <1>7, <2>1, EventParts DEF Settled
<1>8. ASSUME NEW d \in DeliveryIds, NEW old \in Statuses \cup {"pending"}, NEW new \in Statuses,
             e = DeliveryStatusChanged(d, old, new)
      PROVE  Settled(Apply(db, f), e)
  <2>1. Apply(db, f).deliveries[d] = db.deliveries[d]
    BY <1>3, <1>8, EventParts
  <2>2. ASSUME NEW o \in DeliveryIds, NEW was \in Statuses \cup {"pending"}, NEW n \in Statuses,
               e = DeliveryStatusChanged(o, was, n)
        PROVE  o = d
    <3>1. About(e) = d
      BY <1>8, EventParts
    <3>2. About(e) = o
      BY <2>2, EventParts
    <3> QED
      BY <3>1, <3>2
  <2>3. /\ \A u \in UserIds : e # UserRegistered(u)
        /\ \A p \in ParcelIds : e # ParcelCreated(p)
        /\ \A o \in DeliveryIds : e # DeliveryCreated(o)
    BY <1>8, EventParts
  <2> QED
    BY <2>1, <2>2, <2>3 DEF Settled
<1> QED
  BY <1>5, <1>6, <1>7, <1>8 DEF Events

\* The order of a list depends on which stamps are later than which, and on
\* nothing else of them.
LEMMA SameOrder ==
  ASSUME NEW S, NEW map, NEW other,
         \A x, y \in S : map[x].created_at > map[y].created_at
                           <=> other[x].created_at > other[y].created_at
  PROVE  NewestFirst(map, S) = NewestFirst(other, S)
<1>1. {pair \in S \X S : map[pair[1]].created_at > map[pair[2]].created_at}
        = {pair \in S \X S : other[pair[1]].created_at > other[pair[2]].created_at}
  OBVIOUS
<1> QED
  BY <1>1, Zenon DEF NewestFirst

\* A parcel that is the sender's latest stays where it is.
LEMMA LatestStays ==
  ASSUME NEW db \in Databases, Genuine(db), NEW p \in ParcelIds, Settled(db, ParcelCreated(p)),
         NEW s
  PROVE  GetParcelsBySender(Apply(db, ParcelCreated(p)), s, Cardinality(ParcelIds), 1)
           = GetParcelsBySender(db, s, Cardinality(ParcelIds), 1)
<1> DEFINE Found(map) == {q \in ParcelIds : map[q] # None /\ map[q].sender = s}
           after == Apply(db, ParcelCreated(p)).parcels
<1>1. PICK entry \in ParcelEntries :
        /\ entry = [sender |-> SenderOf[p], created_at |-> db.now]
        /\ Apply(db, ParcelCreated(p)) =
             [db EXCEPT !.parcels = [@ EXCEPT ![p] = entry], !.now = @ + 1]
  BY ParcelApplied
<1>2. /\ after[p] = entry /\ entry # None
      /\ entry.sender = SenderOf[p] /\ entry.created_at = db.now
      /\ \A q \in ParcelIds \ {p} : after[q] = db.parcels[q]
  BY <1>1, NoneAssumption DEF Databases
<1>3. /\ db.parcels[p] # None /\ db.parcels[p].sender = SenderOf[p]
      /\ \A q \in ParcelIds \ {p} : db.parcels[q] # None /\ SenderOf[q] = SenderOf[p] =>
           db.parcels[q].created_at < db.parcels[p].created_at
  BY DEF Settled, Genuine
<1>4. /\ db.now \in Nat
      /\ \A q \in ParcelIds : db.parcels[q] # None =>
           /\ db.parcels[q].created_at \in Nat /\ db.parcels[q].created_at < db.now
           /\ db.parcels[q].sender = SenderOf[q]
  <2>1. \A q \in ParcelIds : db.parcels[q] # None => db.parcels[q] \in ParcelEntries
    BY DEF Databases
  <2> QED
    BY <2>1 DEF Genuine, Databases, ParcelEntries
<1> HIDE DEF after
<1>5. Found(after) = Found(db.parcels)
  BY <1>2, <1>3
<1>6. ASSUME NEW x \in Found(db.parcels), NEW y \in Found(db.parcels)
      PROVE  after[x].created_at > after[y].created_at
               <=> db.parcels[x].created_at > db.parcels[y].created_at
  <2>1. /\ db.parcels[x].created_at \in Nat /\ db.parcels[x].created_at < db.now
        /\ db.parcels[y].created_at \in Nat /\ db.parcels[y].created_at < db.now
        /\ SenderOf[x] = SenderOf[y]
    BY <1>4
  <2>2. CASE x # p /\ y # p
    BY <1>2, <2>2
  <2>3. CASE x = p /\ y = p
    BY <2>3, <1>2, <1>4, <2>1
  <2>4. CASE x = p /\ y # p
    BY <2>4, <1>2, <1>3, <1>4, <2>1
  <2>5. CASE x # p /\ y = p
    BY <2>5, <1>2, <1>3, <1>4, <2>1
  <2> QED
    BY <2>2, <2>3, <2>4, <2>5
<1>7. NewestFirst(after, Found(db.parcels)) = NewestFirst(db.parcels, Found(db.parcels))
  <2> HIDE DEF Found
  <2> QED
    BY <1>6, SameOrder
<1>8. GetParcelsBySender(Apply(db, ParcelCreated(p)), s, Cardinality(ParcelIds), 1)
        = ApplyPagination(NewestFirst(after, Found(after)), 1, Cardinality(ParcelIds))
  BY Zenon DEF GetParcelsBySender, after
<1>9. GetParcelsBySender(db, s, Cardinality(ParcelIds), 1)
        = ApplyPagination(NewestFirst(db.parcels, Found(db.parcels)), 1, Cardinality(ParcelIds))
  BY Zenon DEF GetParcelsBySender
<1> HIDE DEF Found
<1> QED
  BY <1>5, <1>7, <1>8, <1>9

\* What the calls leave alone is the same without stamps.
LEMMA SameUnstamped ==
  ASSUME NEW db, NEW after,
         \A u \in UserIds :
           \/ after.users[u] = db.users[u]
           \/ /\ after.users[u] # None /\ db.users[u] # None
              /\ [after.users[u] EXCEPT !.created_at = None]
                   = [db.users[u] EXCEPT !.created_at = None],
         after.loginIndex = db.loginIndex, after.trackingToId = db.trackingToId,
         \A s : GetParcelsBySender(after, s, Cardinality(ParcelIds), 1)
                  = GetParcelsBySender(db, s, Cardinality(ParcelIds), 1),
         \A d \in DeliveryIds :
           \/ after.deliveries[d] = db.deliveries[d]
           \/ /\ after.deliveries[d] # None /\ db.deliveries[d] # None
              /\ [after.deliveries[d] EXCEPT !.delivered_at = @ # None]
                   = [db.deliveries[d] EXCEPT !.delivered_at = @ # None]
  PROVE  Unstamped(after) = Unstamped(db)
<1> DEFINE U(map) == [u \in UserIds |->
                        IF map[u] = None THEN None ELSE [map[u] EXCEPT !.created_at = None]]
           D(map) == [d \in DeliveryIds |->
                        IF map[d] = None THEN None
                        ELSE [map[d] EXCEPT !.delivered_at = @ # None]]
           P(map) == [s \in {SenderOf[p] : p \in ParcelIds} |->
                        GetParcelsBySender(map, s, Cardinality(ParcelIds), 1)]
<1>1. U(after.users) = U(db.users)
  <2>1. ASSUME NEW u \in UserIds PROVE U(after.users)[u] = U(db.users)[u]
    <3>1. CASE after.users[u] = db.users[u]
      BY <3>1
    <3>2. CASE after.users[u] # db.users[u]
      BY <3>2
    <3> QED
      BY <3>1, <3>2
  <2> QED
    BY <2>1
<1>2. D(after.deliveries) = D(db.deliveries)
  <2>1. ASSUME NEW d \in DeliveryIds PROVE D(after.deliveries)[d] = D(db.deliveries)[d]
    <3>1. CASE after.deliveries[d] = db.deliveries[d]
      BY <3>1
    <3>2. CASE after.deliveries[d] # db.deliveries[d]
      BY <3>2
    <3> QED
      BY <3>1, <3>2
  <2> QED
    BY <2>1
<1>3. P(after) = P(db)
  BY Zenon
<1>4. /\ Unstamped(after) = [users |-> U(after.users), loginIndex |-> after.loginIndex,
                            parcels |-> P(after), deliveries |-> D(after.deliveries),
                            trackingToId |-> after.trackingToId]
      /\ Unstamped(db) = [users |-> U(db.users), loginIndex |-> db.loginIndex,
                          parcels |-> P(db), deliveries |-> D(db.deliveries),
                          trackingToId |-> db.trackingToId]
  BY Zenon DEF Unstamped
<1> HIDE DEF U, D, P
<1> QED
  BY <1>1, <1>2, <1>3, <1>4, Zenon

\* A registration that is applied again: the entry is the same but for its time.
LEMMA UserRestamped ==
  ASSUME NEW db \in Databases, Genuine(db), NEW u \in UserIds, Settled(db, UserRegistered(u))
  PROVE  /\ Unstamped(Apply(db, UserRegistered(u))) = Unstamped(db)
         /\ OnlyRestamped(db, Apply(db, UserRegistered(u)), UserRegistered(u))
<1> DEFINE after == Apply(db, UserRegistered(u))
           l == UserOf[u].login
<1>1. PICK entry \in UserEntries :
        /\ entry = UserEntry(u, db.now)
        /\ after = [db EXCEPT !.users = [@ EXCEPT ![u] = entry],
                              !.loginIndex = [@ EXCEPT ![UserOf[u].login] = u], !.now = @ + 1]
  BY UserApplied
<1>2. db.users[u] # None /\ db.loginIndex[UserOf[u].login] = u
  BY DEF Settled
<1>3. /\ db.users[u] = UserEntry(u, db.users[u].created_at)
      /\ db.users[u].created_at < db.now
  BY <1>2 DEF Genuine
<1>4. /\ entry # None /\ entry.created_at = db.now
      /\ [entry EXCEPT !.created_at = None] = [db.users[u] EXCEPT !.created_at = None]
  <2>1. \A t : [UserEntry(u, t) EXCEPT !.created_at = None] = UserEntry(u, None)
    BY DEF UserEntry
  <2>2. entry # None /\ entry.created_at = db.now
    BY <1>1, NoneAssumption DEF UserEntry
  <2> QED
    BY <1>1, <1>3, <2>1, <2>2, Zenon
<1>5. after.loginIndex = db.loginIndex
  <2>1. after.loginIndex = [db.loginIndex EXCEPT ![l] = u] /\ db.loginIndex[l] = u
    BY <1>1, <1>2 DEF Databases
  <2> HIDE DEF l, after
  <2> QED
    BY <2>1 DEF Databases
<1>6. /\ after.users[u] = entry
      /\ \A v \in UserIds \ {u} : after.users[v] = db.users[v]
      /\ after.trackingToId = db.trackingToId /\ after.deliveries = db.deliveries
      /\ after.parcels = db.parcels
  BY <1>1 DEF Databases
<1> HIDE DEF after, l
<1>7. \A s : GetParcelsBySender(after, s, Cardinality(ParcelIds), 1)
               = GetParcelsBySender(db, s, Cardinality(ParcelIds), 1)
  BY <1>6, Zenon DEF GetParcelsBySender
<1>8. Unstamped(after) = Unstamped(db)
  <2>1. ASSUME NEW v \in UserIds
        PROVE  \/ after.users[v] = db.users[v]
               \/ /\ after.users[v] # None /\ db.users[v] # None
                  /\ [after.users[v] EXCEPT !.created_at = None]
                       = [db.users[v] EXCEPT !.created_at = None]
    <3>1. CASE v = u
      BY <1>2, <1>4, <1>6, <3>1, Zenon
    <3>2. CASE v # u
      BY <1>6, <3>2
    <3> QED
      BY <3>1, <3>2
  <2> QED
    BY <1>5, <1>6, <1>7, <2>1, SameUnstamped, Zenon
<1>9. OnlyRestamped(db, after, UserRegistered(u))
  <2>1. UserStamp(after, u) > UserStamp(db, u)
    <3>1. db.users[u].created_at \in Nat /\ db.now \in Nat
      BY <1>2 DEF Databases, UserEntries
    <3> QED
      BY <1>2, <1>3, <1>4, <1>6, <3>1 DEF UserStamp, GetUserById
  <2>2. /\ \A v \in UserIds \ {u} : UserStamp(after, v) = UserStamp(db, v)
        /\ \A p \in ParcelIds : ParcelStamp(after, p) = ParcelStamp(db, p)
        /\ \A d \in DeliveryIds : DeliveryStamp(after, d) = DeliveryStamp(db, d)
    BY <1>6, Zenon
       DEF UserStamp, GetUserById, ParcelStamp, GetParcelById, DeliveryStamp, GetDeliveryById
  <2> QED
    BY <2>1, <2>2 DEF OnlyRestamped
<1> QED
  BY <1>8, <1>9 DEF after

\* The latest parcel of its sender stays where it is in the list.
LEMMA ParcelRestamped ==
  ASSUME NEW db \in Databases, Genuine(db), NEW p \in ParcelIds, Settled(db, ParcelCreated(p))
  PROVE  /\ Unstamped(Apply(db, ParcelCreated(p))) = Unstamped(db)
         /\ OnlyRestamped(db, Apply(db, ParcelCreated(p)), ParcelCreated(p))
<1> DEFINE after == Apply(db, ParcelCreated(p))
<1>1. PICK entry \in ParcelEntries :
        /\ entry = [sender |-> SenderOf[p], created_at |-> db.now]
        /\ after = [db EXCEPT !.parcels = [@ EXCEPT ![p] = entry], !.now = @ + 1]
  BY ParcelApplied
<1>2. /\ after.users = db.users /\ after.loginIndex = db.loginIndex
      /\ after.trackingToId = db.trackingToId /\ after.deliveries = db.deliveries
      /\ after.parcels[p] = entry
      /\ \A q \in ParcelIds \ {p} : after.parcels[q] = db.parcels[q]
  BY <1>1 DEF Databases
<1>3. \A s : GetParcelsBySender(after, s, Cardinality(ParcelIds), 1)
               = GetParcelsBySender(db, s, Cardinality(ParcelIds), 1)
  BY LatestStays
<1> HIDE DEF after
<1>4. Unstamped(after) = Unstamped(db)
  BY <1>2, <1>3, SameUnstamped, Zenon
<1>5. OnlyRestamped(db, after, ParcelCreated(p))
  <2>1. ParcelStamp(after, p) > ParcelStamp(db, p)
    <3>1. db.parcels[p] # None /\ entry # None /\ entry.created_at = db.now
      BY <1>1, NoneAssumption DEF Settled
    <3>2. db.parcels[p].created_at < db.now
      BY <3>1 DEF Genuine
    <3>3. db.parcels[p].created_at \in Nat /\ db.now \in Nat
      BY <3>1 DEF Databases, ParcelEntries
    <3> QED
      BY <1>2, <3>1, <3>2, <3>3 DEF ParcelStamp, GetParcelById
  <2>2. /\ \A u \in UserIds : UserStamp(after, u) = UserStamp(db, u)
        /\ \A q \in ParcelIds \ {p} : ParcelStamp(after, q) = ParcelStamp(db, q)
        /\ \A d \in DeliveryIds : DeliveryStamp(after, d) = DeliveryStamp(db, d)
    BY <1>2, Zenon
       DEF UserStamp, GetUserById, ParcelStamp, GetParcelById, DeliveryStamp, GetDeliveryById
  <2> QED
    BY <2>1, <2>2 DEF OnlyRestamped
<1> QED
  BY <1>4, <1>5 DEF after

\* A change that is there already: only "delivered" takes the time again.
LEMMA StatusRestamped ==
  ASSUME NEW db \in Databases, Genuine(db), NEW d \in DeliveryIds,
         NEW old \in Statuses \cup {"pending"}, NEW new \in Statuses,
         Settled(db, DeliveryStatusChanged(d, old, new)), db.deliveries[d] # None
  PROVE  /\ Unstamped(Apply(db, DeliveryStatusChanged(d, old, new))) = Unstamped(db)
         /\ OnlyRestamped(db, Apply(db, DeliveryStatusChanged(d, old, new)),
                          DeliveryStatusChanged(d, old, new))
<1> DEFINE e == DeliveryStatusChanged(d, old, new)
           after == Apply(db, e)
           was == db.deliveries[d]
           dto == Changed(db, d, new)
<1>1. /\ dto \in DeliveryDtos /\ dto.status = new
      /\ dto.delivered_at = DeliveredAt(db, d, new)
      /\ dto.id = was.id /\ dto.tracking_number = was.tracking_number
      /\ dto.sender_id = was.sender_id /\ dto.receiver_id = was.receiver_id
  BY StatusApplied
<1>2. /\ after.users = db.users /\ after.loginIndex = db.loginIndex
      /\ after.parcels = db.parcels /\ after.trackingToId = db.trackingToId
      /\ after.deliveries[d] = dto
      /\ \A o \in DeliveryIds \ {d} : after.deliveries[o] = db.deliveries[o]
  BY StatusApplied
<1> HIDE DEF dto
<1>3. was.status = new /\ (new = "delivered" => was.delivered_at # None)
  BY DEF Settled
<1>4. was \in DeliveryDtos /\ was # None /\ dto # None /\ db.now \in Nat /\ db.now # None
  BY <1>1, NoneAssumption DEF Databases
<1>5. new = "delivered" => was.delivered_at \in Nat /\ was.delivered_at < db.now
  <2>1. new = "delivered" => was.delivered_at < db.now
    BY <1>3, <1>4 DEF Genuine
  <2>2. was.delivered_at \in Nat \cup {None}
    BY <1>4 DEF DeliveryDtos
  <2> QED
    BY <1>3, <2>1, <2>2
<1>6. /\ new = "delivered" => dto.delivered_at = db.now
      /\ new # "delivered" => dto.delivered_at = was.delivered_at
  BY <1>1 DEF DeliveredAt
<1>7. e.event_type = "delivery.status_changed" /\ e.payload.delivery_id = d
      /\ e.payload.new_status = new
  BY DEF DeliveryStatusChanged, Event
<1> HIDE DEF after, e, was
<1>8. [dto EXCEPT !.delivered_at = @ # None] = [was EXCEPT !.delivered_at = @ # None]
  <2>1. (dto.delivered_at # None) = (was.delivered_at # None)
    BY <1>3, <1>4, <1>6
  <2>2. \A one \in DeliveryDtos :
          [one EXCEPT !.delivered_at = @ # None]
            = [id |-> one.id, sender_id |-> one.sender_id, receiver_id |-> one.receiver_id,
               tracking_number |-> one.tracking_number, status |-> one.status,
               created_at |-> 0, delivered_at |-> one.delivered_at # None]
    BY DEF DeliveryDtos
  <2>3. /\ dto.id = was.id /\ dto.status = was.status
        /\ dto.tracking_number = was.tracking_number
        /\ dto.sender_id = was.sender_id /\ dto.receiver_id = was.receiver_id
    BY <1>1, <1>3
  <2>4. [dto EXCEPT !.delivered_at = @ # None]
          = [id |-> dto.id, sender_id |-> dto.sender_id, receiver_id |-> dto.receiver_id,
             tracking_number |-> dto.tracking_number, status |-> dto.status,
             created_at |-> 0, delivered_at |-> dto.delivered_at # None]
    BY <1>1, <2>2, Zenon
  <2>5. [was EXCEPT !.delivered_at = @ # None]
          = [id |-> was.id, sender_id |-> was.sender_id, receiver_id |-> was.receiver_id,
             tracking_number |-> was.tracking_number, status |-> was.status,
             created_at |-> 0, delivered_at |-> was.delivered_at # None]
    BY <1>4, <2>2, Zenon
  <2> QED
    BY <2>1, <2>3, <2>4, <2>5, Zenon
<1>9. Unstamped(after) = Unstamped(db)
  <2>1. \A s : GetParcelsBySender(after, s, Cardinality(ParcelIds), 1)
                 = GetParcelsBySender(db, s, Cardinality(ParcelIds), 1)
    BY <1>2, Zenon DEF GetParcelsBySender
  <2>2. ASSUME NEW o \in DeliveryIds
        PROVE  \/ after.deliveries[o] = db.deliveries[o]
               \/ /\ after.deliveries[o] # None /\ db.deliveries[o] # None
                  /\ [after.deliveries[o] EXCEPT !.delivered_at = @ # None]
                       = [db.deliveries[o] EXCEPT !.delivered_at = @ # None]
    <3>1. CASE o = d
      BY <1>2, <1>4, <1>8, <3>1, Zenon DEF was
    <3>2. CASE o # d
      BY <1>2, <3>2
    <3> QED
      BY <3>1, <3>2
  <2> QED
    BY <1>2, <2>1, <2>2, SameUnstamped, Zenon
<1>10. OnlyRestamped(db, after, e)
  <2>1. \/ DeliveryStamp(after, d) = DeliveryStamp(db, d)
        \/ new = "delivered" /\ DeliveryStamp(after, d) > DeliveryStamp(db, d)
    <3>1. DeliveryStamp(after, d) = dto.delivered_at
      BY <1>2, <1>4 DEF DeliveryStamp, GetDeliveryById
    <3>2. DeliveryStamp(db, d) = was.delivered_at
      BY <1>4 DEF DeliveryStamp, GetDeliveryById, was
    <3> QED
      BY <1>4, <1>5, <1>6, <3>1, <3>2
  <2>2. /\ \A u \in UserIds : UserStamp(after, u) = UserStamp(db, u)
        /\ \A p \in ParcelIds : ParcelStamp(after, p) = ParcelStamp(db, p)
        /\ \A o \in DeliveryIds \ {d} : DeliveryStamp(after, o) = DeliveryStamp(db, o)
    BY <1>2, Zenon
       DEF UserStamp, GetUserById, ParcelStamp, GetParcelById, DeliveryStamp, GetDeliveryById
  <2> QED
    BY <1>7, <2>1, <2>2 DEF OnlyRestamped
<1> QED
  BY <1>9, <1>10 DEF after, e

\* A settled event that is applied again takes a stamp anew and does no more.
LEMMA SettledIsRestamped ==
  ASSUME NEW db \in Databases, Genuine(db), NEW e \in Events, Settled(db, e)
  PROVE  Unstamped(Apply(db, e)) = Unstamped(db) /\ OnlyRestamped(db, Apply(db, e), e)
<1>1. CASE Apply(db, e) = db
  BY <1>1, Zenon DEF OnlyRestamped
<1>2. ASSUME NEW d \in DeliveryIds, e = DeliveryCreated(d) PROVE Apply(db, e) = db
  <2> DEFINE n == DeliveryOf[d].tracking_number
  <2>1. Apply(db, e) = [db EXCEPT !.deliveries = [@ EXCEPT ![d] = NewDto(d)],
                                  !.trackingToId = [@ EXCEPT ![n] = d]]
    BY <1>2, DeliveryApplied
  <2>2. db.deliveries[d] = NewDto(d) /\ db.trackingToId[n] = d
    BY <1>2 DEF Settled
  <2>3. /\ [db.deliveries EXCEPT ![d] = NewDto(d)] = db.deliveries
        /\ [db.trackingToId EXCEPT ![n] = d] = db.trackingToId
    BY <2>2 DEF Databases
  <2> HIDE DEF n
  <2> QED
    BY <2>1, <2>3 DEF Databases
<1>3. ASSUME NEW d \in DeliveryIds, NEW old \in Statuses \cup {"pending"}, NEW new \in Statuses,
             e = DeliveryStatusChanged(d, old, new)
      PROVE  Unstamped(Apply(db, e)) = Unstamped(db) /\ OnlyRestamped(db, Apply(db, e), e)
  <2>1. CASE db.deliveries[d] = None
    BY <1>1, <1>3, <2>1, StatusDropped
  <2>2. CASE db.deliveries[d] # None
    BY <1>3, <2>2, StatusRestamped
  <2> QED
    BY <2>1, <2>2
<1> QED
  BY <1>1, <1>2, <1>3, UserRestamped, ParcelRestamped DEF Events

\* A published event is settled at once, and overtakes what it unsettles.
LEMMA PublishSettles ==
  ASSUME IInv, GenuineDatabases, SettledOrOvertaken, NEW i \in DOMAIN outbox, PublishEvent(i)
  PROVE  SettledOrOvertaken'
<1> DEFINE n == Len(events)
<1>1. PICK f \in Events : events' = Append(events, f) /\ replica' = Apply(replica, f)
  <2>1. outbox[i] \in Events
    BY ElementOfSeq, LenProperties DEF IInv, TypeOK
  <2> QED
    BY <2>1 DEF PublishEvent
<1>2. /\ n \in Nat /\ DOMAIN events = 1 .. n /\ \A k \in 1 .. n : events[k] \in Events
      /\ replica \in Databases /\ Genuine(replica)
  BY LenProperties, ElementOfSeq DEF IInv, TypeOK, GenuineDatabases
<1>3. /\ Len(events') = n + 1 /\ DOMAIN events' = 1 .. n + 1 /\ events'[n + 1] = f
      /\ \A k \in 1 .. n : events'[k] = events[k]
  <2>1. events \in Seq(Events) /\ events' \in Seq(Events)
    BY <1>1, AppendProperties DEF IInv, TypeOK
  <2> QED
    BY <1>1, <2>1, AppendProperties, LenProperties
<1> HIDE DEF n
<1>4. ASSUME NEW k \in 1 .. n
      PROVE  \/ Settled(replica', events'[k])
             \/ \E j \in k + 1 .. n + 1 : Overtakes(events'[j], events'[k])
  <2>1. CASE Settled(replica, events[k])
    <3>1. CASE Overtakes(f, events[k])
      BY <1>2, <1>3, <3>1
    <3>2. CASE ~Overtakes(f, events[k])
      BY <1>1, <1>2, <1>3, <2>1, <3>2, SettledStays
    <3> QED
      BY <3>1, <3>2
  <2>2. CASE \E j \in k + 1 .. n : Overtakes(events[j], events[k])
    <3>1. PICK j \in k + 1 .. n : Overtakes(events[j], events[k])
      BY <2>2
    <3>2. j \in 1 .. n /\ j \in k + 1 .. n + 1
      BY <1>2
    <3> QED
      BY <1>3, <3>1, <3>2
  <2> QED
    BY <1>2, <2>1, <2>2 DEF SettledOrOvertaken, n
<1>5. Settled(replica', events'[n + 1])
  BY <1>1, <1>2, <1>3, AppliedIsSettled
<1>6. \A k \in 1 .. n + 1 : k \in 1 .. n \/ k = n + 1
  BY <1>2
<1> QED
  BY <1>3, <1>4, <1>5, <1>6 DEF SettledOrOvertaken

LEMMA NextSettles ==
  ASSUME IInv, GenuineDatabases, SettledOrOvertaken, [Next]_vars
  PROVE  SettledOrOvertaken'
<1>1. CASE UNCHANGED <<replica, events>>
  BY <1>1 DEF SettledOrOvertaken
<1> QED
  BY <1>1, PublishSettles
     DEF Next, vars, RegisterUser, CreateParcel, CreateDelivery, ChangeStatus, Write, LoseEvent,
         Deliver, Process, Acknowledge, Update, ServiceRestart, BrokerRestart

\* Whatever was accepted: an event handed out a second time makes readers see the
\* user or the parcel it is about created later, or the delivery delivered later,
\* than they did, and changes nothing else that they see, unless an event about the
\* same delivery, or a parcel of the same sender, was accepted in between.
\* (consumer.cpp 27-79, read_database_component.cpp 31-262)
THEOREM RedeliveriesOnlyRestamp == Spec => []RedeliveryOnlyRestamps
<1>1. Init => SettledOrOvertaken
  BY DEF Init, SettledOrOvertaken
<1>2. IInv /\ GenuineDatabases /\ [Next]_vars => GenuineDatabases'
  BY NextGenuine
<1>3. IInv /\ GenuineDatabases /\ SettledOrOvertaken /\ [Next]_vars => SettledOrOvertaken'
  BY NextSettles
<1>4. IInv /\ GenuineDatabases /\ SettledOrOvertaken => RedeliveryOnlyRestamps
  <2> SUFFICES ASSUME IInv, GenuineDatabases, SettledOrOvertaken PROVE RedeliveryOnlyRestamps
    OBVIOUS
  <2>1. ASSUME NEW i \in DOMAIN events, Settled(replica, events[i])
        PROVE  /\ Unstamped(Apply(replica, events[i])) = Unstamped(replica)
               /\ OnlyRestamped(replica, Apply(replica, events[i]), events[i])
    <3>1. events[i] \in Events
      BY LenProperties, ElementOfSeq DEF IInv, TypeOK
    <3>2. replica \in Databases /\ Genuine(replica)
      BY DEF IInv, TypeOK, GenuineDatabases
    <3> QED
      BY <2>1, <3>1, <3>2, SettledIsRestamped
  <2> QED
    BY <2>1 DEF SettledOrOvertaken, RedeliveryOnlyRestamps
<1> QED
  BY Invariance, InitGenuine, <1>1, <1>2, <1>3, <1>4, PTL DEF Spec
=============================================================================
