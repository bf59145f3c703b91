---------------------------- MODULE ReadDatabase ----------------------------
(***************************************************************************)
(* The read side of lr-6: maps of users, parcels and deliveries in memory, *)
(* an index of the users by login and one of the deliveries by tracking    *)
(* number, all under one mutex, so that every operation is atomic.  An     *)
(* operation takes a database and returns the database it leaves or the    *)
(* answer it gives; EventFlow keeps the database as a variable.            *)
(*                                                                         *)
(* An entry keeps the fields that searches and orders look at, and the     *)
(* times that updates take from the clock.  A name is a sequence of        *)
(* letters, because a mask is matched against a part of it.                *)
(***************************************************************************)
EXTENDS Integers, SequencesExt

CONSTANTS
  UserIds, Logins,         \* users, what they log in with
  ParcelIds,
  DeliveryIds, Trackings,
  Letters,                 \* the characters of names
  Star, Percent,           \* the characters '*' and '%'
  None                     \* std::nullopt, and what a map has at an absent key

\* Ids are 64-bit numbers and strings of 36 characters: there is an end of them.
ASSUME IdsAssumption ==
  /\ UserIds \subseteq Nat
  /\ IsFiniteSet(UserIds) /\ IsFiniteSet(ParcelIds) /\ IsFiniteSet(DeliveryIds)

\* The maps as ReadDatabaseComponent starts with them, and system_clock, which
\* counts nanoseconds: every reading is later than the ones before.
EmptyDatabase ==
  [users      |-> [u \in UserIds |-> None],
   loginIndex |-> [l \in Logins |-> None],
   parcels    |-> [p \in ParcelIds |-> None],
   deliveries |-> [d \in DeliveryIds |-> None],
   trackingToId |-> [t \in Trackings |-> None],
   now        |-> 1]

\* Mutant of OnUserCreated: the id is drawn from the component's own counter.
OnUserCreatedCounted(db, id, user, hash) ==
  LET fresh == Cardinality({u \in UserIds : db.users[u] # None}) + 1
  IN  [db EXCEPT !.users[fresh] = [login |-> user.login, name |-> user.name, hash |-> hash,
                                   created_at |-> db.now],
                 !.loginIndex[user.login] = fresh,
                 !.now = @ + 1]

\* An entry under the key replaces the one that is there; both maps are set.
\* created_at is the time of this call, not of the registration.
OnUserCreated(db, id, user, hash) ==
  [db EXCEPT !.users[id] = [login |-> user.login, name |-> user.name, hash |-> hash,
                            created_at |-> db.now],
             !.loginIndex[user.login] = id,
             !.now = @ + 1]

\* created_at is the time of this call, not of the parcel's creation.
OnParcelCreated(db, id, parcel) ==
  [db EXCEPT !.parcels[id] = [sender |-> parcel.sender, created_at |-> db.now],
             !.now = @ + 1]

\* The DTO is stored as it comes, whatever the entry held before.
OnDeliveryCreated(db, delivery) ==
  [db EXCEPT !.deliveries[delivery.id] = delivery,
             !.trackingToId[delivery.tracking_number] = delivery.id]

\* The status of a delivery that is not there is dropped.  delivered_at is the
\* time of the last call with "delivered", not of the first.
OnDeliveryStatusChanged(db, id, new) ==
  IF db.deliveries[id] = None THEN db
  ELSE IF new = "delivered"
  THEN [db EXCEPT !.deliveries[id].status = new,
                  !.deliveries[id].delivered_at = db.now,
                  !.now = @ + 1]
  ELSE [db EXCEPT !.deliveries[id].status = new]

-----------------------------------------------------------------------------
\* Mutant of ApplyPagination: the last item of a page is left to the next one.
ApplyPaginationShort(items, from, to) ==
  LET start == IF from > 1 THEN from ELSE 1
      end == IF Len(items) < to THEN Len(items) ELSE to
  IN  IF start > end THEN <<>> ELSE SubSeq(items, start, end - 1)

\* The items from..to, counted from 1; bounds outside of the list are cut.
ApplyPagination(items, from, to) ==
  LET start == IF from > 1 THEN from ELSE 1
      end == IF Len(items) < to THEN Len(items) ELSE to
  IN  IF start > end THEN <<>> ELSE SubSeq(items, start, end)

\* std::sort of what a hash map holds: no item after one it is "before".  Items
\* of which neither is before the other keep an order that depends on the map
\* alone, the same until it changes.
Sorted(ids, before) ==
  CHOOSE s \in SetToSeqs(ids) : \A i, j \in DOMAIN s : i < j => <<s[j], s[i]>> \notin before

NewestFirst(map, ids) ==
  Sorted(ids, {pair \in ids \X ids : map[pair[1]].created_at > map[pair[2]].created_at})

GetParcelById(db, id) == db.parcels[id]

GetParcelsBySender(db, sender, to, from) ==
  ApplyPagination(
    NewestFirst(db.parcels,
                {p \in ParcelIds : db.parcels[p] # None /\ db.parcels[p].sender = sender}),
    from, to)

GetDeliveryById(db, id) == db.deliveries[id]

GetDeliveryByTrackingNumber(db, tracking) ==
  IF db.trackingToId[tracking] = None THEN None
  ELSE db.deliveries[db.trackingToId[tracking]]

GetDeliveriesBySender(db, sender, to, from) ==
  ApplyPagination(
    NewestFirst(db.deliveries,
                {d \in DeliveryIds : /\ db.deliveries[d] # None
                                     /\ db.deliveries[d].sender_id = sender}),
    from, to)

GetDeliveriesByReceiver(db, receiver, to, from) ==
  ApplyPagination(
    NewestFirst(db.deliveries,
                {d \in DeliveryIds : /\ db.deliveries[d] # None
                                     /\ db.deliveries[d].receiver_id = receiver}),
    from, to)

\* Only a page that holds the first user can hold the one with the login.
GetUserByLogin(db, login, from, to) ==
  IF db.loginIndex[login] = None \/ from # 1 \/ to < 1 THEN None
  ELSE db.users[db.loginIndex[login]]

GetUserById(db, id) == db.users[id]

HasPart(text, part) ==
  \E i \in 1 .. Len(text) + 1 : IsPrefix(part, SubSeq(text, i, Len(text)))

\* Every '*' becomes a '%', the last character goes, and what is left is looked
\* for as it stands.  An empty mask has no last character: it is never passed.
SearchUsersByNameMask(db, mask, from, to) ==
  LET pattern == [i \in DOMAIN mask |-> IF mask[i] = Star THEN Percent ELSE mask[i]]
      found == {u \in UserIds : /\ db.users[u] # None
                                /\ HasPart(db.users[u].name, Front(pattern))}
  IN  ApplyPagination(Sorted(found, {pair \in found \X found : pair[1] < pair[2]}), from, to)

VerifyCredentials(db, login, hash) ==
  LET id == db.loginIndex[login]
  IN  IF id # None /\ db.users[id] # None /\ db.users[id].hash = hash THEN id ELSE None

=============================================================================
