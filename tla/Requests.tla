------------------------------ MODULE Requests ------------------------------
(***************************************************************************)
(* A service of one of the generations lr-2 to lr-6 and the requests of    *)
(* its clients.  POST changes the database as Commands says; GET, and what *)
(* a POST would be answered, are evaluated in every state by the           *)
(* properties, so that they are no steps, except that looking up a login   *)
(* fills the cache of lr-5.  The deliveries of lr-5 are DeliveryCache's.   *)
(***************************************************************************)
EXTENDS Commands

CONSTANTS
  Generations,     \* subset of 2 .. 6
  Logins,          \* logins, each registered with one body
  UserBody,        \* UserBody[l]: what POST /users of login l has
  Stranger,        \* a password nobody has
  ParcelBodies,    \* bodies of POST /parcels
  DeliveryBodies,  \* bodies of POST /deliveries
  Features,        \* features of parcels
  Letters,         \* the characters of names
  NamePrefixes,    \* beginnings of names that are searched for
  MaxUsers, MaxParcels, MaxDeliveries, MaxEvents,  \* bounds: rows, events of a delivery
  Statuses,        \* statuses that the storages are asked to set
  MaxCount,        \* bound: registrations and logins of lr-4 in a life
  MaxFaults        \* bound: faults met

ParcelStatuses == {"created", "assigned", "in_transit", "delivered"}
DeliveryStatuses == {"pending", "in_transit", "delivered", "cancelled"}

ASSUME RequestsAssumption ==
  /\ Generations \subseteq 2 .. 6
  /\ MaxReserve \in Nat

\* What is nothing, null or not a number is none of the values that there are; the
\* wildcards are no letters, and the stranger's password is nobody's.
ASSUME ValuesAssumption ==
  /\ \A v \in {Null, Nothing, Junk} : v \notin Nat
  /\ \A v \in {Null, Nothing} : v \notin Seq(Features) /\ v \notin DeliveryStatuses
  /\ {Star, Percent} \cap Letters = {}
  /\ \A l \in Logins : "password" \in DOMAIN UserBody[l] => UserBody[l].password # Stranger

\* A body has the members the API knows, or some of them; a member can be null.
\* Names are searched for by letters.
ASSUME BodiesAssumption ==
  /\ \A p \in NamePrefixes : p \in Seq(Letters)
  /\ \A l \in Logins :
       /\ UserBody[l].login = l
       /\ "name" \in DOMAIN UserBody[l] => UserBody[l].name \in {Null} \cup Seq(Letters)
  /\ \A json \in ParcelBodies :
       /\ DOMAIN json \subseteq {"sender_id", "size", "description", "features"}
       /\ "features" \in DOMAIN json => json.features \in {Null} \cup Seq(Features)
  /\ \A json \in DeliveryBodies :
       /\ DOMAIN json \subseteq {"parcel_id", "sender_id", "receiver_id", "from_address",
                                 "to_address", "scheduled_pickup_time"}
       /\ "from_address" \in DOMAIN json =>
            json.from_address = Null \/ json.from_address.city \notin {Null, Nothing}
  /\ \A json \in {UserBody[l] : l \in Logins} \cup ParcelBodies \cup DeliveryBodies :
       \A f \in DOMAIN json : json[f] # Nothing

VARIABLES
  gen,        \* the generation that runs
  db,         \* users, parcels and deliveries
  nextUser,   \* lr-4: next_id of the registrations
  nextLogin,  \* lr-4: next_id of the logins
  cache,      \* lr-5: what Redis keeps for a login, in a list of its own
  told,       \* history: what 201 of POST /users told whom in this life
  named,      \* history: what 200 of POST /login of lr-4 told, likewise
  posted,     \* history: the body each row of parcels was made from
  shipped,    \* history: the body each row of deliveries was made from
  made,       \* history: answers 201 to POST /parcels
  unsure,     \* history: parcels made by a POST that was not answered 201
  faults      \* faults met

vars == <<gen, db, nextUser, nextLogin, cache, told, named, posted, shipped, made,
          unsure, faults>>

Told(login, id) == [login |-> login, id |-> id]

-----------------------------------------------------------------------------
(* The handlers of a generation.                                           *)

PostUser(g, d, json, fault) ==
  CASE g = 2 -> CreateUserHandler2(d, json)
    [] g = 3 -> CreateUserHandler3(d, json, fault)
    [] g = 5 -> CreateUserHandler5(d, json, fault)
    [] g = 6 -> CreateUserHandler6(d, json, fault)

PostLogin(g, d, json) ==
  CASE g = 2 -> LoginHandler2(d, json)
    [] g = 3 -> LoginHandler3(d, json)
    [] g = 5 -> LoginHandler5(d, json)
    [] g = 6 -> LoginHandler6(d, json)

PostParcel(g, d, json, fault) ==
  CASE g = 2 -> CreateParcelHandler2(d, json)
    [] g = 3 -> CreateParcelHandler3(d, json, fault)
    [] g = 4 -> CreateParcelHandler4(d, json, fault)
    [] g = 5 -> CreateParcelHandler5(d, json, fault)
    [] g = 6 -> CreateParcelHandler6(d, json, fault)

PostDelivery(g, d, json, fault) ==
  CASE g = 2 -> CreateDeliveryHandler2(d, json)
    [] g = 3 -> CreateDeliveryHandler3(d, json, fault)
    [] g = 4 -> CreateDeliveryHandler4(d, json, fault)
    [] g = 6 -> CreateDeliveryHandler6(d, json, fault)

GetUsers(g, d, cached, q) ==
  CASE g = 2 -> GetUsersHandler2(d, q)
    [] g = 3 -> GetUsersHandler3(d, q)
    [] g = 4 -> GetUsersHandler4(q)
    [] g = 5 -> GetUsersHandler5(d, cached, q)
    [] g = 6 -> GetUsersHandler6(d, q)

GetParcels(g, d, q) ==
  CASE g = 2 -> GetParcelsHandler2(d, q)
    [] g = 3 -> GetParcelsHandler3(d, q)
    [] g = 4 -> GetParcelsHandler4(d, q)
    [] g \in {5, 6} -> GetParcelsHandler6(d, q)

GetDeliveries(g, d, q) ==
  CASE g = 2 -> GetDeliveriesHandler2(d, q)
    [] g = 3 -> GetDeliveriesHandler3(d, q)
    [] g = 4 -> GetDeliveriesHandler4(d, q)
    [] g = 6 -> GetDeliveriesHandler6(d, q)

UpdateDeliveryStatus(g, d, id, status) ==
  CASE g = 2 -> UpdateDeliveryStatus2(d, id, status)
    [] g = 3 -> UpdateDeliveryStatus3(d, id, status)
    [] g = 4 -> UpdateDeliveryStatus4(d, id, status, "depot", "scanned")
    [] g = 6 -> UpdateDeliveryStatus6(d, id, status, "depot", "scanned")

UpdateParcelStatus(g, d, id, status) ==
  CASE g = 2 -> UpdateParcelStatus2(d, id, status)
    [] g = 3 -> UpdateParcelStatus3(d, id, status)
    [] g = 4 -> UpdateParcelStatus4(d, id, status)
    [] g \in {5, 6} -> UpdateParcelStatus6(d, id, status)

-----------------------------------------------------------------------------
EmptyDb == [users |-> <<>>, parcels |-> <<>>, deliveries |-> <<>>]

Init ==
  /\ gen \in Generations
  /\ db = EmptyDb
  /\ nextUser = 1
  /\ nextLogin = 1
  /\ cache = [l \in Logins |-> <<>>]
  /\ told = {}
  /\ named = {}
  /\ posted = <<>>
  /\ shipped = <<>>
  /\ made = 0
  /\ unsure = 0
  /\ faults = 0

\* The calls of a request may meet a fault; the maps of lr-2 meet none.
Meet(fault) ==
  /\ fault # "none" => gen # 2 /\ faults < MaxFaults
  /\ faults' = IF fault = "none" THEN faults ELSE faults + 1

RegisterUser(l, fault) ==
  /\ gen # 4
  /\ Len(db.users) < MaxUsers
  /\ Meet(fault)
  /\ LET o == PostUser(gen, db, UserBody[l], fault)
     IN  /\ db' = o.db
         /\ told' = IF o.result.status = 201
                    THEN told \cup {Told(l, o.result.shown.id)} ELSE told
  /\ UNCHANGED <<gen, nextUser, nextLogin, cache, named, posted, shipped, made, unsure>>

CountUser(l) ==
  /\ gen = 4
  /\ Cardinality(told) + Cardinality(named) < MaxCount
  /\ LET o == CreateUserHandler4(nextUser, UserBody[l])
     IN  /\ nextUser' = o.next
         /\ told' = IF o.result.status = 201
                    THEN told \cup {Told(l, o.result.shown.id)} ELSE told
  /\ UNCHANGED <<gen, db, nextLogin, cache, named, posted, shipped, made, unsure, faults>>

CountLogin(l) ==
  /\ gen = 4
  /\ Cardinality(told) + Cardinality(named) < MaxCount
  /\ LET o == LoginHandler4(nextLogin, [login |-> l, password |-> Stranger])
     IN  /\ nextLogin' = o.next
         /\ named' = IF o.result.status = 200
                     THEN named \cup {Told(l, o.result.shown.user_id)} ELSE named
  /\ UNCHANGED <<gen, db, nextUser, cache, told, posted, shipped, made, unsure, faults>>

CreateParcel(json, fault) ==
  /\ Len(db.parcels) < MaxParcels
  /\ Meet(fault)
  /\ LET o == PostParcel(gen, db, json, fault)
         grown == Len(o.db.parcels) > Len(db.parcels)
     IN  /\ db' = o.db
         /\ posted' = IF grown THEN Append(posted, json) ELSE posted
         /\ made' = IF o.result.status = 201 THEN made + 1 ELSE made
         /\ unsure' = IF fault \in {"lost", "unread"} /\ grown THEN unsure + 1 ELSE unsure
  /\ UNCHANGED <<gen, nextUser, nextLogin, cache, told, named, shipped>>

CreateDelivery(json, fault) ==
  /\ gen # 5
  /\ Len(db.deliveries) < MaxDeliveries
  /\ Meet(fault)
  /\ LET o == PostDelivery(gen, db, json, fault)
     IN  /\ db' = o.db
         /\ shipped' = IF Len(o.db.deliveries) > Len(db.deliveries)
                       THEN Append(shipped, json) ELSE shipped
  /\ UNCHANGED <<gen, nextUser, nextLogin, cache, told, named, posted, made, unsure>>

\* The operations of the storages that no handler calls.
Unasked(d) ==
  /\ db' = d
  /\ UNCHANGED <<gen, nextUser, nextLogin, cache, told, named, posted, shipped, made,
                 unsure, faults>>

HasEvents(g) == g \in {4, 6}

ChangeDelivery(id, status) ==
  /\ gen # 5
  /\ HasEvents(gen) => Len(db.deliveries[id].events) < MaxEvents
  /\ Unasked(UpdateDeliveryStatus(gen, db, id, status))

ChangeParcel(id, status) == Unasked(UpdateParcelStatus(gen, db, id, status))

AddFeature(id, feature) == gen = 4 /\ Unasked(AddFeatureToParcel4(db, id, feature))

AddEvent(id) ==
  /\ gen = 4
  /\ Len(db.deliveries[id].events) < MaxEvents
  /\ Unasked(AddDeliveryEvent4(db, id, "in_transit", "depot", "scanned"))

\* GET /users?login= in lr-5 keeps what it found in the cache, for a while.
Remember(cached) ==
  /\ gen = 5
  /\ cache' = cached
  /\ UNCHANGED <<gen, db, nextUser, nextLogin, told, named, posted, shipped, made,
                 unsure, faults>>

LookUp(l, from) ==
  Remember([cache EXCEPT ![l] =
              SaveUserByLogin5(db, @, [login |-> l, from |-> from, to |-> from])])

Expire(l) == Remember([cache EXCEPT ![l] = <<>>])

\* The maps of lr-2 and the counters of lr-4 begin again.
Restart ==
  /\ gen \in {2, 4}
  /\ nextUser' = 1
  /\ nextLogin' = 1
  /\ told' = {}
  /\ named' = {}
  /\ IF gen = 2
     THEN db' = EmptyDb /\ posted' = <<>> /\ shipped' = <<>> /\ made' = 0 /\ unsure' = 0
     ELSE UNCHANGED <<db, posted, shipped, made, unsure>>
  /\ UNCHANGED <<gen, cache, faults>>

Next ==
  \/ \E l \in Logins, fault \in Faults \ {"unmarked"} : RegisterUser(l, fault)
  \/ \E l \in Logins \ ShortLogins : CountUser(l) \/ CountLogin(l)
  \/ \E l \in Logins : Expire(l)
  \/ \E json \in ParcelBodies, fault \in Faults \ {"unmarked"} : CreateParcel(json, fault)
  \/ \E json \in DeliveryBodies, fault \in Faults : CreateDelivery(json, fault)
  \/ \E id \in DOMAIN db.deliveries, status \in DeliveryStatuses \cap Statuses : ChangeDelivery(id, status)
  \/ \E id \in DOMAIN db.deliveries : AddEvent(id)
  \/ \E id \in DOMAIN db.parcels, status \in ParcelStatuses \cap Statuses : ChangeParcel(id, status)
  \/ \E id \in DOMAIN db.parcels, feature \in Features : AddFeature(id, feature)
  \/ \E l \in Logins, from \in 1 .. 2 : LookUp(l, from)
  \/ Restart

Spec == Init /\ [][Next]_vars

-----------------------------------------------------------------------------
(* Type correctness: the histories run along the rows, a row is in a state *)
(* its schema allows, and the foreign keys of lr-2 and lr-3 hold.          *)

TypeOK ==
  /\ gen \in Generations
  /\ nextUser \in Nat /\ nextLogin \in Nat /\ faults \in Nat
  /\ Len(posted) = Len(db.parcels)
  /\ Len(shipped) = Len(db.deliveries)
  /\ \A k \in DOMAIN db.parcels :
       /\ db.parcels[k].status \in ParcelStatuses
       /\ gen \in {2, 3} => db.parcels[k].sender_id \in DOMAIN db.users
  /\ \A k \in DOMAIN db.deliveries :
       /\ db.deliveries[k].status \in DeliveryStatuses
       /\ db.deliveries[k].parcel_id \in DOMAIN db.parcels
       /\ gen \in {2, 3} => db.deliveries[k].receiver_id \in DOMAIN db.users

-----------------------------------------------------------------------------
(* What a client is shown agrees with what it posted.                      *)

\* The database with the order a query without ORDER BY gets its rows in.
InOrder(plan) == With(db, "plan", plan)
Plans == {"insertion", "newest"}

\* Members that a body may have and a generation does not keep: features but in
\* lr-4, the pickup time everywhere, the sender of a delivery in lr-2, and in
\* MongoDB a description that is empty.
Dropped(g, json) ==
  (IF g = 4 THEN {} ELSE {"features"}) \cup {"scheduled_pickup_time"}
  \cup (IF g = 2 /\ "parcel_id" \in DOMAIN json THEN {"sender_id"} ELSE {})
  \cup {f \in DOMAIN json \cap {"description"} : g > 3 /\ json[f] = Empty}

\* Members of a document that a body has, and those the service adds.
Added == {"id", "status", "tracking_number", "delivered_at", "events"}

\* Features may be added to those posted.
Same(f, shown, value) ==
  IF f = "features" THEN IsPrefix(value, shown) ELSE shown = value

Agrees(g, json, doc) ==
  /\ DOMAIN json \ Dropped(g, json) \subseteq DOMAIN doc
  /\ DOMAIN doc \ Added \subseteq DOMAIN json \cup {"sender_id"}
  /\ \A f \in (DOMAIN json \cap DOMAIN doc) \ Dropped(g, json) : Same(f, doc[f], json[f])

\* A delivery of lr-2 shows the sender of its parcel, a list of events begins
\* with the one of the creation.
DeliveryAgrees(g, d, json, doc) ==
  /\ Agrees(g, json, doc)
  /\ g = 2 => doc.sender_id = d.parcels[doc.parcel_id].sender_id
  /\ HasEvents(g) => doc.events[1] = [status |-> "pending", location |-> json.from_address.city]

WholePage == [from |-> 1, to |-> MaxReserve]

Elements(answer) == IF answer.status = 200 THEN ToSet(answer.shown) ELSE {}

\* Every parcel and every delivery that GET lists, and everything that POST
\* answers 201 with, agrees with the body it was made from: what each
\* generation's Parse, row or document, and Serialize do to it in turn loses
\* nothing but what Dropped names, and mixes up no two fields.
AnswersAgree ==
  /\ \A u \in DOMAIN db.users \cup {1} :
       \A doc \in Elements(GetParcels(gen, InOrder("insertion"), With(WholePage, "user_id", u))) :
         Agrees(gen, posted[doc.id], doc)
  /\ gen # 5 =>
       \A u \in DOMAIN db.users \cup {1}, by \in {"sender_id", "receiver_id"} :
         \A doc \in Elements(GetDeliveries(gen, InOrder("insertion"), With(WholePage, by, u))) :
           DeliveryAgrees(gen, db, shipped[doc.id], doc)
  /\ \A json \in ParcelBodies :
       LET o == PostParcel(gen, db, json, "none")
       IN  o.result.status = 201 => Agrees(gen, json, o.result.shown)
  /\ gen # 5 =>
       \A json \in DeliveryBodies :
         LET o == PostDelivery(gen, db, json, "none")
         IN  o.result.status = 201 => DeliveryAgrees(gen, o.db, json, o.result.shown)

-----------------------------------------------------------------------------
(* Accounts.                                                               *)

LoginAs(l, password) == PostLogin(gen, db, [login |-> l, password |-> password])

\* A client that was told 201 since lr-2's maps last began can log in with its
\* password, gets the id it was told, and can not with another password.  So
\* can a client whose registration would now be answered 409, unless another
\* login has its e-mail: a registration whose answer was lost is not lost.
AccountsWork ==
  gen # 4 =>
    /\ \A t \in told :
         LoginAs(t.login, UserBody[t.login].password) =
           Answer(200, [user_id |-> t.id, login |-> t.login])
    /\ \A l \in Logins :
         /\ LoginAs(l, Stranger).status \in {400, 401}
         /\ \/ PostUser(gen, db, UserBody[l], "none").result.status # 409
            \/ LoginAs(l, UserBody[l].password).status = 200
            \/ \E k \in DOMAIN db.users : /\ db.users[k].login # l
                                          /\ db.users[k].email = UserBody[l].email

\* Until lr-2 or lr-4 restarts and gives the ids again, the id a client was told
\* when it registered is told to no other that registers, and a client is told
\* one id.  In lr-4 every registration is told a new one, and the logins draw from
\* a counter of their own: the same holds among them, and not between the two.
IdsExplained ==
  \A history \in {told, named} : \A x, y \in history :
    /\ x.id = y.id => x.login = y.login
    /\ x.login = y.login /\ gen # 4 => x.id = y.id

-----------------------------------------------------------------------------
(* Searches.                                                               *)

\* The searches with pages and what they are to find.
Searches ==
  [of : {"parcels"}, by : {"user_id"}, value : DOMAIN db.users \cup {1}]
  \cup [of : {"deliveries"}, by : {"sender_id", "receiver_id"}, value : DOMAIN db.users \cup {1}]
  \cup (IF gen # 4 THEN {}
        ELSE [of : {"parcels"}, by : {"status"}, value : ParcelStatuses]
             \cup [of : {"deliveries"}, by : {"status"}, value : DeliveryStatuses])
  \cup (IF gen = 4 THEN {} ELSE [of : {"users"}, by : {"name_mask"}, value : NamePrefixes])

Asked(s) == [f \in {s.by} |-> IF s.of = "users" THEN Append(s.value, Star) ELSE s.value]

Found(s) ==
  CASE s.of = "users" ->
         {k \in DOMAIN db.users : IF gen = 2 THEN Within(db.users[k].name, s.value)
                                  ELSE IsPrefix(s.value, db.users[k].name)}
    [] s.of = "parcels" ->
         {k \in DOMAIN db.parcels : IF s.by = "status" THEN db.parcels[k].status = s.value
                                    ELSE db.parcels[k].sender_id = s.value}
    [] OTHER ->
         {k \in DOMAIN db.deliveries :
            LET d == db.deliveries[k]
            IN  CASE s.by = "status" -> d.status = s.value
                  [] s.by = "receiver_id" -> d.receiver_id = s.value
                  [] OTHER -> s.value = IF gen = 2 THEN db.parcels[d.parcel_id].sender_id
                                        ELSE d.sender_id}

Get(s, d, q) ==
  CASE s.of = "users" -> GetUsers(gen, d, <<>>, q)
    [] s.of = "parcels" -> GetParcels(gen, d, q)
    [] OTHER -> GetDeliveries(gen, d, q)

\* lr-3 does not list the parcels of a user one of whose descriptions is NULL.
Unlisted(s) ==
  /\ gen = 3 /\ s.of = "parcels"
  /\ \E k \in Found(s) : db.parcels[k].description = Nothing

\* The places of the pages, and the id that is shown at one.
Places(pages) == UNION {{p} \X DOMAIN pages[p].shown : p \in DOMAIN pages}
IdAt(pages, place) == pages[place[1]].shown[place[2]].id

\* Pages 1 to n of a search, size rows each.
Pages(s, plan, size, n) ==
  [p \in 1 .. n |->
     Get(s, InOrder(plan), With(With(Asked(s), "from", (p - 1) * size + 1), "to", p * size))]

\* Rows come in one order when there are fewer than two.
PlansOf(found) == IF Cardinality(found) < 2 THEN {"insertion"} ELSE Plans

\* The pages of a search, as long as its plan does not change, are answered and
\* hold every row that matches once and nothing else, and the page after the
\* last row is empty.  lr-2 has no pages and lists them all.
PagesTile ==
  \A s \in Searches :
    (gen # 5 \/ s.of # "deliveries") /\ ~Unlisted(s) =>
    LET found == Found(s)
    IN  \A plan \in PlansOf(found), size \in 1 .. MaxReserve :
          LET pages == Pages(s, plan, size,
                             IF gen = 2 THEN 1 ELSE Cardinality(found) \div size + 1)
          IN  /\ \A p \in DOMAIN pages : pages[p].status = 200
              /\ {IdAt(pages, x) : x \in Places(pages)} = found
              /\ \A x, y \in Places(pages) : IdAt(pages, x) = IdAt(pages, y) => x = y

\* A login is found by its name and a delivery by its tracking number, with the
\* bounds a client may leave out left out, and what nobody has is answered 404.
\* A login is on the first page only; the cache of lr-5 answers for any page.
LookupsFind ==
  /\ gen # 4 =>
       \A l \in Logins, from \in 1 .. 2 :
         LET answer == GetUsers(gen, InOrder("insertion"), cache[l],
                                [login |-> l, from |-> from, to |-> 2])
             owners == {k \in DOMAIN db.users : db.users[k].login = l}
         IN  IF owners # {} /\ (from = 1 \/ gen = 2 \/ cache[l] # <<>>)
             THEN answer.status = 200 /\ owners = {doc.id : doc \in ToSet(answer.shown)}
             ELSE answer.status = 404
  /\ gen # 5 =>
       \A t \in 1 .. MaxDeliveries + 1 :
         LET answer == GetDeliveries(gen, InOrder("insertion"), [tracking_number |-> t])
             owners == {k \in DOMAIN db.deliveries : db.deliveries[k].tracking_number = t}
         IN  IF owners # {}
             THEN answer.status = 200 /\ owners = {doc.id : doc \in ToSet(answer.shown)}
             ELSE answer.status = 404

-----------------------------------------------------------------------------
(* Retries.                                                                *)

\* There is a parcel for every 201, and one for every request whose answer was
\* lost after the write, whatever its client was told and tries again; a
\* request that was answered 400, 404 or 422 without a fault made none.
ParcelsAreAccountedFor == Len(db.parcels) = made + unsure

\* What lr-3's API says of GET /parcels: with a user and valid bounds it
\* answers 200 with the list.
ListOfParcelsIsAnswered ==
  \A u \in DOMAIN db.users :
    GetParcels(gen, InOrder("insertion"), With(WholePage, "user_id", u)).status = 200
=============================================================================
