--------------------------- MODULE InMemoryStorage ---------------------------
(***************************************************************************)
(* The storage of the second generation: three maps, three id counters and *)
(* one mutex that every operation holds from its first line to its last.   *)
(* The handlers of POST make two calls: create, and read back by the id    *)
(* that create returned, dereferencing the optional without a check; the   *)
(* mutex is free in between.  Login likewise verifies the credentials and  *)
(* then reads the user by id.                                              *)
(***************************************************************************)
EXTENDS Naturals

CONSTANTS
  Logins,         \* logins clients register
  Threads,        \* handler threads
  MaxUsers,       \* bound: users created
  MaxParcels,     \* bound: parcels created
  MaxDeliveries,  \* bound: deliveries created
  None            \* no login, no parcel

ASSUME BoundAssumption == MaxUsers \in Nat /\ MaxParcels \in Nat /\ MaxDeliveries \in Nat

ASSUME NoneAssumption == None \notin Logins /\ None \notin Nat

UserIds == 1..MaxUsers
ParcelIds == 1..MaxParcels
DeliveryIds == 1..MaxDeliveries

VARIABLES
  users,            \* users_: users[i] is the login of user i, or None
  parcels,          \* parcels_: the parcel, or NoParcel
  deliveries,       \* deliveries_: the delivery, or NoDelivery
  userCounter,      \* user_id_counter_
  parcelCounter,    \* parcel_id_counter_
  deliveryCounter,  \* delivery_id_counter_
  pc,               \* pc[t]: the storage call thread t makes next
  made,             \* made[t]: the id the first call of t's request returned
  want,             \* history: what t's last request named
  reply             \* reply[t]: what t's last request was answered, or "none"

vars == <<users, parcels, deliveries, userCounter, parcelCounter, deliveryCounter,
          pc, made, want, reply>>

NoParcel == [sender |-> 0, status |-> "none"]
NoDelivery == [parcel |-> 0, receiver |-> 0]

Parcel == [sender : UserIds, status : {"created", "assigned"}]
Delivery == [parcel : ParcelIds, receiver : UserIds]

\* What a request names: a login, a user (sender or receiver), a parcel.
Want(l, u, p) == [login |-> l, user |-> u, parcel |-> p]
Nothing == Want(None, 0, 0)

HasUser(i) == i \in UserIds /\ users[i] # None
HasParcel(p) == p \in ParcelIds /\ parcels[p] # NoParcel
HasDelivery(d) == d \in DeliveryIds /\ deliveries[d] # NoDelivery

\* The call that reads back what a request made; also names its answer.
ReadSteps == {"readUser", "readParcel", "readDelivery"}

Taken(l) == \E i \in UserIds : HasUser(i) /\ users[i] = l

Init ==
  /\ users = [i \in UserIds |-> None]
  /\ parcels = [p \in ParcelIds |-> NoParcel]
  /\ deliveries = [d \in DeliveryIds |-> NoDelivery]
  /\ userCounter = 1
  /\ parcelCounter = 1
  /\ deliveryCounter = 1
  /\ pc = [t \in Threads |-> "idle"]
  /\ made = [t \in Threads |-> 0]
  /\ want = [t \in Threads |-> Nothing]
  /\ reply = [t \in Threads |-> "none"]

\* Thread t goes on to read back the id it made or found for request w.
ThenRead(t, step, id, w) ==
  /\ pc' = [pc EXCEPT ![t] = step]
  /\ made' = [made EXCEPT ![t] = id]
  /\ want' = [want EXCEPT ![t] = w]
  /\ reply' = [reply EXCEPT ![t] = "none"]

\* The call of thread t refuses request w, and the client is told why.
Refuse(t, why, w) ==
  /\ pc[t] = "idle"
  /\ made' = [made EXCEPT ![t] = 0]
  /\ want' = [want EXCEPT ![t] = w]
  /\ reply' = [reply EXCEPT ![t] = why]
  /\ UNCHANGED <<users, parcels, deliveries, userCounter, parcelCounter,
                 deliveryCounter, pc>>

-----------------------------------------------------------------------------
(* The first call of a request.                                            *)

\* Mutant of CreateUser: the login is not looked up first.
CreateUserUnchecked(t, l) ==
  /\ pc[t] = "idle"
  /\ userCounter <= MaxUsers
  /\ users' = [users EXCEPT ![userCounter] = l]
  /\ userCounter' = userCounter + 1
  /\ ThenRead(t, "readUser", userCounter, Want(l, 0, 0))
  /\ UNCHANGED <<parcels, deliveries, parcelCounter, deliveryCounter>>

\* POST /users of a login that is not registered.
CreateUser(t, l) ==
  /\ pc[t] = "idle"
  /\ ~Taken(l)
  /\ userCounter <= MaxUsers
  /\ users' = [users EXCEPT ![userCounter] = l]
  /\ userCounter' = userCounter + 1
  /\ ThenRead(t, "readUser", userCounter, Want(l, 0, 0))
  /\ UNCHANGED <<parcels, deliveries, parcelCounter, deliveryCounter>>

\* 409: the login is registered.
CreateUserRefused(t, l) == Taken(l) /\ Refuse(t, "conflict", Want(l, 0, 0))

\* POST /login with a login and password that match; the first user with that
\* login is taken.
VerifyCredentials(t, l) ==
  /\ pc[t] = "idle"
  /\ \E i \in UserIds :
       /\ users[i] = l
       /\ \A j \in 1..(i - 1) : users[j] # l
       /\ ThenRead(t, "readUser", i, Want(l, 0, 0))
  /\ UNCHANGED <<users, parcels, deliveries, userCounter, parcelCounter, deliveryCounter>>

\* 401: no user has that login, or the password is another one.
LoginRefused(t, l) == Refuse(t, "unauthorized", Want(l, 0, 0))

\* Mutant of CreateParcel: the sender is not looked up.
CreateParcelUnchecked(t, u) ==
  /\ pc[t] = "idle"
  /\ parcelCounter <= MaxParcels
  /\ parcels' = [parcels EXCEPT ![parcelCounter] = [sender |-> u, status |-> "created"]]
  /\ parcelCounter' = parcelCounter + 1
  /\ ThenRead(t, "readParcel", parcelCounter, Want(None, u, 0))
  /\ UNCHANGED <<users, deliveries, userCounter, deliveryCounter>>

\* POST /parcels of a sender who exists.
CreateParcel(t, u) ==
  /\ pc[t] = "idle"
  /\ HasUser(u)
  /\ parcelCounter <= MaxParcels
  /\ parcels' = [parcels EXCEPT ![parcelCounter] = [sender |-> u, status |-> "created"]]
  /\ parcelCounter' = parcelCounter + 1
  /\ ThenRead(t, "readParcel", parcelCounter, Want(None, u, 0))
  /\ UNCHANGED <<users, deliveries, userCounter, deliveryCounter>>

\* 404: there is no such sender.
CreateParcelRefused(t, u) == ~HasUser(u) /\ Refuse(t, "notFound", Want(None, u, 0))

\* Mutant of CreateDelivery: the parcel keeps its status.
CreateDeliveryUnassigned(t, p, r) ==
  /\ pc[t] = "idle"
  /\ HasParcel(p)
  /\ HasUser(r)
  /\ deliveryCounter <= MaxDeliveries
  /\ deliveries' = [deliveries EXCEPT ![deliveryCounter] = [parcel |-> p, receiver |-> r]]
  /\ deliveryCounter' = deliveryCounter + 1
  /\ ThenRead(t, "readDelivery", deliveryCounter, Want(None, r, p))
  /\ UNCHANGED <<users, parcels, userCounter, parcelCounter>>

\* Mutant of CreateDelivery: the id is the current value of the counter, which
\* the create after it moves on.
CreateDeliveryLateId(t, p, r) ==
  /\ pc[t] = "idle"
  /\ HasParcel(p)
  /\ HasUser(r)
  /\ deliveryCounter <= MaxDeliveries
  /\ deliveries' = [deliveries EXCEPT ![deliveryCounter] = [parcel |-> p, receiver |-> r]]
  /\ parcels' = [parcels EXCEPT ![p].status = "assigned"]
  /\ deliveryCounter' = deliveryCounter + 1
  /\ ThenRead(t, "readDelivery", deliveryCounter + 1, Want(None, r, p))
  /\ UNCHANGED <<users, userCounter, parcelCounter>>

\* Mutant of CreateDelivery: the parcel is given the status of the delivery.
CreateDeliveryPending(t, p, r) ==
  /\ pc[t] = "idle"
  /\ HasParcel(p)
  /\ HasUser(r)
  /\ deliveryCounter <= MaxDeliveries
  /\ deliveries' = [deliveries EXCEPT ![deliveryCounter] = [parcel |-> p, receiver |-> r]]
  /\ parcels' = [parcels EXCEPT ![p].status = "pending"]
  /\ deliveryCounter' = deliveryCounter + 1
  /\ ThenRead(t, "readDelivery", deliveryCounter, Want(None, r, p))
  /\ UNCHANGED <<users, userCounter, parcelCounter>>

\* POST /deliveries of a parcel and to a receiver who exist; the parcel may
\* have a delivery already.
CreateDelivery(t, p, r) ==
  /\ pc[t] = "idle"
  /\ HasParcel(p)
  /\ HasUser(r)
  /\ deliveryCounter <= MaxDeliveries
  /\ deliveries' = [deliveries EXCEPT ![deliveryCounter] = [parcel |-> p, receiver |-> r]]
  /\ parcels' = [parcels EXCEPT ![p].status = "assigned"]
  /\ deliveryCounter' = deliveryCounter + 1
  /\ ThenRead(t, "readDelivery", deliveryCounter, Want(None, r, p))
  /\ UNCHANGED <<users, userCounter, parcelCounter>>

\* 404: there is no such parcel, or no such receiver.
CreateDeliveryRefused(t, p, r) ==
  /\ ~HasParcel(p) \/ ~HasUser(r)
  /\ Refuse(t, "notFound", Want(None, r, p))

-----------------------------------------------------------------------------
\* The second call: the entry is read by its id, and the client is answered.
ReadBack(t) ==
  /\ pc[t] # "idle"
  /\ pc' = [pc EXCEPT ![t] = "idle"]
  /\ reply' = [reply EXCEPT ![t] = pc[t]]
  /\ UNCHANGED <<users, parcels, deliveries, userCounter, parcelCounter, deliveryCounter,
                 made, want>>

Next ==
  \E t \in Threads :
    \/ \E l \in Logins :
         \/ CreateUser(t, l) \/ CreateUserRefused(t, l)
         \/ VerifyCredentials(t, l) \/ LoginRefused(t, l)
    \/ \E u \in UserIds : CreateParcel(t, u) \/ CreateParcelRefused(t, u)
    \/ \E p \in ParcelIds, r \in UserIds :
         CreateDelivery(t, p, r) \/ CreateDeliveryRefused(t, p, r)
    \/ ReadBack(t)

Spec == Init /\ [][Next]_vars

\* GET /deliveries?sender_id= joins the delivery with its parcel.
GetDeliveriesBySender(u) ==
  {d \in DeliveryIds :
     HasDelivery(d) /\ HasParcel(deliveries[d].parcel)
       /\ parcels[deliveries[d].parcel].sender = u}

\* GET /deliveries?receiver_id= keeps a delivery whose parcel is missing.
GetDeliveriesByReceiver(u) ==
  {d \in DeliveryIds : HasDelivery(d) /\ deliveries[d].receiver = u}

-----------------------------------------------------------------------------
(* Properties                                                              *)

TypeOK ==
  /\ users \in [UserIds -> Logins \cup {None}]
  /\ parcels \in [ParcelIds -> Parcel \cup {NoParcel}]
  /\ deliveries \in [DeliveryIds -> Delivery \cup {NoDelivery}]
  /\ userCounter \in 1..(MaxUsers + 1)
  /\ parcelCounter \in 1..(MaxParcels + 1)
  /\ deliveryCounter \in 1..(MaxDeliveries + 1)
  /\ pc \in [Threads -> {"idle"} \cup ReadSteps]
  /\ made \in [Threads -> Nat]
  /\ want \in [Threads -> [login : Logins \cup {None}, user : Nat, parcel : Nat]]
  /\ reply \in [Threads -> {"none", "conflict", "notFound", "unauthorized"} \cup ReadSteps]

\* The entry that the call named step reads is there and is what was asked for.
Finds(t, step) ==
  /\ step = "readUser" => HasUser(made[t]) /\ users[made[t]] = want[t].login
  /\ step = "readParcel" => HasParcel(made[t]) /\ parcels[made[t]].sender = want[t].user
  /\ step = "readDelivery" =>
       /\ HasDelivery(made[t])
       /\ deliveries[made[t]] = [parcel |-> want[t].parcel, receiver |-> want[t].user]

\* Whatever other requests do between the two calls of a request, the second
\* finds an entry, so the optional the handlers dereference is never empty, and
\* it is the entry the client asked for; a login is answered for its own user.
\* It is so for good: what a client was told stays true, refusals of a login too.
AnswersHold ==
  \A t \in Threads :
    /\ Finds(t, pc[t])
    /\ Finds(t, reply[t])
    /\ reply[t] = "conflict" => Taken(want[t].login)

\* No delivery gets lost between the lists: each is in the list of one user who
\* exists as sender and of one who exists as receiver.
EveryDeliveryIsListed ==
  \A d \in DeliveryIds : HasDelivery(d) =>
    /\ \E u \in UserIds : HasUser(u) /\ d \in GetDeliveriesBySender(u)
    /\ \E u \in UserIds : HasUser(u) /\ d \in GetDeliveriesByReceiver(u)

\* A parcel is "assigned" exactly when some delivery ships it.
AssignedIffShipped ==
  \A p \in ParcelIds : HasParcel(p) =>
    (parcels[p].status = "assigned"
       <=> \E d \in DeliveryIds : HasDelivery(d) /\ deliveries[d].parcel = p)

-----------------------------------------------------------------------------
(* The book behind the maps: users by their logins instead of their ids.   *)

LoginOf(i) == IF i \in UserIds THEN users[i] ELSE None

\* An account is a login that exactly one user has.
Accounts == {l \in Logins : \E i \in UserIds : \A j \in UserIds : users[j] = l <=> j = i}
Owner == [p \in ParcelIds |-> LoginOf(parcels[p].sender)]
Shipments ==
  [d \in DeliveryIds |->
     IF HasDelivery(d)
     THEN [parcel |-> deliveries[d].parcel, receiver |-> LoginOf(deliveries[d].receiver)]
     ELSE [parcel |-> None, receiver |-> None]]
Assigned == {p \in ParcelIds : parcels[p].status = "assigned"}

Book == INSTANCE DeliveryBook WITH
  Parcels <- ParcelIds, Deliveries <- DeliveryIds,
  accounts <- Accounts, owner <- Owner, book <- Shipments, assigned <- Assigned

\* Seen through logins, every request takes effect in one step of the book or
\* in none: no login becomes that of two users, no parcel is without an owner, no
\* shipment without its parcel marked in the same step.
ImplementsBook == Book!Spec

=============================================================================
