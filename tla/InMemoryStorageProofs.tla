------------------------ MODULE InMemoryStorageProofs ------------------------
(***************************************************************************)
(* The storage of the second generation is proved correct for any number   *)
(* of threads, logins, users, parcels and deliveries.  The strengthening   *)
(* that makes the properties inductive: an id is in use exactly when the   *)
(* counter has passed it, and what is stored refers only to what is        *)
(* stored.                                                                 *)
(***************************************************************************)
EXTENDS InMemoryStorage, TLAPS

CountersInv ==
  /\ \A i \in UserIds : users[i] # None <=> i < userCounter
  /\ \A p \in ParcelIds : parcels[p] # NoParcel <=> p < parcelCounter
  /\ \A d \in DeliveryIds : deliveries[d] # NoDelivery <=> d < deliveryCounter

RefersInv ==
  /\ \A p \in ParcelIds : HasParcel(p) => HasUser(parcels[p].sender)
  /\ \A d \in DeliveryIds :
       HasDelivery(d) => HasParcel(deliveries[d].parcel) /\ HasUser(deliveries[d].receiver)

\* No login is that of two users.
LoginsUnique ==
  \A i, j \in UserIds : users[i] # None /\ users[i] = users[j] => i = j

IInv ==
  /\ TypeOK
  /\ CountersInv
  /\ LoginsUnique
  /\ RefersInv
  /\ AnswersHold
  /\ AssignedIffShipped

USE BoundAssumption, NoneAssumption

LEMMA InitIInv == Init => IInv
  BY DEF Init, IInv, TypeOK, CountersInv, LoginsUnique, RefersInv, AnswersHold, AssignedIffShipped,
         Finds, ReadSteps, HasUser, HasParcel, HasDelivery, Nothing, Want, UserIds,
         ParcelIds, DeliveryIds, NoParcel, NoDelivery, Taken

\* Requests never remove or change an entry but for the status of a parcel.
EntriesStay ==
  /\ \A i \in UserIds : users[i] # None => users'[i] = users[i]
  /\ \A p \in ParcelIds :
       parcels[p] # NoParcel => parcels'[p] # NoParcel /\ parcels'[p].sender = parcels[p].sender
  /\ \A d \in DeliveryIds : deliveries[d] # NoDelivery => deliveries'[d] = deliveries[d]

\* What a request was made or answered for stays true while entries stay.
LEMMA FindsStays ==
  ASSUME EntriesStay, NEW t \in Threads, NEW step, Finds(t, step),
         made'[t] = made[t], want'[t] = want[t]
  PROVE  Finds(t, step)'
  BY DEF EntriesStay, Finds, HasUser, HasParcel, HasDelivery

LEMMA TakenStays ==
  ASSUME EntriesStay, NEW l, Taken(l)
  PROVE  Taken(l)'
  BY DEF EntriesStay, Taken, HasUser

\* The answers given so far hold after a step that makes t go on to read, if
\* what it will read is there.
LEMMA ThenReadAnswers ==
  ASSUME IInv, EntriesStay, NEW t \in Threads, NEW step \in ReadSteps, NEW id, NEW w,
         ThenRead(t, step, id, w), Finds(t, step)'
  PROVE  AnswersHold'
<1> SUFFICES ASSUME NEW u \in Threads
             PROVE  /\ Finds(u, pc[u])'
                    /\ Finds(u, reply[u])'
                    /\ reply'[u] = "conflict" => Taken(want[u].login)'
  BY DEF AnswersHold
<1>1. CASE u = t
  <2>1. pc'[t] = step /\ reply'[t] = "none"
    BY DEF ThenRead, IInv, TypeOK
  <2>2. Finds(t, "none")'
    BY DEF Finds
  <2> QED
    BY <1>1, <2>1, <2>2
<1>2. CASE u # t
  <2>1. /\ pc'[u] = pc[u] /\ reply'[u] = reply[u]
        /\ made'[u] = made[u] /\ want'[u] = want[u]
    BY <1>2 DEF ThenRead, IInv, TypeOK
  <2>2. Finds(u, pc[u])' /\ Finds(u, reply[u])'
    <3>1. Finds(u, pc[u]) /\ Finds(u, reply[u])
      BY DEF IInv, AnswersHold
    <3>2. PICK step1, step2 : step1 = pc[u] /\ step2 = reply[u]
      OBVIOUS
    <3>3. Finds(u, step1)' /\ Finds(u, step2)'
      BY <2>1, <3>1, <3>2, FindsStays
    <3> QED
      BY <2>1, <3>2, <3>3
  <2>3. reply[u] = "conflict" => Taken(want[u].login)'
    <3> SUFFICES ASSUME reply[u] = "conflict" PROVE Taken(want[u].login)'
      OBVIOUS
    <3>1. Taken(want[u].login)
      BY DEF IInv, AnswersHold
    <3>2. PICK l : l = want[u].login
      OBVIOUS
    <3>3. Taken(l)'
      BY <3>1, <3>2, TakenStays
    <3> QED
      BY <2>1, <3>2, <3>3
  <2> QED
    BY <2>1, <2>2, <2>3
<1> QED
  BY <1>1, <1>2

LEMMA CreateUserIInv ==
  ASSUME IInv, NEW t \in Threads, NEW l \in Logins, CreateUser(t, l)
  PROVE  IInv'
<1>1. /\ userCounter \in UserIds /\ users[userCounter] = None
      /\ users' = [users EXCEPT ![userCounter] = l] /\ userCounter' = userCounter + 1
      /\ UNCHANGED <<parcels, deliveries, parcelCounter, deliveryCounter>>
  BY DEF CreateUser, IInv, TypeOK, CountersInv, UserIds
<1>2. TypeOK'
  BY DEF IInv, TypeOK, CreateUser, ThenRead, ReadSteps, Want, UserIds
<1>3. CountersInv'
  <2>1. l # None
    BY NoneAssumption
  <2>2. \A i \in UserIds : users'[i] = IF i = userCounter THEN l ELSE users[i]
    BY <1>1 DEF IInv, TypeOK
  <2>3. \A i \in UserIds : users'[i] # None <=> i < userCounter'
    BY <1>1, <2>1, <2>2 DEF IInv, CountersInv, UserIds
  <2> QED
    BY <1>1, <2>3 DEF IInv, CountersInv
<1>4. EntriesStay
  BY <1>1 DEF IInv, TypeOK, EntriesStay
<1>5. RefersInv'
  BY <1>1, <1>4 DEF IInv, TypeOK, RefersInv, EntriesStay, HasUser, HasParcel, HasDelivery
<1>6. AnswersHold'
  <2>1. ThenRead(t, "readUser", userCounter, Want(l, 0, 0))
    BY DEF CreateUser
  <2>2. Finds(t, "readUser")'
    BY <1>1, <2>1 DEF IInv, TypeOK, ThenRead, Finds, HasUser, Want
  <2> QED
    BY <1>4, <2>1, <2>2, ThenReadAnswers DEF ReadSteps
<1>7. AssignedIffShipped'
  BY <1>1 DEF IInv, AssignedIffShipped, HasParcel, HasDelivery
<1>8. LoginsUnique'
  BY <1>1 DEF IInv, TypeOK, LoginsUnique, CreateUser, Taken, HasUser
<1> QED
  BY <1>2, <1>3, <1>5, <1>6, <1>7, <1>8 DEF IInv

LEMMA VerifyCredentialsIInv ==
  ASSUME IInv, NEW t \in Threads, NEW l \in Logins, VerifyCredentials(t, l)
  PROVE  IInv'
<1>1. PICK i \in UserIds : users[i] = l /\ ThenRead(t, "readUser", i, Want(l, 0, 0))
  BY DEF VerifyCredentials
<1>2. UNCHANGED <<users, parcels, deliveries, userCounter, parcelCounter, deliveryCounter>>
  BY DEF VerifyCredentials
<1>3. TypeOK'
  BY <1>1, <1>2 DEF IInv, TypeOK, ThenRead, ReadSteps, Want, UserIds
<1>4. EntriesStay
  BY <1>2 DEF EntriesStay
<1>5. AnswersHold'
  <2>1. Finds(t, "readUser")'
    BY <1>1, <1>2 DEF IInv, TypeOK, ThenRead, Finds, HasUser, Want
  <2> QED
    BY <1>1, <1>4, <2>1, ThenReadAnswers DEF ReadSteps
<1> QED
  BY <1>2, <1>3, <1>5 DEF IInv, CountersInv, LoginsUnique, RefersInv, AssignedIffShipped, HasUser,
     HasParcel, HasDelivery

LEMMA CreateParcelIInv ==
  ASSUME IInv, NEW t \in Threads, NEW u \in UserIds, CreateParcel(t, u)
  PROVE  IInv'
<1> DEFINE new == [sender |-> u, status |-> "created"]
<1>1. /\ parcelCounter \in ParcelIds /\ parcels[parcelCounter] = NoParcel
      /\ parcels' = [parcels EXCEPT ![parcelCounter] = new]
      /\ parcelCounter' = parcelCounter + 1
      /\ HasUser(u)
      /\ UNCHANGED <<users, deliveries, userCounter, deliveryCounter>>
  BY DEF CreateParcel, IInv, TypeOK, CountersInv, ParcelIds
<1>2. new \in Parcel /\ new # NoParcel /\ new.status = "created" /\ new.sender = u
  BY DEF Parcel, NoParcel
<1> HIDE DEF new
<1>3. TypeOK'
  BY <1>1, <1>2 DEF IInv, TypeOK, CreateParcel, ThenRead, ReadSteps, Want, UserIds, ParcelIds
<1>4. CountersInv'
  BY <1>1, <1>2 DEF IInv, TypeOK, CountersInv, ParcelIds
<1>5. EntriesStay
  BY <1>1 DEF IInv, TypeOK, EntriesStay
<1>6. RefersInv'
  BY <1>1, <1>2, <1>5 DEF IInv, TypeOK, RefersInv, EntriesStay, HasUser, HasParcel, HasDelivery
<1>7. AnswersHold'
  <2>1. ThenRead(t, "readParcel", parcelCounter, Want(None, u, 0))
    BY DEF CreateParcel
  <2>2. Finds(t, "readParcel")'
    BY <1>1, <1>2, <2>1 DEF IInv, TypeOK, ThenRead, Finds, HasParcel, Want
  <2> QED
    BY <1>5, <2>1, <2>2, ThenReadAnswers DEF ReadSteps
<1>8. AssignedIffShipped'
  BY <1>1, <1>2 DEF IInv, TypeOK, RefersInv, AssignedIffShipped, HasParcel, HasDelivery
<1>9. LoginsUnique'
  BY <1>1 DEF IInv, LoginsUnique
<1> QED
  BY <1>3, <1>4, <1>6, <1>7, <1>8, <1>9 DEF IInv

LEMMA CreateDeliveryIInv ==
  ASSUME IInv, NEW t \in Threads, NEW p \in ParcelIds, NEW r \in UserIds,
         CreateDelivery(t, p, r)
  PROVE  IInv'
<1> DEFINE new == [parcel |-> p, receiver |-> r]
<1>1. /\ deliveryCounter \in DeliveryIds /\ deliveries[deliveryCounter] = NoDelivery
      /\ deliveries' = [deliveries EXCEPT ![deliveryCounter] = new]
      /\ parcels' = [parcels EXCEPT ![p].status = "assigned"]
      /\ deliveryCounter' = deliveryCounter + 1
      /\ HasUser(r) /\ HasParcel(p)
      /\ UNCHANGED <<users, userCounter, parcelCounter>>
  BY DEF CreateDelivery, IInv, TypeOK, CountersInv, DeliveryIds
<1>2. new \in Delivery /\ new # NoDelivery /\ new.parcel = p /\ new.receiver = r
  BY DEF Delivery, NoDelivery, ParcelIds
<1> HIDE DEF new
<1>3. /\ parcels[p] \in Parcel
      /\ parcels'[p] \in Parcel /\ parcels'[p].status = "assigned"
      /\ parcels'[p].sender = parcels[p].sender
      /\ parcels'[p] # NoParcel
      /\ \A q \in ParcelIds : q # p => parcels'[q] = parcels[q]
  BY <1>1 DEF IInv, TypeOK, HasParcel, Parcel, NoParcel
<1>4. TypeOK'
  <2>1. parcels' \in [ParcelIds -> Parcel \cup {NoParcel}]
    BY <1>1, <1>3 DEF IInv, TypeOK
  <2>2. deliveries' \in [DeliveryIds -> Delivery \cup {NoDelivery}]
    BY <1>1, <1>2 DEF IInv, TypeOK
  <2>3. /\ pc' \in [Threads -> {"idle"} \cup ReadSteps]
        /\ made' \in [Threads -> Nat]
        /\ want' \in [Threads -> [login : Logins \cup {None}, user : Nat, parcel : Nat]]
        /\ reply' \in [Threads ->
             {"none", "conflict", "notFound", "unauthorized"} \cup ReadSteps]
    BY <1>1 DEF IInv, TypeOK, CreateDelivery, ThenRead, ReadSteps, Want, UserIds,
       ParcelIds, DeliveryIds
  <2>4. /\ deliveryCounter' \in 1..(MaxDeliveries + 1)
        /\ users' \in [UserIds -> Logins \cup {None}]
        /\ userCounter' \in 1..(MaxUsers + 1)
        /\ parcelCounter' \in 1..(MaxParcels + 1)
    BY <1>1 DEF IInv, TypeOK, DeliveryIds
  <2> QED
    BY <2>1, <2>2, <2>3, <2>4 DEF TypeOK
<1>5. CountersInv'
  <2>1. \A q \in ParcelIds : parcels'[q] # NoParcel <=> q < parcelCounter'
    BY <1>1, <1>3 DEF IInv, CountersInv, HasParcel
  <2> QED
    BY <1>1, <1>2, <2>1 DEF IInv, TypeOK, CountersInv, DeliveryIds
<1>6. EntriesStay
  BY <1>1, <1>3 DEF IInv, TypeOK, EntriesStay
<1>7. RefersInv'
  <2>1. \A q \in ParcelIds : HasParcel(q)' => HasUser(parcels[q].sender)'
    BY <1>1, <1>3 DEF IInv, RefersInv, HasUser, HasParcel
  <2>2. \A q \in ParcelIds : HasParcel(q) => HasParcel(q)'
    BY <1>1, <1>3 DEF HasParcel
  <2>3. ASSUME NEW d \in DeliveryIds, HasDelivery(d)'
        PROVE  HasParcel(deliveries[d].parcel)' /\ HasUser(deliveries[d].receiver)'
    BY <1>1, <1>2, <2>2, <2>3 DEF IInv, TypeOK, RefersInv, HasUser, HasParcel, HasDelivery
  <2> QED
    BY <2>1, <2>3 DEF RefersInv
<1>8. AnswersHold'
  <2>1. ThenRead(t, "readDelivery", deliveryCounter, Want(None, r, p))
    BY DEF CreateDelivery
  <2>2. Finds(t, "readDelivery")'
    BY <1>1, <1>2, <2>1 DEF IInv, TypeOK, ThenRead, Finds, HasDelivery, Want, new
  <2> QED
    BY <1>6, <2>1, <2>2, ThenReadAnswers DEF ReadSteps
<1>9. AssignedIffShipped'
  <2> SUFFICES ASSUME NEW q \in ParcelIds, HasParcel(q)'
               PROVE  parcels'[q].status = "assigned"
                        <=> \E d \in DeliveryIds : HasDelivery(d)' /\ deliveries'[d].parcel = q
    BY DEF AssignedIffShipped
  <2>1. CASE q = p
    BY <1>1, <1>2, <1>3, <2>1 DEF IInv, TypeOK, HasDelivery
  <2>2. CASE q # p
    <3>1. HasParcel(q) /\ parcels'[q] = parcels[q]
      BY <1>3, <2>2 DEF HasParcel
    <3>2. \A d \in DeliveryIds : HasDelivery(d)' /\ deliveries'[d].parcel = q
                                 <=> HasDelivery(d) /\ deliveries[d].parcel = q
      BY <1>1, <1>2, <2>2 DEF IInv, TypeOK, HasDelivery
    <3> QED
      BY <3>1, <3>2 DEF IInv, AssignedIffShipped
  <2> QED
    BY <2>1, <2>2
<1>10. LoginsUnique'
  BY <1>1 DEF IInv, LoginsUnique
<1> QED
  BY <1>4, <1>5, <1>7, <1>8, <1>9, <1>10 DEF IInv

LEMMA RefuseIInv ==
  ASSUME IInv, NEW t \in Threads, NEW why \in {"conflict", "notFound", "unauthorized"},
         NEW l \in Logins \cup {None}, NEW u \in Nat, NEW p \in Nat,
         Refuse(t, why, Want(l, u, p)), why = "conflict" => Taken(l)
  PROVE  IInv'
<1>1. UNCHANGED <<users, parcels, deliveries, userCounter, parcelCounter,
                  deliveryCounter, pc>>
  BY DEF Refuse
<1>2. TypeOK'
  BY DEF IInv, TypeOK, Refuse, Want, ReadSteps
<1>3. AnswersHold'
  <2> SUFFICES ASSUME NEW v \in Threads
               PROVE  /\ Finds(v, pc[v])'
                      /\ Finds(v, reply[v])'
                      /\ reply'[v] = "conflict" => Taken(want[v].login)'
    BY DEF AnswersHold
  <2>1. CASE v = t
    <3>1. pc'[v] = "idle" /\ reply'[v] = why /\ want'[v].login = l
      BY <2>1 DEF IInv, TypeOK, Refuse, Want
    <3> QED
      BY <1>1, <3>1 DEF Finds, Taken, HasUser
  <2>2. CASE v # t
    <3>1. /\ pc'[v] = pc[v] /\ reply'[v] = reply[v]
          /\ made'[v] = made[v] /\ want'[v] = want[v]
      BY <2>2 DEF Refuse, IInv, TypeOK
    <3> QED
      BY <1>1, <3>1 DEF IInv, AnswersHold, Finds, Taken, HasUser, HasParcel, HasDelivery
  <2> QED
    BY <2>1, <2>2
<1> QED
  BY <1>1, <1>2, <1>3 DEF IInv, CountersInv, LoginsUnique, RefersInv, AssignedIffShipped, HasUser,
     HasParcel, HasDelivery

LEMMA ReadBackIInv ==
  ASSUME IInv, NEW t \in Threads, ReadBack(t)
  PROVE  IInv'
<1>1. /\ UNCHANGED <<users, parcels, deliveries, userCounter, parcelCounter,
                     deliveryCounter, made, want>>
      /\ pc[t] \in ReadSteps
  BY DEF ReadBack, IInv, TypeOK
<1>2. TypeOK'
  BY <1>1 DEF IInv, TypeOK, ReadBack
<1>3. AnswersHold'
  <2> SUFFICES ASSUME NEW v \in Threads
               PROVE  /\ Finds(v, pc[v])'
                      /\ Finds(v, reply[v])'
                      /\ reply'[v] = "conflict" => Taken(want[v].login)'
    BY DEF AnswersHold
  <2>1. CASE v = t
    <3>1. pc'[v] = "idle" /\ reply'[v] = pc[v] /\ pc[v] # "conflict"
      BY <1>1, <2>1 DEF IInv, TypeOK, ReadBack, ReadSteps
    <3> QED
      BY <1>1, <3>1 DEF IInv, AnswersHold, Finds, HasUser, HasParcel, HasDelivery
  <2>2. CASE v # t
    <3>1. pc'[v] = pc[v] /\ reply'[v] = reply[v]
      BY <2>2 DEF ReadBack, IInv, TypeOK
    <3> QED
      BY <1>1, <3>1 DEF IInv, AnswersHold, Finds, Taken, HasUser, HasParcel, HasDelivery
  <2> QED
    BY <2>1, <2>2
<1> QED
  BY <1>1, <1>2, <1>3 DEF IInv, CountersInv, LoginsUnique, RefersInv, AssignedIffShipped, HasUser,
     HasParcel, HasDelivery

LEMMA NextIInv == IInv /\ [Next]_vars => IInv'
<1> SUFFICES ASSUME IInv, [Next]_vars PROVE IInv'
  OBVIOUS
<1>1. CASE UNCHANGED vars
  BY <1>1 DEF vars, IInv, TypeOK, CountersInv, LoginsUnique, RefersInv, AnswersHold, AssignedIffShipped,
     Finds, Taken, HasUser, HasParcel, HasDelivery
<1>2. ASSUME NEW t \in Threads, NEW l \in Logins,
             CreateUser(t, l) \/ CreateUserRefused(t, l)
               \/ VerifyCredentials(t, l) \/ LoginRefused(t, l)
      PROVE  IInv'
  BY <1>2, CreateUserIInv, VerifyCredentialsIInv, RefuseIInv DEF CreateUserRefused, LoginRefused
<1>3. ASSUME NEW t \in Threads, NEW u \in UserIds,
             CreateParcel(t, u) \/ CreateParcelRefused(t, u)
      PROVE  IInv'
  BY <1>3, CreateParcelIInv, RefuseIInv DEF CreateParcelRefused, UserIds
<1>4. ASSUME NEW t \in Threads, NEW p \in ParcelIds, NEW r \in UserIds,
             CreateDelivery(t, p, r) \/ CreateDeliveryRefused(t, p, r)
      PROVE  IInv'
  BY <1>4, CreateDeliveryIInv, RefuseIInv DEF CreateDeliveryRefused, UserIds, ParcelIds
<1>5. ASSUME NEW t \in Threads, ReadBack(t)
      PROVE  IInv'
  BY <1>5, ReadBackIInv
<1> QED
  BY <1>1, <1>2, <1>3, <1>4, <1>5 DEF Next

-----------------------------------------------------------------------------
(* Theorems                                                                *)

\* The strengthened invariant holds in every reachable state.
THEOREM Invariance == Spec => []IInv
  BY InitIInv, NextIInv, PTL DEF Spec

\* Every reachable state of the maps, the counters and the threads is typed.
THEOREM TypeCorrect == Spec => []TypeOK
  BY Invariance, PTL DEF IInv

\* The second call of a request finds what its first call made, whatever other
\* requests do in between, and what clients were answered stays true.
THEOREM AnswerSafety == Spec => []AnswersHold
  BY Invariance, PTL DEF IInv

\* A parcel is marked "assigned" exactly when a delivery ships it.
THEOREM StatusSafety == Spec => []AssignedIffShipped
  BY Invariance, PTL DEF IInv

LEMMA ListedByReferences == IInv => EveryDeliveryIsListed
<1> SUFFICES ASSUME IInv, NEW d \in DeliveryIds, HasDelivery(d)
             PROVE  /\ \E u \in UserIds : HasUser(u) /\ d \in GetDeliveriesBySender(u)
                    /\ \E u \in UserIds : HasUser(u) /\ d \in GetDeliveriesByReceiver(u)
  BY DEF EveryDeliveryIsListed
<1>1. HasParcel(deliveries[d].parcel) /\ HasUser(deliveries[d].receiver)
  BY DEF IInv, RefersInv
<1>2. HasUser(parcels[deliveries[d].parcel].sender)
  BY <1>1 DEF IInv, RefersInv, HasParcel
<1> QED
  BY <1>1, <1>2 DEF GetDeliveriesBySender, GetDeliveriesByReceiver, HasUser

\* Every delivery is in the list of its sender and of its receiver, both of whom
\* exist.
THEOREM ListingSafety == Spec => []EveryDeliveryIsListed
  BY Invariance, ListedByReferences, PTL

-----------------------------------------------------------------------------
(* The storage implements the book.                                        *)

LEMMA InitBook == Init => Book!Init
<1> SUFFICES ASSUME Init PROVE Book!Init
  OBVIOUS
<1>1. Accounts = {}
  BY DEF Init, Accounts, Taken, HasUser, UserIds
<1>2. Owner = [p \in ParcelIds |-> None]
  BY DEF Init, Owner, LoginOf, NoParcel, UserIds
<1>3. Shipments = [d \in DeliveryIds |-> Book!NoShipment]
  BY DEF Init, Shipments, HasDelivery, Book!NoShipment, Book!Shipment
<1>4. Assigned = {}
  BY DEF Init, Assigned, NoParcel
<1> QED
  BY <1>1, <1>2, <1>3, <1>4 DEF Book!Init

\* The book is the same when the maps are.
LEMMA SameMaps ==
  UNCHANGED <<users, parcels, deliveries>> => UNCHANGED Book!vars
  BY DEF Book!vars, Accounts, Owner, Shipments, Assigned, Taken, HasUser, HasDelivery, LoginOf

LEMMA CreateUserBook ==
  ASSUME IInv, NEW t \in Threads, NEW l \in Logins, CreateUser(t, l)
  PROVE  Book!Register(l)
<1>1. /\ userCounter \in UserIds /\ users[userCounter] = None
      /\ users' = [users EXCEPT ![userCounter] = l]
      /\ UNCHANGED <<parcels, deliveries>>
      /\ ~Taken(l)
  BY DEF CreateUser, IInv, TypeOK, CountersInv, UserIds
<1>2. l \notin Accounts
  BY <1>1 DEF Accounts, Taken, HasUser
<1>3. \A j \in UserIds : users'[j] = IF j = userCounter THEN l ELSE users[j]
  BY <1>1 DEF IInv, TypeOK
<1>4. Accounts' = Accounts \cup {l}
  <2>1. \A j \in UserIds : users'[j] = l <=> j = userCounter
    BY <1>1, <1>3 DEF Taken, HasUser
  <2>2. ASSUME NEW k \in Logins, k # l
        PROVE  \A j \in UserIds : users'[j] = k <=> users[j] = k
    BY <1>1, <1>3, <2>2
  <2> QED
    BY <1>1, <2>1, <2>2 DEF Accounts
<1>5. \A i : HasUser(i) => LoginOf(i)' = LoginOf(i)
  BY <1>1 DEF IInv, TypeOK, HasUser, LoginOf
<1>6. Owner' = Owner
  <2>1. \A p \in ParcelIds : LoginOf(parcels[p].sender)' = LoginOf(parcels[p].sender)
    <3> TAKE p \in ParcelIds
    <3>1. CASE HasParcel(p)
      BY <1>1, <1>5, <3>1 DEF IInv, RefersInv
    <3>2. CASE ~HasParcel(p)
      BY <1>1, <3>2 DEF HasParcel, LoginOf, NoParcel, UserIds
    <3> QED
      BY <3>1, <3>2
  <2> QED
    BY <2>1 DEF Owner
<1>7. Shipments' = Shipments
  <2>1. \A d \in DeliveryIds : HasDelivery(d) =>
          LoginOf(deliveries[d].receiver)' = LoginOf(deliveries[d].receiver)
    BY <1>1, <1>5 DEF IInv, RefersInv
  <2>2. \A d \in DeliveryIds : HasDelivery(d)' <=> HasDelivery(d)
    BY <1>1 DEF HasDelivery
  <2> QED
    BY <1>1, <2>1, <2>2 DEF Shipments
<1>8. Assigned' = Assigned
  BY <1>1 DEF Assigned
<1> QED
  BY <1>2, <1>4, <1>6, <1>7, <1>8 DEF Book!Register

LEMMA CreateParcelBook ==
  ASSUME IInv, NEW t \in Threads, NEW u \in UserIds, CreateParcel(t, u)
  PROVE  Book!HandIn(parcelCounter, users[u]) /\ parcelCounter \in ParcelIds /\ users[u] \in Logins
<1> DEFINE new == [sender |-> u, status |-> "created"]
<1>1. /\ parcelCounter \in ParcelIds /\ parcels[parcelCounter] = NoParcel
      /\ parcels' = [parcels EXCEPT ![parcelCounter] = new]
      /\ UNCHANGED <<users, deliveries>>
      /\ HasUser(u)
  BY DEF CreateParcel, IInv, TypeOK, CountersInv, ParcelIds
<1>2. users[u] \in Logins /\ users[u] \in Accounts
  BY <1>1 DEF IInv, TypeOK, LoginsUnique, HasUser, Accounts
<1>3. Owner[parcelCounter] = None
  BY <1>1 DEF Owner, LoginOf, NoParcel, UserIds
<1>4. Owner' = [Owner EXCEPT ![parcelCounter] = users[u]]
  <2>1. \A p \in ParcelIds : LoginOf(parcels[p].sender)' =
          IF p = parcelCounter THEN users[u] ELSE LoginOf(parcels[p].sender)
    BY <1>1 DEF IInv, TypeOK, LoginOf
  <2> QED
    BY <1>1, <2>1 DEF Owner
<1>5. Accounts' = Accounts /\ Shipments' = Shipments
  BY <1>1 DEF Accounts, Taken, HasUser, Shipments, HasDelivery, LoginOf
<1>6. Assigned' = Assigned
  <2>1. \A p \in ParcelIds : parcels'[p].status = "assigned" <=> parcels[p].status = "assigned"
    BY <1>1 DEF IInv, TypeOK, NoParcel
  <2> QED
    BY <2>1 DEF Assigned
<1> QED
  BY <1>1, <1>2, <1>3, <1>4, <1>5, <1>6 DEF Book!HandIn

LEMMA CreateDeliveryBook ==
  ASSUME IInv, NEW t \in Threads, NEW p \in ParcelIds, NEW r \in UserIds,
         CreateDelivery(t, p, r)
  PROVE  Book!Ship(deliveryCounter, p, users[r])
           /\ deliveryCounter \in DeliveryIds /\ users[r] \in Logins
<1> DEFINE new == [parcel |-> p, receiver |-> r]
<1>1. /\ deliveryCounter \in DeliveryIds /\ deliveries[deliveryCounter] = NoDelivery
      /\ deliveries' = [deliveries EXCEPT ![deliveryCounter] = new]
      /\ parcels' = [parcels EXCEPT ![p].status = "assigned"]
      /\ HasUser(r) /\ HasParcel(p)
      /\ UNCHANGED users
  BY DEF CreateDelivery, IInv, TypeOK, CountersInv, DeliveryIds
<1>2. users[r] \in Logins /\ users[r] \in Accounts /\ LoginOf(r)' = users[r]
  BY <1>1 DEF IInv, TypeOK, LoginsUnique, HasUser, Accounts, LoginOf
<1>3. /\ parcels'[p].status = "assigned" /\ parcels'[p].sender = parcels[p].sender
      /\ \A q \in ParcelIds : q # p => parcels'[q] = parcels[q]
  BY <1>1 DEF IInv, TypeOK, HasParcel, Parcel, NoParcel
<1>4. Accounts' = Accounts
  BY <1>1 DEF Accounts, Taken, HasUser
<1>5. Owner[p] # None
  BY <1>1 DEF IInv, RefersInv, Owner, LoginOf, HasUser
<1>6. Owner' = Owner
  <2>1. \A q \in ParcelIds : LoginOf(parcels[q].sender)' = LoginOf(parcels[q].sender)
    BY <1>1, <1>3 DEF LoginOf
  <2> QED
    BY <2>1 DEF Owner
<1>7. Shipments[deliveryCounter] = Book!NoShipment
  BY <1>1 DEF Shipments, HasDelivery, Book!NoShipment, Book!Shipment
<1>8. Shipments' = [Shipments EXCEPT ![deliveryCounter] = Book!Shipment(p, users[r])]
  <2>1. \A d \in DeliveryIds : d # deliveryCounter =>
          /\ HasDelivery(d)' <=> HasDelivery(d)
          /\ deliveries'[d] = deliveries[d]
          /\ LoginOf(deliveries[d].receiver)' = LoginOf(deliveries[d].receiver)
    BY <1>1 DEF IInv, TypeOK, HasDelivery, LoginOf
  <2>2. PICK n \in DeliveryIds : n = deliveryCounter
    BY <1>1
  <2>3. Shipments'[deliveryCounter] = Book!Shipment(p, users[r])
    <3>1. new.parcel # NoDelivery.parcel
      BY DEF NoDelivery, ParcelIds
    <3>2. new # NoDelivery
      BY <3>1
    <3>3. deliveries'[n] = new
      BY <1>1, <2>2 DEF IInv, TypeOK
    <3>4. HasDelivery(n)'
      BY <3>2, <3>3 DEF HasDelivery
    <3>5. LoginOf(deliveries[n].receiver)' = users[r]
      BY <1>1, <1>2, <3>3 DEF LoginOf
    <3>6. Shipments'[n] = [parcel |-> p, receiver |-> users[r]]
      BY <3>3, <3>4, <3>5 DEF Shipments
    <3> QED
      BY <2>2, <3>6 DEF Book!Shipment
  <2>4. \A d \in DeliveryIds : d # deliveryCounter => Shipments'[d] = Shipments[d]
    BY <2>1 DEF Shipments
  <2>5. /\ Shipments = [d \in DeliveryIds |-> Shipments[d]]
        /\ Shipments' = [d \in DeliveryIds |-> Shipments'[d]]
    BY DEF Shipments
  <2> HIDE DEF new
  <2> QED
    BY <1>1, <2>3, <2>4, <2>5
<1>9. Assigned' = Assigned \cup {p}
  BY <1>3 DEF Assigned
<1> QED
  BY <1>1, <1>2, <1>4, <1>5, <1>6, <1>7, <1>8, <1>9 DEF Book!Ship

LEMMA NextBook == IInv /\ [Next]_vars => [Book!Next]_(Book!vars)
<1> SUFFICES ASSUME IInv, [Next]_vars PROVE [Book!Next]_(Book!vars)
  OBVIOUS
<1>1. CASE UNCHANGED vars
  BY <1>1, SameMaps DEF vars
<1>2. ASSUME NEW t \in Threads, NEW l \in Logins, CreateUser(t, l)
      PROVE  Book!Next
  BY <1>2, CreateUserBook DEF Book!Next
<1>3. ASSUME NEW t \in Threads, NEW u \in UserIds, CreateParcel(t, u)
      PROVE  Book!Next
  BY <1>3, CreateParcelBook DEF Book!Next
<1>4. ASSUME NEW t \in Threads, NEW p \in ParcelIds, NEW r \in UserIds, CreateDelivery(t, p, r)
      PROVE  Book!Next
  BY <1>4, CreateDeliveryBook DEF Book!Next
<1>5. ASSUME NEW t \in Threads,
             \/ ReadBack(t)
             \/ \E l \in Logins :
                  CreateUserRefused(t, l) \/ VerifyCredentials(t, l) \/ LoginRefused(t, l)
             \/ \E u \in UserIds : CreateParcelRefused(t, u)
             \/ \E p \in ParcelIds, r \in UserIds : CreateDeliveryRefused(t, p, r)
      PROVE  UNCHANGED Book!vars
  <2>1. UNCHANGED <<users, parcels, deliveries>>
    BY <1>5 DEF ReadBack, CreateUserRefused, VerifyCredentials, LoginRefused,
       CreateParcelRefused, CreateDeliveryRefused, Refuse
  <2> QED
    BY <2>1, SameMaps
<1> QED
  BY <1>1, <1>2, <1>3, <1>4, <1>5 DEF Next

\* Every behaviour of the storage is, seen through logins, one of the book.
THEOREM Refinement == Spec => ImplementsBook
  BY Invariance, InitBook, NextBook, PTL DEF Spec, Book!Spec, ImplementsBook
=============================================================================
