---------------------------- MODULE RequestsProofs ----------------------------
(***************************************************************************)
(* Proofs about Requests.  First come tables, lists of ids and pages of    *)
(* them; then what each POST handler does to the database, what each GET   *)
(* handler answers, and what is shown of a row.  The invariant says that   *)
(* rows are as their schema wants them and as they were posted, that the   *)
(* ids clients were told are of their accounts, and that the cache of lr-5 *)
(* is right; it follows action by action from the handlers' lemmas.  What  *)
(* clients see then follows from the invariant and the answers of GET.     *)
(***************************************************************************)
EXTENDS Requests, FiniteSetTheorems, SequenceTheorems, TLAPS

USE RequestsAssumption

-----------------------------------------------------------------------------
(* Tables.                                                                 *)

\* Rows have no type of their own: a table is a sequence over what is in it.
IsTable(s) == s \in Seq({s[k] : k \in DOMAIN s})

LEMMA TableLen ==
  ASSUME NEW s, IsTable(s)
  PROVE  Len(s) \in Nat /\ DOMAIN s = 1 .. Len(s)
BY LenProperties DEF IsTable

LEMMA TableEmpty == IsTable(<<>>) /\ Len(<<>>) = 0
BY EmptySeq DEF IsTable

\* A table with one row more.
LEMMA TableAppend ==
  ASSUME NEW s, IsTable(s), NEW x
  PROVE  /\ IsTable(Append(s, x))
         /\ Len(Append(s, x)) = Len(s) + 1
         /\ DOMAIN Append(s, x) = 1 .. Len(s) + 1
         /\ Append(s, x)[Len(s) + 1] = x
         /\ \A k \in 1 .. Len(s) : Append(s, x)[k] = s[k]
<1> DEFINE R == {s[k] : k \in DOMAIN s} \cup {x}
           t == Append(s, x)
<1>1. s \in Seq(R) /\ x \in R
  BY SeqMonotonic DEF IsTable
<1>2. /\ t \in Seq(R) /\ Len(t) = Len(s) + 1
      /\ t[Len(s) + 1] = x /\ \A k \in 1 .. Len(s) : t[k] = s[k]
  BY <1>1, AppendProperties
<1>3. DOMAIN t = 1 .. Len(s) + 1 /\ Len(t) \in Nat
  BY <1>2, LenProperties
<1>4. t = [k \in 1 .. Len(t) |-> t[k]]
  BY <1>2, <1>3, LenProperties
<1>5. t \in Seq({t[k] : k \in DOMAIN t})
  BY <1>2, <1>3, <1>4
<1> QED
  BY <1>2, <1>3, <1>5 DEF IsTable

\* A table with one row changed.
LEMMA TableExcept ==
  ASSUME NEW s, IsTable(s), NEW i \in DOMAIN s, NEW x
  PROVE  /\ IsTable([s EXCEPT ![i] = x])
         /\ Len([s EXCEPT ![i] = x]) = Len(s)
<1> DEFINE t == [s EXCEPT ![i] = x]
<1>1. Len(s) \in Nat /\ DOMAIN t = 1 .. Len(s)
  BY TableLen
<1>2. t = [k \in 1 .. Len(s) |-> t[k]]
  BY <1>1
<1>3. t \in Seq({t[k] : k \in DOMAIN t})
  <2> HIDE DEF t
  <2> QED
    BY <1>1, <1>2
<1>4. Len(t) = Len(s)
  BY <1>1, <1>3, LenProperties
<1> QED
  BY <1>3, <1>4 DEF IsTable

\* What TypeOK wants of a row, and that it has the fields that are changed.
ParcelRow(d, g, row) ==
  /\ {"status", "sender_id"} \subseteq DOMAIN row
  /\ row.status \in ParcelStatuses
  /\ g \in {2, 3} => row.sender_id \in DOMAIN d.users

DeliveryRow(d, g, row) ==
  /\ {"status", "parcel_id", "receiver_id"} \subseteq DOMAIN row
  /\ row.status \in DeliveryStatuses
  /\ row.parcel_id \in DOMAIN d.parcels
  /\ g \in {2, 3} => row.receiver_id \in DOMAIN d.users

\* A database of generation g whose rows are as they should be.
Good(d, g) ==
  /\ d = [users |-> d.users, parcels |-> d.parcels, deliveries |-> d.deliveries]
  /\ IsTable(d.users) /\ IsTable(d.parcels) /\ IsTable(d.deliveries)
  /\ \A k \in DOMAIN d.parcels : ParcelRow(d, g, d.parcels[k])
  /\ \A k \in DOMAIN d.deliveries : DeliveryRow(d, g, d.deliveries[k])

\* A list of features that begins with another.
Begins(s, t) ==
  {s, t} \subseteq Seq(Features) /\ Len(s) <= Len(t) /\ \A i \in 1 .. Len(s) : t[i] = s[i]

\* What a change in place may do to a row: only its status changes, features are
\* added to its features, and events to its events.
ParcelFollows(a, b) ==
  /\ DOMAIN b = DOMAIN a
  /\ \A f \in DOMAIN a \ {"status", "features"} : b[f] = a[f]
  /\ "features" \in DOMAIN a => b.features = a.features \/ Begins(a.features, b.features)

DeliveryFollows(a, b) ==
  /\ DOMAIN b = DOMAIN a
  /\ \A f \in DOMAIN a \ {"status", "delivered_at", "events"} : b[f] = a[f]
  /\ "events" \in DOMAIN a /\ IsTable(a.events) /\ a.events # <<>> =>
       IsTable(b.events) /\ b.events # <<>> /\ b.events[1] = a.events[1]

\* e is d but for rows that changed in place.
ParcelsFollow(d, e) ==
  /\ DOMAIN e.parcels = DOMAIN d.parcels
  /\ \A k \in DOMAIN d.parcels : ParcelFollows(d.parcels[k], e.parcels[k])

Follows(d, e) ==
  /\ e.users = d.users
  /\ ParcelsFollow(d, e)
  /\ DOMAIN e.deliveries = DOMAIN d.deliveries
  /\ \A k \in DOMAIN d.deliveries : DeliveryFollows(d.deliveries[k], e.deliveries[k])

LEMMA RowFollows ==
  /\ \A row : ParcelFollows(row, row) /\ DeliveryFollows(row, row)
  /\ \A a, b, c : ParcelFollows(a, b) /\ ParcelFollows(b, c) => ParcelFollows(a, c)
  /\ \A a, b, c : DeliveryFollows(a, b) /\ DeliveryFollows(b, c) => DeliveryFollows(a, c)
<1>1. \A row : ParcelFollows(row, row) /\ DeliveryFollows(row, row)
  BY DEF ParcelFollows, DeliveryFollows
<1>2. ASSUME NEW a, NEW b, NEW c, ParcelFollows(a, b), ParcelFollows(b, c)
      PROVE  ParcelFollows(a, c)
  <2>1. ASSUME Begins(a.features, b.features), Begins(b.features, c.features)
        PROVE  Begins(a.features, c.features)
    <3> DEFINE x == a.features
               y == b.features
               z == c.features
    <3> HIDE DEF x, y, z
    <3>1. Begins(x, y) /\ Begins(y, z) => Begins(x, z)
      BY LenProperties DEF Begins
    <3> QED
      BY <2>1, <3>1 DEF x, y, z
  <2>2. DOMAIN c = DOMAIN a /\ \A f \in DOMAIN a \ {"status", "features"} : c[f] = a[f]
    BY <1>2 DEF ParcelFollows
  <2>3. "features" \in DOMAIN a => c.features = a.features \/ Begins(a.features, c.features)
    BY <1>2, <2>1 DEF ParcelFollows
  <2> QED
    BY <2>2, <2>3 DEF ParcelFollows
<1>3. ASSUME NEW a, NEW b, NEW c, DeliveryFollows(a, b), DeliveryFollows(b, c)
      PROVE  DeliveryFollows(a, c)
  BY <1>3 DEF DeliveryFollows
<1> QED
  BY <1>1, <1>2, <1>3

LEMMA FollowsItself == \A d : Follows(d, d) /\ ParcelsFollow(d, d)
BY RowFollows DEF Follows, ParcelsFollow

\* What follows a database has as many rows.
LEMMA FollowsLen ==
  ASSUME NEW g, NEW d, NEW e, Good(d, g), Good(e, g), Follows(d, e)
  PROVE  Len(e.parcels) = Len(d.parcels) /\ Len(e.deliveries) = Len(d.deliveries)
<1>1. \A m, n \in Nat : 1 .. m = 1 .. n => m = n
  OBVIOUS
<1> QED
  BY <1>1, TableLen DEF Good, Follows, ParcelsFollow

LEMMA GoodShape ==
  ASSUME NEW d, NEW g, Good(d, g)
  PROVE  d = [users |-> d.users, parcels |-> d.parcels, deliveries |-> d.deliveries]
BY DEF Good

LEMMA EmptyGood == ASSUME NEW g PROVE Good(EmptyDb, g)
BY TableEmpty DEF Good, EmptyDb

\* A row for a user, a parcel or a delivery keeps the tables as they must be.
LEMMA AddUserGood ==
  ASSUME NEW d, NEW g, Good(d, g), NEW row
  PROVE  LET e == [d EXCEPT !.users = Append(@, row)]
         IN  /\ Good(e, g)
             /\ e.users = Append(d.users, row)
             /\ e.parcels = d.parcels /\ e.deliveries = d.deliveries
<1> DEFINE e == [d EXCEPT !.users = Append(@, row)]
<1>1. /\ e = [users |-> Append(d.users, row), parcels |-> d.parcels, deliveries |-> d.deliveries]
      /\ e.users = Append(d.users, row)
      /\ e.parcels = d.parcels /\ e.deliveries = d.deliveries
  BY DEF Good
<1> HIDE DEF e
<1>2. IsTable(e.users) /\ DOMAIN d.users \subseteq DOMAIN e.users
  BY <1>1, TableAppend, TableLen DEF Good
<1>3. Good(e, g)
  BY <1>1, <1>2 DEF Good, ParcelRow, DeliveryRow
<1> QED
  BY <1>1, <1>3 DEF e

LEMMA AddParcelGood ==
  ASSUME NEW d, NEW g, Good(d, g), NEW row, ParcelRow(d, g, row)
  PROVE  LET e == AddParcel(d, row)
         IN  /\ Good(e, g)
             /\ e.parcels = Append(d.parcels, row)
             /\ Len(e.parcels) = Len(d.parcels) + 1
             /\ e.users = d.users /\ e.deliveries = d.deliveries
<1> DEFINE e == AddParcel(d, row)
<1>1. /\ e = [users |-> d.users, parcels |-> Append(d.parcels, row), deliveries |-> d.deliveries]
      /\ e.parcels = Append(d.parcels, row)
      /\ e.users = d.users /\ e.deliveries = d.deliveries
  BY GoodShape DEF AddParcel
<1> HIDE DEF e
<1>2. /\ IsTable(e.parcels) /\ Len(e.parcels) = Len(d.parcels) + 1
      /\ DOMAIN e.parcels = 1 .. Len(d.parcels) + 1
      /\ DOMAIN d.parcels = 1 .. Len(d.parcels) /\ Len(d.parcels) \in Nat
      /\ e.parcels[Len(d.parcels) + 1] = row
      /\ \A k \in 1 .. Len(d.parcels) : e.parcels[k] = d.parcels[k]
  BY <1>1, TableAppend, TableLen DEF Good
<1>3. \A k \in DOMAIN e.parcels : ParcelRow(e, g, e.parcels[k])
  BY <1>1, <1>2 DEF Good, ParcelRow
<1>4. \A k \in DOMAIN e.deliveries : DeliveryRow(e, g, e.deliveries[k])
  BY <1>1, <1>2 DEF Good, DeliveryRow
<1>5. Good(e, g)
  BY <1>1, <1>2, <1>3, <1>4 DEF Good
<1> QED
  BY <1>1, <1>2, <1>5 DEF e

LEMMA AddDeliveryGood ==
  ASSUME NEW d, NEW g, Good(d, g), NEW row, DeliveryRow(d, g, row)
  PROVE  LET e == AddDelivery(d, row)
         IN  /\ Good(e, g)
             /\ e.deliveries = Append(d.deliveries, row)
             /\ Len(e.deliveries) = Len(d.deliveries) + 1
             /\ e.users = d.users /\ e.parcels = d.parcels
<1> DEFINE e == AddDelivery(d, row)
<1>1. /\ e = [users |-> d.users, parcels |-> d.parcels, deliveries |-> Append(d.deliveries, row)]
      /\ e.deliveries = Append(d.deliveries, row)
      /\ e.users = d.users /\ e.parcels = d.parcels
  BY GoodShape DEF AddDelivery
<1> HIDE DEF e
<1>2. /\ IsTable(e.deliveries) /\ Len(e.deliveries) = Len(d.deliveries) + 1
      /\ DOMAIN e.deliveries = 1 .. Len(d.deliveries) + 1
      /\ DOMAIN d.deliveries = 1 .. Len(d.deliveries) /\ Len(d.deliveries) \in Nat
      /\ e.deliveries[Len(d.deliveries) + 1] = row
      /\ \A k \in 1 .. Len(d.deliveries) : e.deliveries[k] = d.deliveries[k]
  BY <1>1, TableAppend, TableLen DEF Good
<1>3. \A k \in DOMAIN e.parcels : ParcelRow(e, g, e.parcels[k])
  BY <1>1 DEF Good, ParcelRow
<1>4. \A k \in DOMAIN e.deliveries : DeliveryRow(e, g, e.deliveries[k])
  BY <1>1, <1>2 DEF Good, DeliveryRow
<1>5. Good(e, g)
  BY <1>1, <1>2, <1>3, <1>4 DEF Good
<1> QED
  BY <1>1, <1>2, <1>5 DEF e

\* So does a row that is changed into one that follows it.
LEMMA ChangeParcelGood ==
  ASSUME NEW d, NEW g, Good(d, g), NEW id \in DOMAIN d.parcels,
         NEW row, ParcelRow(d, g, row), ParcelFollows(d.parcels[id], row)
  PROVE  LET e == [d EXCEPT !.parcels[id] = row]
         IN  Good(e, g) /\ Follows(d, e)
<1> DEFINE e == [d EXCEPT !.parcels[id] = row]
           table == [d.parcels EXCEPT ![id] = row]
<1>1. /\ e = [users |-> d.users, parcels |-> table, deliveries |-> d.deliveries]
      /\ e.parcels = table
      /\ e.users = d.users /\ e.deliveries = d.deliveries
  BY DEF Good
<1>2. /\ IsTable(table) /\ Len(table) = Len(d.parcels)
      /\ DOMAIN table = DOMAIN d.parcels
      /\ table[id] = row
      /\ \A k \in DOMAIN table : k # id => table[k] = d.parcels[k]
  BY TableExcept DEF Good
<1> HIDE DEF e, table
<1>3. \A k \in DOMAIN e.parcels : ParcelRow(e, g, e.parcels[k])
  BY <1>1, <1>2 DEF Good, ParcelRow
<1>4. \A k \in DOMAIN e.deliveries : DeliveryRow(e, g, e.deliveries[k])
  BY <1>1, <1>2 DEF Good, DeliveryRow
<1>5. Good(e, g)
  BY <1>1, <1>2, <1>3, <1>4 DEF Good
<1>6. Follows(d, e)
  BY <1>1, <1>2, RowFollows DEF Follows, ParcelsFollow
<1> QED
  BY <1>5, <1>6 DEF e

LEMMA ChangeDeliveryGood ==
  ASSUME NEW d, NEW g, Good(d, g), NEW id \in DOMAIN d.deliveries,
         NEW row, DeliveryRow(d, g, row), DeliveryFollows(d.deliveries[id], row)
  PROVE  LET e == [d EXCEPT !.deliveries[id] = row]
         IN  Good(e, g) /\ Follows(d, e)
<1> DEFINE e == [d EXCEPT !.deliveries[id] = row]
           table == [d.deliveries EXCEPT ![id] = row]
<1>1. /\ e = [users |-> d.users, parcels |-> d.parcels, deliveries |-> table]
      /\ e.deliveries = table
      /\ e.users = d.users /\ e.parcels = d.parcels
  BY DEF Good
<1>2. /\ IsTable(table) /\ Len(table) = Len(d.deliveries)
      /\ DOMAIN table = DOMAIN d.deliveries
      /\ table[id] = row
      /\ \A k \in DOMAIN table : k # id => table[k] = d.deliveries[k]
  BY TableExcept DEF Good
<1> HIDE DEF e, table
<1>3. \A k \in DOMAIN e.parcels : ParcelRow(e, g, e.parcels[k])
  BY <1>1, <1>2 DEF Good, ParcelRow
<1>4. \A k \in DOMAIN e.deliveries : DeliveryRow(e, g, e.deliveries[k])
  BY <1>1, <1>2 DEF Good, DeliveryRow
<1>5. Good(e, g)
  BY <1>1, <1>2, <1>3, <1>4 DEF Good
<1>6. Follows(d, e)
  BY <1>1, <1>2, RowFollows DEF Follows, ParcelsFollow
<1> QED
  BY <1>5, <1>6 DEF e

\* The operations of the storages on a row.
LEMMA SetParcelStatusGood ==
  ASSUME NEW d, NEW g, Good(d, g), NEW id, NEW status \in ParcelStatuses
  PROVE  LET e == SetParcelStatus(d, id, status)
         IN  Good(e, g) /\ Follows(d, e)
<1>1. CASE id \notin DOMAIN d.parcels
  BY <1>1, FollowsItself DEF SetParcelStatus
<1>2. CASE id \in DOMAIN d.parcels
  <2> DEFINE row == [d.parcels[id] EXCEPT !.status = status]
  <2>1. ParcelRow(d, g, row) /\ ParcelFollows(d.parcels[id], row)
    BY <1>2 DEF Good, ParcelRow, ParcelFollows
  <2>2. SetParcelStatus(d, id, status) = [d EXCEPT !.parcels[id] = row]
    BY <1>2 DEF SetParcelStatus
  <2> QED
    BY <1>2, <2>1, <2>2, ChangeParcelGood
<1> QED
  BY <1>1, <1>2

\* Of a parcel whose features are a list, if it has any.
LEMMA AddFeatureGood ==
  ASSUME NEW d, NEW g, Good(d, g), NEW id \in DOMAIN d.parcels, NEW feature \in Features,
         d.parcels[id].features \in Seq(Features)
  PROVE  LET e == AddFeatureToParcel4(d, id, feature)
         IN  Good(e, g) /\ Follows(d, e)
<1> DEFINE old == d.parcels[id]
           row == [old EXCEPT !.features = Append(@, feature)]
<1>1. ParcelRow(d, g, row)
  BY DEF Good, ParcelRow
<1>2. \/ AddFeatureToParcel4(d, id, feature) = d
      \/ AddFeatureToParcel4(d, id, feature) = [d EXCEPT !.parcels[id] = row]
  BY DEF AddFeatureToParcel4
<1>3. Begins(old.features, Append(old.features, feature))
  <2> DEFINE list == old.features
  <2> HIDE DEF list
  <2>1. list \in Seq(Features) => Begins(list, Append(list, feature))
    BY AppendProperties, LenProperties DEF Begins
  <2> QED
    BY <2>1 DEF list
<1>4. ParcelFollows(old, row)
  <2> HIDE DEF old
  <2> QED
    BY <1>3 DEF ParcelFollows
<1> HIDE DEF row
<1>5. LET e == [d EXCEPT !.parcels[id] = row] IN Good(e, g) /\ Follows(d, e)
  BY <1>1, <1>4, ChangeParcelGood
<1> QED
  BY <1>2, <1>5, FollowsItself

\* The operations that nothing calls change rows into ones that follow them.
LEMMA SetStatusGood ==
  ASSUME NEW d, NEW g, Good(d, g), NEW id \in DOMAIN d.deliveries,
         NEW status \in DeliveryStatuses
  PROVE  LET e == UpdateDeliveryStatus2(d, id, status)
         IN  Good(e, g) /\ Follows(d, e)
<1> DEFINE row == SetStatus(d.deliveries[id], status)
<1>1. DeliveryRow(d, g, row) /\ DeliveryFollows(d.deliveries[id], row)
  BY DEF Good, DeliveryRow, DeliveryFollows, SetStatus
<1>2. UpdateDeliveryStatus2(d, id, status) = [d EXCEPT !.deliveries[id] = row]
  BY DEF UpdateDeliveryStatus2
<1> QED
  BY <1>1, <1>2, ChangeDeliveryGood

LEMMA AddEventGood ==
  ASSUME NEW d, NEW g, Good(d, g), NEW id \in DOMAIN d.deliveries,
         NEW status, NEW location, NEW comment
  PROVE  LET e == AddDeliveryEvent4(d, id, status, location, comment)
         IN  Good(e, g) /\ Follows(d, e)
<1> DEFINE old == d.deliveries[id]
           event == Event(status, location, comment)
           row == [old EXCEPT !.events = Append(@, event)]
<1>1. DeliveryRow(d, g, row)
  BY DEF Good, DeliveryRow
<1>2. AddDeliveryEvent4(d, id, status, location, comment) = [d EXCEPT !.deliveries[id] = row]
  BY DEF AddDeliveryEvent4
<1> HIDE DEF event
<1>3. ASSUME IsTable(old.events), old.events # <<>>
      PROVE  /\ IsTable(Append(old.events, event)) /\ Append(old.events, event) # <<>>
             /\ Append(old.events, event)[1] = old.events[1]
  <2> DEFINE list == old.events
  <2> HIDE DEF list
  <2>1. ASSUME IsTable(list), list # <<>>
        PROVE  IsTable(Append(list, event)) /\ Append(list, event) # <<>>
               /\ Append(list, event)[1] = list[1]
    <3>1. Len(list) \in Nat /\ Len(list) # 0
      BY <2>1, TableLen, EmptySeq DEF IsTable
    <3> QED
      BY <2>1, <3>1, TableAppend, TableEmpty
  <2> QED
    BY <1>3, <2>1 DEF list
<1>4. DeliveryFollows(old, row)
  <2> HIDE DEF old
  <2> QED
    BY <1>3 DEF DeliveryFollows
<1> HIDE DEF row
<1> QED
  BY <1>1, <1>2, <1>4, ChangeDeliveryGood

LEMMA UpdateParcelStatusGood ==
  ASSUME NEW g \in 2 .. 6, NEW d, Good(d, g), NEW id, NEW status \in ParcelStatuses
  PROVE  LET e == UpdateParcelStatus(g, d, id, status)
         IN  Good(e, g) /\ Follows(d, e)
<1>1. UpdateParcelStatus(g, d, id, status) = SetParcelStatus(d, id, status)
  BY DEF UpdateParcelStatus, UpdateParcelStatus2, UpdateParcelStatus3,
         UpdateParcelStatus4, UpdateParcelStatus6
<1> QED
  BY <1>1, SetParcelStatusGood

LEMMA FollowsTransitive ==
  ASSUME NEW a, NEW b, NEW c, Follows(a, b), Follows(b, c)
  PROVE  Follows(a, c)
<1>1. ParcelsFollow(a, c)
  BY RowFollows DEF Follows, ParcelsFollow
<1> QED
  BY <1>1, RowFollows DEF Follows

\* With events and without.
LEMMA UpdateDeliveryStatusGood ==
  ASSUME NEW g \in {2, 3, 4, 6}, NEW d, Good(d, g), NEW id \in DOMAIN d.deliveries,
         NEW status \in DeliveryStatuses
  PROVE  LET e == UpdateDeliveryStatus(g, d, id, status)
         IN  Good(e, g) /\ Follows(d, e)
<1> DEFINE set == UpdateDeliveryStatus2(d, id, status)
           pushed == AddDeliveryEvent4(set, id, status, "depot", "scanned")
<1>1. Good(set, g) /\ Follows(d, set)
  BY SetStatusGood
<1>2. CASE g \in {2, 3}
  BY <1>1, <1>2 DEF UpdateDeliveryStatus, UpdateDeliveryStatus3
<1>3. CASE g \in {4, 6}
  <2>1. id \in DOMAIN set.deliveries
    <3> HIDE DEF set
    <3> QED
      BY <1>1, TableLen DEF Good, Follows
  <2>2. Good(pushed, g) /\ Follows(set, pushed)
    <3> HIDE DEF set
    <3> QED
      BY <1>1, <2>1, AddEventGood
  <2>3. Follows(d, pushed)
    BY <1>1, <2>2, FollowsTransitive
  <2>4. \/ UpdateDeliveryStatus(g, d, id, status) = pushed
        \/ \E parcel : \E new \in {"delivered", "created"} :
             UpdateDeliveryStatus(g, d, id, status) = SetParcelStatus(pushed, parcel, new)
    <3>1. UpdateDeliveryStatus(g, d, id, status) =
            UpdateDeliveryStatus4(d, id, status, "depot", "scanned")
      BY <1>3 DEF UpdateDeliveryStatus, UpdateDeliveryStatus6
    <3>2. CASE status \notin {"delivered", "cancelled"}
      BY <3>1, <3>2 DEF UpdateDeliveryStatus4
    <3>3. CASE status \in {"delivered", "cancelled"}
      <4> DEFINE new == IF status = "delivered" THEN "delivered" ELSE "created"
      <4>1. UpdateDeliveryStatus(g, d, id, status) =
              SetParcelStatus(pushed, d.deliveries[id].parcel_id, new)
        BY <3>1, <3>3 DEF UpdateDeliveryStatus4, UpdateParcelStatus4
      <4> QED
        BY <4>1
    <3> QED
      BY <3>2, <3>3
  <2> HIDE DEF pushed
  <2> QED
    BY <2>2, <2>3, <2>4, SetParcelStatusGood, FollowsTransitive DEF ParcelStatuses
<1> QED
  BY <1>2, <1>3

-----------------------------------------------------------------------------
(* Lists of ids.                                                           *)

\* A set of numbers has a least one: what induction over them rests on.
LEMMA LeastNumber ==
  ASSUME NEW T, T \subseteq Nat, T # {}
  PROVE  \E x \in T : \A y \in T : x <= y
<1>1. PICK x \in T : \A y \in T : ~(<<y, x>> \in OpToRel(<, Nat))
  BY NatLessThanWellFounded, WFMin, Zenon
<1>2. ASSUME NEW y \in T PROVE x <= y
  <2>1. ~(<<y, x>> \in OpToRel(<, Nat))
    BY <1>1
  <2>2. x \in Nat /\ y \in Nat /\ <<y, x>> \in Nat \X Nat
    OBVIOUS
  <2>3. ~(<<y, x>>[1] < <<y, x>>[2])
    BY <2>1, <2>2, Zenon DEF OpToRel
  <2> QED
    BY <2>2, <2>3
<1> QED
  BY <1>2

\* A list of the elements of S, each once, the least first.
IsAscending(S, s) == s \in SetToSeqs(S) /\ \A i, j \in DOMAIN s : i < j => s[i] < s[j]

\* A list stays ascending with a lesser number in front.
LEMMA AscendingGrows ==
  ASSUME NEW T, T \subseteq Nat, IsFiniteSet(T), NEW x \in T, \A y \in T : x <= y,
         NEW g, IsAscending(T \ {x}, g)
  PROVE  \E f : IsAscending(T, f)
<1> DEFINE R == T \ {x}
           n == Cardinality(T)
<1>1. /\ Cardinality(R) = n - 1 /\ n \in Nat \ {0}
  <2>1. Cardinality(R) = n - 1 /\ n # 0
    BY FS_RemoveElement, FS_EmptySet, Zenon
  <2> QED
    BY <2>1, FS_CardinalityType
<1>2. /\ g \in [1 .. n - 1 -> R]
      /\ \A i, j \in 1 .. n - 1 : i # j => g[i] # g[j]
      /\ \A i, j \in 1 .. n - 1 : i < j => g[i] < g[j]
  <2>1. g \in [1 .. n - 1 -> R] /\ \A i, j \in 1 .. n - 1 : i # j => g[i] # g[j]
    BY <1>1 DEF SetToSeqs, IsAscending
  <2> QED
    BY <2>1 DEF IsAscending
<1> DEFINE f == [i \in 1 .. n |-> IF i = 1 THEN x ELSE g[i - 1]]
<1> HIDE DEF n
<1>3. \A i \in 1 .. n : i # 1 => i - 1 \in 1 .. n - 1 /\ f[i] = g[i - 1] /\ f[i] \in R
  BY <1>1, <1>2
<1>4. f[1] = x /\ x \notin R /\ f \in [1 .. n -> T] /\ \A y \in R : x < y
  BY <1>1, <1>3
<1>5. \A i, j \in 1 .. n : i < j => f[i] < f[j]
  <2> SUFFICES ASSUME NEW i \in 1 .. n, NEW j \in 1 .. n, i < j PROVE f[i] < f[j]
    OBVIOUS
  <2>1. CASE i = 1
    <3>1. j # 1 /\ f[j] \in R
      BY <1>1, <1>3, <2>1
    <3> HIDE DEF f
    <3> QED
      BY <1>4, <2>1, <3>1
  <2>2. CASE i # 1
    <3>1. j # 1 /\ i - 1 < j - 1 /\ i - 1 \in 1 .. n - 1 /\ j - 1 \in 1 .. n - 1
      BY <1>1, <2>2
    <3> HIDE DEF f
    <3> QED
      BY <1>2, <1>3, <2>2, <3>1
  <2> QED
    BY <2>1, <2>2
<1>6. \A i, j \in 1 .. n : i # j => f[i] # f[j]
  <2> SUFFICES ASSUME NEW i \in 1 .. n, NEW j \in 1 .. n, i # j PROVE f[i] # f[j]
    OBVIOUS
  <2>1. i < j \/ j < i
    BY <1>1
  <2> HIDE DEF f
  <2>2. f[i] \in Nat /\ f[j] \in Nat
    BY <1>4
  <2>3. f[i] < f[j] \/ f[j] < f[i]
    BY <1>5, <2>1
  <2> QED
    BY <2>2, <2>3
<1>7. f \in SetToSeqs(T) /\ DOMAIN f = 1 .. n
  <2> HIDE DEF f
  <2> QED
    BY <1>4, <1>6 DEF SetToSeqs, n
<1> HIDE DEF f
<1> QED
  BY <1>5, <1>7 DEF IsAscending

\* The list that Ascending chooses is there, for a finite set of numbers.
LEMMA AscendingExists ==
  ASSUME NEW S, S \subseteq Nat, IsFiniteSet(S)
  PROVE  IsAscending(S, Ascending(S))
<1> DEFINE Bad == {n \in Nat : \E T \in SUBSET S : Cardinality(T) = n /\ \A f : ~IsAscending(T, f)}
<1>1. Bad = {}
  <2> SUFFICES ASSUME Bad # {} PROVE FALSE
    OBVIOUS
  <2>1. PICK n \in Bad : \A m \in Bad : n <= m
    <3>1. Bad \subseteq Nat
      OBVIOUS
    <3> HIDE DEF Bad
    <3> QED
      BY <3>1, LeastNumber
  <2>2. PICK T \in SUBSET S : Cardinality(T) = n /\ \A f : ~IsAscending(T, f)
    OBVIOUS
  <2>3. IsFiniteSet(T) /\ n \in Nat
    BY FS_Subset
  <2>4. CASE T = {}
    <3>1. n = 0
      BY <2>2, <2>4, FS_EmptySet
    <3>2. <<>> \in SetToSeqs(T) /\ DOMAIN <<>> = {}
      <4>1. 1 .. Cardinality(T) = {}
        BY <2>2, <3>1
      <4>2. SetToSeqs(T) = {f \in [{} -> T] : \A i, j \in {} : i # j => f[i] # f[j]}
        BY <4>1 DEF SetToSeqs
      <4>3. <<>> \in [{} -> T]
        OBVIOUS
      <4> QED
        BY <4>2, <4>3
    <3> QED
      BY <2>2, <3>2 DEF IsAscending
  <2>5. CASE T # {}
    <3>1. PICK x \in T : \A y \in T : x <= y
      BY <2>5, LeastNumber
    <3>2. T \ {x} \in SUBSET S /\ Cardinality(T \ {x}) = n - 1 /\ n # 0
      <4>1. Cardinality(T \ {x}) = Cardinality(T) - 1 /\ Cardinality(T) # 0
        BY <2>3, FS_RemoveElement, FS_EmptySet, Zenon
      <4> QED
        BY <2>2, <4>1
    <3>3. PICK g : IsAscending(T \ {x}, g)
      <4>1. n - 1 \in Nat /\ ~(n <= n - 1)
        BY <2>3, <3>2
      <4>2. n - 1 \notin Bad
        BY <2>1, <4>1
      <4> QED
        BY <3>2, <4>1, <4>2
    <3> QED
      BY <2>2, <2>3, <3>1, <3>3, AscendingGrows
  <2> QED
    BY <2>4, <2>5
<1>2. Cardinality(S) \in Nat
  BY FS_CardinalityType
<1>3. \E f : IsAscending(S, f)
  BY <1>1, <1>2
<1> QED
  BY <1>3 DEF IsAscending, Ascending

\* What there is to know of such a list.
Lists(S, s) ==
  /\ s \in Seq(S) /\ Len(s) = Cardinality(S) /\ Cardinality(S) \in Nat /\ DOMAIN s = 1 .. Len(s)
  /\ \A i \in 1 .. Len(s) : s[i] \in S
  /\ \A i, j \in 1 .. Len(s) : s[i] = s[j] => i = j
  /\ \A x \in S : \E i \in 1 .. Len(s) : s[i] = x

\* Ascending, and its reverse, list each id of a set once.
LEMMA AscendingLists ==
  ASSUME NEW n \in Nat, NEW S \in SUBSET (1 .. n)
  PROVE  Lists(S, Ascending(S))
<1> DEFINE c == Cardinality(S)
           list == Ascending(S)
<1>1. IsFiniteSet(S) /\ c \in Nat
  <2>1. IsFiniteSet(1 .. n)
    BY FS_Interval
  <2>2. IsFiniteSet(S)
    BY <2>1, FS_Subset, Zenon
  <2> QED
    BY <2>2, FS_CardinalityType
<1>2. list \in [1 .. c -> S] /\ \A i, j \in 1 .. c : i # j => list[i] # list[j]
  <2>1. S \subseteq Nat
    OBVIOUS
  <2>2. IsAscending(S, list)
    BY <1>1, <2>1, AscendingExists, Zenon
  <2> HIDE DEF list
  <2> QED
    BY <2>2 DEF IsAscending, SetToSeqs
<1> HIDE DEF c, list
<1>3. list \in Seq(S) /\ Len(list) = c /\ DOMAIN list = 1 .. c
  <2>1. list = [i \in 1 .. c |-> list[i]] /\ \A i \in 1 .. c : list[i] \in S
    BY <1>2
  <2>2. list \in Seq(S)
    BY <1>1, <2>1
  <2>3. DOMAIN list = 1 .. c /\ DOMAIN list = 1 .. Len(list) /\ Len(list) \in Nat
    BY <1>2, <2>2, LenProperties
  <2> QED
    BY <1>1, <2>2, <2>3
<1>4. ASSUME NEW x \in S PROVE \E i \in 1 .. c : list[i] = x
  <2>1. list \in Injection(1 .. c, S)
    BY <1>2, Zenon DEF Injection, IsInjective
  <2>2. Cardinality(1 .. c) = Cardinality(S)
    BY <1>1, FS_Interval DEF c
  <2>3. list \in Surjection(1 .. c, S)
    BY <1>1, <2>1, <2>2, FS_Injection, FS_Interval, Zenon
  <2> QED
    BY <2>3, Zenon DEF Surjection
<1>5. Lists(S, list)
  BY <1>1, <1>2, <1>3, <1>4 DEF Lists, c
<1> QED
  BY <1>5 DEF list

\* Of one element, and of none.
LEMMA AscendingOne ==
  ASSUME NEW k \in Nat \ {0}
  PROVE  Ascending({k}) = <<k>>
<1> DEFINE list == Ascending({k})
<1>1. Lists({k}, list) /\ Cardinality({k}) = 1
  <2>1. {k} \in SUBSET (1 .. k)
    OBVIOUS
  <2> HIDE DEF list
  <2>2. Lists({k}, list)
    BY <2>1, AscendingLists DEF list
  <2> QED
    BY <2>2, FS_Singleton
<1> HIDE DEF list
<1>2. Len(list) = 1 /\ list[1] = k /\ list \in Seq({k})
  BY <1>1 DEF Lists
<1>3. list = <<k>>
  BY <1>2
<1> QED
  BY <1>3 DEF list

LEMMA AscendingNone == Ascending({}) = <<>>
<1> DEFINE list == Ascending({})
<1>1. Lists({}, list) /\ Cardinality({}) = 0
  BY AscendingLists, FS_EmptySet
<1> HIDE DEF list
<1>2. list = <<>>
  BY <1>1, EmptySeq DEF Lists
<1> QED
  BY <1>2 DEF list

-----------------------------------------------------------------------------
(* Pages.                                                                  *)

\* The ids in the order in which a generation lists them.
Ordered(g, e, ids) ==
  IF g = 2 THEN ids ELSE IF g = 3 THEN Reverse(ids) ELSE InPlan(e, ids)

PageOf(g, e, found, q) ==
  IF g = 2 THEN Ascending(found) ELSE Window(Ordered(g, e, Ascending(found)), q)

\* The bounds of a page, as a client has to ask for one.
Bounded(q) ==
  /\ {"from", "to"} \subseteq DOMAIN q
  /\ q.from \in Nat \ {0} /\ q.to \in Nat

\* Bounds that a client gives are those it gets, and valid if they are in order.
LEMMA BoundsAreValid ==
  ASSUME NEW q, Bounded(q)
  PROVE  /\ RequiredBounds(q) = [from |-> q.from, to |-> q.to]
         /\ DefaultBounds(q) = [from |-> q.from, to |-> q.to]
         /\ ValidBounds([from |-> q.from, to |-> q.to]) <=> q.from <= q.to
         /\ \A ids : Window(ids, [from |-> q.from, to |-> q.to]) = Window(ids, q)
<1>1. Junk \notin Nat
  BY ValuesAssumption
<1> QED
  BY <1>1 DEF Bounded, RequiredBounds, DefaultBounds, Arg, ValidBounds, Window

LEMMA NumberIsNotJunk == \A n \in Nat : n # Junk /\ n # Nothing /\ n # Null
BY ValuesAssumption

LEMMA ReverseLists ==
  ASSUME NEW S, NEW s, Lists(S, s)
  PROVE  Lists(S, Reverse(s))
<1> DEFINE n == Len(s)
           r == Reverse(s)
<1>1. n \in Nat /\ r = [i \in 1 .. n |-> s[(n - i) + 1]]
  BY LenProperties DEF Lists, Reverse
<1>2. \A i \in 1 .. n : (n - i) + 1 \in 1 .. n
  BY <1>1
<1> HIDE DEF r
<1>3. r \in [1 .. n -> S]
  BY <1>1, <1>2 DEF Lists
<1>4. r \in Seq(S) /\ Len(r) = n /\ DOMAIN r = 1 .. n
  BY <1>1, <1>3, IsASeq, LenProperties
<1>5. \A i, j \in 1 .. n : r[i] = r[j] => i = j
  <2>1. \A i, j \in 1 .. n : (n - i) + 1 = (n - j) + 1 => i = j
    BY <1>1
  <2> QED
    BY <1>1, <1>2, <2>1 DEF Lists
<1>6. ASSUME NEW x \in S PROVE \E i \in 1 .. n : r[i] = x
  <2>1. PICK j \in 1 .. n : s[j] = x
    BY DEF Lists
  <2>2. (n - j) + 1 \in 1 .. n /\ (n - ((n - j) + 1)) + 1 = j
    BY <1>1
  <2>3. r[(n - j) + 1] = x
    BY <1>1, <2>1, <2>2
  <2> QED
    BY <2>2, <2>3
<1>7. n = Cardinality(S) /\ Cardinality(S) \in Nat
  BY DEF Lists
<1>8. Lists(S, r)
  BY <1>3, <1>4, <1>5, <1>6, <1>7 DEF Lists
<1> QED
  BY <1>8 DEF r

\* A page is what lies between its bounds and the end of the list.
LEMMA WindowOf ==
  ASSUME NEW S, NEW s \in Seq(S), NEW q, Bounded(q)
  PROVE  LET m == IF q.to < Len(s) THEN q.to ELSE Len(s)
         IN  /\ DOMAIN Window(s, q) = 1 .. (m - q.from) + 1
             /\ \A i \in DOMAIN Window(s, q) :
                  /\ Window(s, q)[i] = s[(q.from + i) - 1]
                  /\ (q.from + i) - 1 \in 1 .. m
<1> DEFINE m == IF q.to < Len(s) THEN q.to ELSE Len(s)
           w == SubSeq(s, q.from, m)
<1>1. q.from \in Nat \ {0} /\ q.to \in Nat /\ Len(s) \in Nat /\ m \in Nat
  BY LenProperties DEF Bounded
<1>2. \A i \in q.from .. m : s[i] \in S
  BY <1>1, LenProperties
<1> HIDE DEF m, w
<1>3. /\ w \in Seq(S)
      /\ Len(w) = IF q.from <= m THEN m - q.from + 1 ELSE 0
      /\ \A i \in 1 .. m - q.from + 1 : w[i] = s[q.from + i - 1]
  BY <1>1, <1>2, SubSeqProperties DEF w
<1>4. DOMAIN w = 1 .. (m - q.from) + 1
  BY <1>1, <1>3, LenProperties
<1>5. \A i \in DOMAIN w : w[i] = s[(q.from + i) - 1] /\ (q.from + i) - 1 \in 1 .. m
  <2> SUFFICES ASSUME NEW i \in DOMAIN w
               PROVE  w[i] = s[(q.from + i) - 1] /\ (q.from + i) - 1 \in 1 .. m
    OBVIOUS
  <2>1. i \in Nat \ {0} /\ i <= (m - q.from) + 1 /\ i \in 1 .. m - q.from + 1
    BY <1>1, <1>4
  <2>2. w[i] = s[q.from + (i - 1)] /\ q.from + (i - 1) = (q.from + i) - 1
    BY <1>1, <1>3, <2>1
  <2>3. (q.from + i) - 1 \in 1 .. m
    BY <1>1, <2>1
  <2> QED
    BY <2>2, <2>3
<1>6. Window(s, q) = w
  BY DEF Window, w, m
<1> QED
  BY <1>4, <1>5, <1>6 DEF m

\* What the page of a search is: of the list of the ids of a table.
LEMMA PageIs ==
  ASSUME NEW g, NEW e, NEW n \in Nat, NEW S \in SUBSET (1 .. n), NEW q, Bounded(q)
  PROVE  LET ids == Ordered(g, e, Ascending(S))
         IN  /\ Lists(S, ids)
             /\ PageOf(g, e, S, q) = IF g = 2 THEN ids ELSE Window(ids, q)
<1> DEFINE all == Ascending(S)
           ids == Ordered(g, e, all)
<1>1. Lists(S, all)
  BY AscendingLists
<1> HIDE DEF all
<1>2. Lists(S, ids)
  BY <1>1, ReverseLists DEF Ordered, InPlan
<1>3. PageOf(g, e, S, q) = IF g = 2 THEN ids ELSE Window(ids, q)
  BY DEF PageOf, Ordered, all
<1> QED
  BY <1>2, <1>3 DEF all

\* A page shows ids that match.
LEMMA PageWithin ==
  ASSUME NEW g, NEW e, NEW n \in Nat, NEW S \in SUBSET (1 .. n), NEW q, Bounded(q)
  PROVE  \A i \in DOMAIN PageOf(g, e, S, q) : PageOf(g, e, S, q)[i] \in S
<1> DEFINE ids == Ordered(g, e, Ascending(S))
           page == PageOf(g, e, S, q)
<1>1. Lists(S, ids) /\ PageOf(g, e, S, q) = IF g = 2 THEN ids ELSE Window(ids, q)
  BY PageIs
<1> HIDE DEF ids, page
<1>2. CASE g = 2
  <2>1. page = ids
    BY <1>1, <1>2 DEF page
  <2>2. \A i \in DOMAIN page : page[i] \in S
    BY <1>1, <2>1 DEF Lists
  <2> QED
    BY <2>2 DEF page
<1>3. CASE g # 2
  <2>1. page = Window(ids, q)
    BY <1>1, <1>3 DEF page
  <2>2. ids \in Seq(S) /\ Len(ids) \in Nat /\ \A i \in 1 .. Len(ids) : ids[i] \in S
    BY <1>1 DEF Lists
  <2>3. \A i \in DOMAIN page : page[i] = ids[(q.from + i) - 1] /\ (q.from + i) - 1 \in 1 .. Len(ids)
    <3> DEFINE m == IF q.to < Len(ids) THEN q.to ELSE Len(ids)
    <3>1. \A i \in DOMAIN page : page[i] = ids[(q.from + i) - 1] /\ (q.from + i) - 1 \in 1 .. m
      BY <2>1, <2>2, WindowOf
    <3>2. 1 .. m \subseteq 1 .. Len(ids)
      BY <2>2 DEF Bounded
    <3> HIDE DEF m
    <3> QED
      BY <3>1, <3>2
  <2>4. \A i \in DOMAIN page : page[i] \in S
    BY <2>2, <2>3
  <2> QED
    BY <2>4 DEF page
<1> QED
  BY <1>2, <1>3

-----------------------------------------------------------------------------
(* What POST does.                                                         *)

\* The description that is stored: PostgreSQL has NULL for none, MongoDB "".
KeptDescription(g, json) ==
  IF "description" \in DOMAIN json THEN json.description
  ELSE IF g \in {2, 3} THEN Nothing ELSE Empty

\* A row that was made from a body and changed in place since.
ParcelKept(g, json, row) ==
  /\ {"sender_id", "size"} \subseteq DOMAIN json
  /\ DOMAIN row = {"sender_id", "size", "description", "status"}
                  \cup (IF g = 4 THEN {"features"} ELSE {})
  /\ row.sender_id = json.sender_id /\ row.size = json.size
  /\ row.description = KeptDescription(g, json)
  /\ g = 4 => /\ "features" \in DOMAIN json /\ json.features # <<>>
              /\ Begins(json.features, row.features)

\* A row keeps what was posted when its status or its features follow.
LEMMA ParcelStaysKept ==
  ASSUME NEW g, NEW json, NEW a, NEW b, ParcelKept(g, json, a), ParcelFollows(a, b)
  PROVE  ParcelKept(g, json, b)
<1> DEFINE x == json.features
           y == a.features
           z == b.features
<1>1. g = 4 => Begins(x, y) /\ (z = y \/ Begins(y, z))
  BY DEF ParcelKept, ParcelFollows
<1>2. g = 4 => Begins(x, z)
  <2> HIDE DEF x, y, z
  <2> QED
    BY <1>1, LenProperties DEF Begins
<1>3. /\ DOMAIN b = DOMAIN a
      /\ b.sender_id = a.sender_id /\ b.size = a.size /\ b.description = a.description
  BY DEF ParcelKept, ParcelFollows
<1> QED
  BY <1>2, <1>3 DEF ParcelKept

\* What is shown of row k.
ShownParcel(g, k, row) ==
  CASE g \in {2, 3} -> SerializeParcelResponse2(With(row, "id", k))
    [] g = 4 -> SerializeParcelResponse4(MapBsonToParcel4(k, row))
    [] g \in {5, 6} -> SerializeParcelResponse6(MapBsonToParcel6(k, row))

\* A request for a parcel makes one or none; it is answered 201, with what was
\* made, if it made one and both its answers came.
ParcelOutcome(g, json, d, o, fault) ==
  /\ Good(o.db, g)
  /\ o.db.users = d.users /\ o.db.deliveries = d.deliveries
  /\ \/ o.db.parcels = d.parcels /\ o.result.status # 201
     \/ /\ \E row : /\ ParcelKept(g, json, row)
                    /\ o.db.parcels = Append(d.parcels, row)
                    /\ o.result.status = 201 =>
                         o.result.shown = ShownParcel(g, Len(d.parcels) + 1, row)
        /\ o.result.status = 201 <=> fault \notin {"lost", "unread"}

\* The request is refused without a change, or the row is added and one of the
\* answers of the handler follows.
LEMMA ParcelRefused ==
  ASSUME NEW g, NEW json, NEW d, Good(d, g), NEW status, status # 201, NEW fault
  PROVE  ParcelOutcome(g, json, d, Refused(d, status), fault)
BY DEF ParcelOutcome, Refused, Outcome, Error, Answer

\* The ways a handler ends after its insert: the answer is lost, or the row is read back.
LEMMA ParcelLost ==
  ASSUME NEW g, NEW json, NEW d, Good(d, g), NEW row,
         ParcelRow(d, g, row), ParcelKept(g, json, row), NEW status, status # 201
  PROVE  ParcelOutcome(g, json, d, Refused(AddParcel(d, row), status), "lost")
<1> DEFINE e == AddParcel(d, row)
<1>1. /\ Good(e, g) /\ e.parcels = Append(d.parcels, row)
      /\ e.users = d.users /\ e.deliveries = d.deliveries
  BY AddParcelGood
<1> HIDE DEF e
<1>2. ParcelOutcome(g, json, d, Refused(e, status), "lost")
  BY <1>1 DEF ParcelOutcome, Refused, Outcome, Error, Answer
<1> QED
  BY <1>2 DEF e

LEMMA ParcelMade ==
  ASSUME NEW g, NEW json, NEW d, Good(d, g), NEW row,
         ParcelRow(d, g, row), ParcelKept(g, json, row), NEW fault, fault # "lost"
  PROVE  ParcelOutcome(g, json, d,
                       ReadBack(AddParcel(d, row), fault, ShownParcel(g, Len(d.parcels) + 1, row)),
                       fault)
<1> DEFINE e == AddParcel(d, row)
           shown == ShownParcel(g, Len(d.parcels) + 1, row)
<1>1. /\ Good(e, g) /\ e.parcels = Append(d.parcels, row)
      /\ e.users = d.users /\ e.deliveries = d.deliveries
  BY AddParcelGood
<1> HIDE DEF e, shown
<1>2. ParcelOutcome(g, json, d, ReadBack(e, fault, shown), fault)
  BY <1>1 DEF ParcelOutcome, ReadBack, Outcome, Error, Answer, shown
<1> QED
  BY <1>2 DEF e, shown

\* What reading back by the new id finds.
LEMMA ParcelFound ==
  ASSUME NEW g, NEW d, Good(d, g), NEW row, ParcelRow(d, g, row)
  PROVE  LET e == AddParcel(d, row)
             k == Len(d.parcels) + 1
         IN  /\ GetParcelById2(e, k) = <<With(row, "id", k)>>
             /\ GetParcelById3(e, k) = <<With(row, "id", k)>>
             /\ GetParcelById4(e, k) = <<MapBsonToParcel4(k, row)>>
             /\ GetParcelById6(e, k) = <<MapBsonToParcel6(k, row)>>
<1> DEFINE e == AddParcel(d, row)
           k == Len(d.parcels) + 1
<1>1. e.parcels = Append(d.parcels, row)
  BY AddParcelGood
<1>2. k \in DOMAIN e.parcels /\ e.parcels[k] = row
  BY <1>1, TableAppend, TableLen DEF Good
<1> HIDE DEF e, k
<1>3. /\ GetParcelById2(e, k) = <<With(row, "id", k)>>
      /\ GetParcelById3(e, k) = <<With(row, "id", k)>>
      /\ GetParcelById4(e, k) = <<MapBsonToParcel4(k, row)>>
      /\ GetParcelById6(e, k) = <<MapBsonToParcel6(k, row)>>
  BY <1>2 DEF GetParcelById2, GetParcelById3, GetParcelById4, GetParcelById6, ById,
              ParcelDto2, ParcelDto3, ParcelDto4, ParcelDto6
<1> QED
  BY <1>3 DEF e, k

\* A body that Parse reads has the required members, none of those it reads is
\* null, and the DTO has their values.
LEMMA Parsed ==
  ASSUME NEW json, NEW required, NEW optional, Parse(json, required, optional) # <<>>
  PROVE  LET dto == Parse(json, required, optional)[1]
         IN  /\ Parse(json, required, optional) = <<dto>>
             /\ DOMAIN dto = required \cup optional
             /\ required \subseteq DOMAIN json
             /\ \A f \in required : dto[f] = json[f]
             /\ \A f \in optional : f \in DOMAIN json => dto[f] = json[f]
             /\ \A f \in optional : f \notin DOMAIN json => dto[f] = Nothing \/ f \in required
             /\ \A f \in (required \cup optional) \cap DOMAIN json : json[f] # Null
BY DEF Parse

\* The fields of a parcel's body.
LEMMA ParsedParcel ==
  ASSUME NEW json, ParseParcelRequest2(json) # <<>>
  PROVE  LET dto == ParseParcelRequest2(json)[1]
         IN  /\ {"sender_id", "size"} \subseteq DOMAIN json
             /\ DOMAIN dto = {"sender_id", "size", "description"}
             /\ dto.sender_id = json.sender_id /\ dto.size = json.size
             /\ dto.description =
                  IF "description" \in DOMAIN json THEN json.description ELSE Nothing
<1> DEFINE parsed == ParseParcelRequest2(json)
           dto == parsed[1]
<1>1. parsed = Parse(json, {"sender_id", "size"}, {"description"})
  BY DEF ParseParcelRequest2
<1>2. /\ DOMAIN dto = {"sender_id", "size"} \cup {"description"}
      /\ {"sender_id", "size"} \subseteq DOMAIN json
      /\ \A f \in {"sender_id", "size"} : dto[f] = json[f]
      /\ \A f \in {"description"} : f \in DOMAIN json => dto[f] = json[f]
      /\ \A f \in {"description"} : f \notin DOMAIN json => dto[f] = Nothing \/ f \in {"sender_id", "size"}
  BY <1>1, Parsed
<1> HIDE DEF dto
<1> QED
  BY <1>2 DEF dto

\* What Parse of lr-4 takes from a body of a parcel.
LEMMA ParsedParcel4 ==
  ASSUME NEW json, ParseParcelRequest4(json) # <<>>
  PROVE  LET dto == ParseParcelRequest4(json)[1]
         IN  /\ {"sender_id", "size"} \subseteq DOMAIN json
             /\ dto.sender_id = json.sender_id /\ dto.size = json.size
             /\ dto.description =
                  IF "description" \in DOMAIN json THEN json.description ELSE Nothing
             /\ dto.features =
                  IF "features" \in DOMAIN json THEN ListOf(json.features) ELSE Nothing
<1> DEFINE parsed == ParseParcelRequest2(json)
           dto == parsed[1]
           features == IF "features" \in DOMAIN json THEN ListOf(json.features) ELSE Nothing
<1>1. ParseParcelRequest4(json) = IF parsed = <<>> THEN <<>> ELSE <<With(dto, "features", features)>>
  BY DEF ParseParcelRequest4, ParseParcelRequest2
<1>2. parsed # <<>>
  BY <1>1
<1> HIDE DEF features
<1>3. /\ {"sender_id", "size"} \subseteq DOMAIN json
      /\ DOMAIN dto = {"sender_id", "size", "description"}
      /\ dto.sender_id = json.sender_id /\ dto.size = json.size
      /\ dto.description = IF "description" \in DOMAIN json THEN json.description ELSE Nothing
  BY <1>2, ParsedParcel
<1> HIDE DEF dto, parsed
<1>4. ParseParcelRequest4(json)[1] = With(dto, "features", features)
  BY <1>1, <1>2
<1> DEFINE full == With(dto, "features", features)
<1>5. /\ full.sender_id = dto.sender_id /\ full.size = dto.size
      /\ full.description = dto.description /\ full.features = features
  BY <1>3 DEF With
<1> HIDE DEF full
<1>6. ParseParcelRequest4(json)[1] = full
  BY <1>4 DEF full
<1> QED
  BY <1>3, <1>5, <1>6 DEF features

\* The rows of lr-2 and lr-3, and the documents of MongoDB.
LEMMA ParcelRowOfDto ==
  ASSUME NEW g \in {2, 3}, NEW d, NEW json, ParseParcelRequest2(json) # <<>>,
         ParseParcelRequest2(json)[1].sender_id \in DOMAIN d.users
  PROVE  LET row == With(ParseParcelRequest2(json)[1], "status", "created")
         IN  ParcelRow(d, g, row) /\ ParcelKept(g, json, row)
<1> DEFINE dto == ParseParcelRequest2(json)[1]
           row == With(dto, "status", "created")
<1>1. /\ {"sender_id", "size"} \subseteq DOMAIN json
      /\ DOMAIN dto = {"sender_id", "size", "description"}
      /\ dto.sender_id = json.sender_id /\ dto.size = json.size
      /\ dto.description = IF "description" \in DOMAIN json THEN json.description ELSE Nothing
  BY ParsedParcel
<1> HIDE DEF dto
<1>2. /\ DOMAIN row = {"sender_id", "size", "description", "status"}
      /\ row.status = "created" /\ row.sender_id = dto.sender_id
      /\ row.size = dto.size /\ row.description = dto.description
  BY <1>1 DEF With
<1> HIDE DEF row
<1>3. ParcelRow(d, g, row)
  BY <1>1, <1>2 DEF ParcelRow, ParcelStatuses, dto
<1>4. ParcelKept(g, json, row)
  BY <1>1, <1>2 DEF ParcelKept, KeptDescription
<1> QED
  BY <1>3, <1>4 DEF row, dto

\* An empty description and none are one in MongoDB.
LEMMA ParcelDescription ==
  ASSUME NEW json \in ParcelBodies, NEW dto,
         dto.description = IF "description" \in DOMAIN json THEN json.description ELSE Nothing,
         NEW g \in {4, 5, 6}
  PROVE  (IF dto.description = Nothing THEN Empty ELSE dto.description) = KeptDescription(g, json)
<1>1. "description" \in DOMAIN json => json.description # Nothing
  BY BodiesAssumption
<1> QED
  BY <1>1 DEF KeptDescription

\* The document of a parcel is a row as it must be and has what was posted.
LEMMA ParcelRowOfDocument4 ==
  ASSUME NEW d, NEW json \in ParcelBodies, ParseParcelRequest4(json) # <<>>,
         MapParcelToBson4(ParseParcelRequest4(json)[1]).features # Null
  PROVE  LET doc == MapParcelToBson4(ParseParcelRequest4(json)[1])
         IN  ParcelRow(d, 4, doc) /\ ParcelKept(4, json, doc)
<1> DEFINE dto == ParseParcelRequest4(json)[1]
           doc == MapParcelToBson4(dto)
           list == IF dto.features = Nothing THEN <<>> ELSE dto.features
<1>1. /\ {"sender_id", "size"} \subseteq DOMAIN json
      /\ dto.sender_id = json.sender_id /\ dto.size = json.size
      /\ dto.description = IF "description" \in DOMAIN json THEN json.description ELSE Nothing
      /\ dto.features = IF "features" \in DOMAIN json THEN ListOf(json.features) ELSE Nothing
  BY ParsedParcel4
<1> HIDE DEF dto
<1>2. /\ DOMAIN doc = {"sender_id", "size", "description", "status", "features"}
      /\ doc.status = "created" /\ doc.sender_id = dto.sender_id /\ doc.size = dto.size
      /\ doc.description = IF dto.description = Nothing THEN Empty ELSE dto.description
      /\ doc.features = ValueOf(list)
  BY DEF MapParcelToBson4
<1>3. doc.features # Null
  BY DEF dto
<1> HIDE DEF doc
<1>4. list # <<>> /\ doc.features = list
  BY <1>2, <1>3 DEF ValueOf
<1>5. "features" \in DOMAIN json /\ json.features \in Seq(Features) /\ list = json.features
  <2>1. dto.features # Nothing /\ "features" \in DOMAIN json /\ list = ListOf(json.features)
    BY <1>1, <1>4
  <2>2. json.features # Null /\ list = json.features
    BY <1>4, <2>1 DEF ListOf
  <2> QED
    BY <2>1, <2>2, BodiesAssumption
<1> HIDE DEF list
<1>6. Begins(json.features, doc.features)
  <2> DEFINE x == json.features
  <2>1. doc.features = x /\ x \in Seq(Features)
    BY <1>4, <1>5
  <2> HIDE DEF x
  <2>2. Begins(x, x)
    BY <2>1, LenProperties DEF Begins
  <2> QED
    BY <2>1, <2>2 DEF x
<1>7. doc.description = KeptDescription(4, json)
  BY <1>1, <1>2, ParcelDescription
<1>8. ParcelRow(d, 4, doc)
  BY <1>2 DEF ParcelRow, ParcelStatuses
<1>9. ParcelKept(4, json, doc)
  BY <1>1, <1>2, <1>4, <1>5, <1>6, <1>7 DEF ParcelKept
<1> QED
  BY <1>8, <1>9 DEF doc, dto

LEMMA ParcelRowOfDocument6 ==
  ASSUME NEW g \in {5, 6}, NEW d, NEW json \in ParcelBodies, ParseParcelRequest6(json) # <<>>
  PROVE  LET doc == MapParcelToBson6(ParseParcelRequest6(json)[1])
         IN  ParcelRow(d, g, doc) /\ ParcelKept(g, json, doc)
<1> DEFINE dto == ParseParcelRequest6(json)[1]
           doc == MapParcelToBson6(dto)
<1>1. /\ {"sender_id", "size"} \subseteq DOMAIN json
      /\ dto.sender_id = json.sender_id /\ dto.size = json.size
      /\ dto.description = IF "description" \in DOMAIN json THEN json.description ELSE Nothing
  BY ParsedParcel4 DEF ParseParcelRequest6
<1> HIDE DEF dto
<1>2. /\ DOMAIN doc = {"sender_id", "size", "description", "status"}
      /\ doc.status = "created" /\ doc.sender_id = dto.sender_id /\ doc.size = dto.size
      /\ doc.description = IF dto.description = Nothing THEN Empty ELSE dto.description
  BY DEF MapParcelToBson6
<1> HIDE DEF doc
<1>3. doc.description = KeptDescription(g, json)
  BY <1>1, <1>2, ParcelDescription
<1>4. ParcelRow(d, g, doc)
  BY <1>2 DEF ParcelRow, ParcelStatuses
<1>5. ParcelKept(g, json, doc)
  BY <1>1, <1>2, <1>3 DEF ParcelKept
<1> QED
  BY <1>4, <1>5 DEF doc, dto

\* What POST /parcels does, generation by generation.
LEMMA CreateParcel2Outcome ==
  ASSUME NEW d, Good(d, 2), NEW json
  PROVE  ParcelOutcome(2, json, d, CreateParcelHandler2(d, json), "none")
<1> DEFINE parsed == ParseParcelRequest2(json)
           dto == parsed[1]
           row == With(dto, "status", "created")
           k == Len(d.parcels) + 1
<1>1. CASE parsed = <<>>
  BY <1>1, ParcelRefused DEF CreateParcelHandler2
<1>2. CASE parsed # <<>> /\ dto.sender_id \notin DOMAIN d.users
  <2>1. CreateParcelHandler2(d, json) = Refused(d, 404)
    BY <1>2 DEF CreateParcelHandler2, CreateParcel2, Outcome
  <2> QED
    BY <2>1, ParcelRefused
<1>3. CASE parsed # <<>> /\ dto.sender_id \in DOMAIN d.users
  <2>1. Len(d.parcels) + 1 # DataViolation
    BY TableLen DEF Good, DataViolation
  <2>2. ParcelRow(d, 2, row) /\ ParcelKept(2, json, row)
    BY <1>3, ParcelRowOfDto
  <2>3. GetParcelById2(AddParcel(d, row), k) = <<With(row, "id", k)>>
    <3> HIDE DEF row
    <3> QED
      BY <2>2, ParcelFound
  <2>4. CreateParcelHandler2(d, json) =
          ReadBack(AddParcel(d, row), "none",
                   SerializeParcelResponse2(GetParcelById2(AddParcel(d, row), k)[1]))
    BY <1>3, <2>1 DEF CreateParcelHandler2, CreateParcel2, Outcome
  <2> HIDE DEF row
  <2>5. CreateParcelHandler2(d, json) =
          ReadBack(AddParcel(d, row), "none", ShownParcel(2, k, row))
    BY <2>3, <2>4 DEF ShownParcel
  <2> QED
    BY <2>2, <2>5, ParcelMade
<1> QED
  BY <1>1, <1>2, <1>3

LEMMA CreateParcel3Outcome ==
  ASSUME NEW d, Good(d, 3), NEW json, NEW fault
  PROVE  ParcelOutcome(3, json, d, CreateParcelHandler3(d, json, fault), fault)
<1> DEFINE parsed == ParseParcelRequest3(json)
           dto == parsed[1]
           row == With(dto, "status", "created")
           k == Len(d.parcels) + 1
           e == AddParcel(d, row)
           o == CreateParcelHandler3(d, json, fault)
<1>1. CASE parsed = <<>>
  BY <1>1, ParcelRefused DEF CreateParcelHandler3
<1>2. CASE /\ parsed # <<>>
           /\ fault = "refused" \/ dto.size = "unfit" \/ dto.sender_id \notin DOMAIN d.users
  <2>1. o = Refused(d, 404) \/ o = Refused(d, 422)
    BY <1>2 DEF CreateParcelHandler3, CreateParcel3, Outcome, DataViolation, ConstraintViolation
  <2> HIDE DEF o
  <2>2. ParcelOutcome(3, json, d, o, fault)
    BY <2>1, ParcelRefused
  <2> QED
    BY <2>2 DEF o
<1>3. CASE /\ parsed # <<>>
           /\ fault # "refused" /\ dto.size # "unfit" /\ dto.sender_id \in DOMAIN d.users
  <2>1. /\ Len(d.parcels) + 1 # DataViolation
        /\ Len(d.parcels) + 1 # ConstraintViolation
    BY TableLen DEF Good, DataViolation, ConstraintViolation
  <2>2. CreateParcel3(d, dto, fault) = Made(e, fault, k, DataViolation)
    BY <1>3 DEF CreateParcel3
  <2>3. /\ fault = "lost" => o = Refused(e, 404)
        /\ fault # "lost" =>
             o = ReadBack(e, fault, SerializeParcelResponse3(GetParcelById3(e, k)[1]))
    <3> HIDE DEF e
    <3> QED
      BY <1>3, <2>1, <2>2 DEF CreateParcelHandler3, Made, Outcome
  <2>4. ParcelRow(d, 3, row) /\ ParcelKept(3, json, row)
    <3>1. parsed = ParseParcelRequest2(json)
      BY DEF ParseParcelRequest3, ParseParcelRequest2
    <3> HIDE DEF parsed
    <3> QED
      BY <1>3, <3>1, ParcelRowOfDto
  <2> HIDE DEF row, o
  <2>5. GetParcelById3(e, k) = <<With(row, "id", k)>>
    BY <2>4, ParcelFound
  <2>6. fault # "lost" => o = ReadBack(e, fault, ShownParcel(3, k, row))
    <3>1. SerializeParcelResponse3(With(row, "id", k)) = ShownParcel(3, k, row)
      BY DEF ShownParcel, SerializeParcelResponse2, SerializeParcelResponse3
    <3> QED
      BY <2>3, <2>5, <3>1
  <2>7. ASSUME fault = "lost" PROVE ParcelOutcome(3, json, d, o, fault)
    BY <2>3, <2>4, <2>7, ParcelLost
  <2>8. ASSUME fault # "lost" PROVE ParcelOutcome(3, json, d, o, fault)
    BY <2>4, <2>6, <2>8, ParcelMade
  <2> QED
    BY <2>7, <2>8 DEF o
<1> QED
  BY <1>1, <1>2, <1>3

\* The three generations with parcels in MongoDB: a document that is inserted.
LEMMA ParcelInserted ==
  ASSUME NEW g \in {4, 5, 6}, NEW d, Good(d, g), NEW json,
         NEW doc, ParcelRow(d, g, doc), ParcelKept(g, json, doc), NEW fault, NEW o,
         fault = "lost" => o = Refused(AddParcel(d, doc), 422),
         fault # "lost" =>
           LET e == AddParcel(d, doc)
               k == Len(d.parcels) + 1
           IN  o = ReadBack(e, fault,
                            IF g = 4 THEN SerializeParcelResponse4(GetParcelById4(e, k)[1])
                            ELSE SerializeParcelResponse6(GetParcelById6(e, k)[1]))
  PROVE  ParcelOutcome(g, json, d, o, fault)
<1> DEFINE e == AddParcel(d, doc)
           k == Len(d.parcels) + 1
<1>1. /\ GetParcelById4(e, k) = <<MapBsonToParcel4(k, doc)>>
      /\ GetParcelById6(e, k) = <<MapBsonToParcel6(k, doc)>>
  BY ParcelFound
<1>2. fault # "lost" => o = ReadBack(e, fault, ShownParcel(g, k, doc))
  BY <1>1 DEF ShownParcel
<1>3. ASSUME fault = "lost" PROVE ParcelOutcome(g, json, d, o, fault)
  BY <1>3, ParcelLost
<1>4. ASSUME fault # "lost" PROVE ParcelOutcome(g, json, d, o, fault)
  BY <1>2, <1>4, ParcelMade
<1> QED
  BY <1>3, <1>4

LEMMA CreateParcel4Outcome ==
  ASSUME NEW d, Good(d, 4), NEW json \in ParcelBodies, NEW fault
  PROVE  ParcelOutcome(4, json, d, CreateParcelHandler4(d, json, fault), fault)
<1> DEFINE parsed == ParseParcelRequest4(json)
           dto == parsed[1]
           doc == MapParcelToBson4(dto)
           k == Len(d.parcels) + 1
           e == AddParcel(d, doc)
           step == CreateParcel4(d, dto, fault)
           o == CreateParcelHandler4(d, json, fault)
<1>1. k # ConstraintViolation
  BY TableLen DEF Good, ConstraintViolation
<1>2. CASE parsed = <<>> \/ dto.sender_id <= 0
  <2>1. o = Refused(d, 400)
    BY <1>2 DEF CreateParcelHandler4
  <2> QED
    BY <2>1, ParcelRefused
<1>3. CASE /\ parsed # <<>> /\ ~(dto.sender_id <= 0)
           /\ step = Outcome(d, ConstraintViolation)
  <2>1. o = Refused(d, 422)
    BY <1>3 DEF CreateParcelHandler4, Outcome
  <2> QED
    BY <2>1, ParcelRefused
<1>4. CASE /\ parsed # <<>> /\ ~(dto.sender_id <= 0) /\ doc.features # Null
           /\ step = Made(e, fault, k, ConstraintViolation)
  <2>1. /\ fault = "lost" => o = Refused(e, 422)
        /\ fault # "lost" =>
             o = ReadBack(e, fault, SerializeParcelResponse4(GetParcelById4(e, k)[1]))
    <3> HIDE DEF e
    <3> QED
      BY <1>1, <1>4 DEF CreateParcelHandler4, Made, Outcome
  <2>2. ParcelRow(d, 4, doc) /\ ParcelKept(4, json, doc)
    BY <1>4, ParcelRowOfDocument4
  <2> HIDE DEF doc, o
  <2>3. ParcelOutcome(4, json, d, o, fault)
    BY <2>1, <2>2, ParcelInserted
  <2> QED
    BY <2>3 DEF o
<1> QED
  BY <1>2, <1>3, <1>4 DEF CreateParcel4, ValidParcel4

LEMMA CreateParcel5Outcome ==
  ASSUME NEW d, Good(d, 5), NEW json \in ParcelBodies, NEW fault
  PROVE  ParcelOutcome(5, json, d, CreateParcelHandler5(d, json, fault), fault)
<1> DEFINE parsed == ParseParcelRequest6(json)
           dto == parsed[1]
           doc == MapParcelToBson6(dto)
           k == Len(d.parcels) + 1
           e == AddParcel(d, doc)
           step == CreateParcel5(d, dto, fault)
           o == CreateParcelHandler5(d, json, fault)
<1>1. k # ConstraintViolation
  BY TableLen DEF Good, ConstraintViolation
<1>2. CASE parsed = <<>> \/ dto.sender_id <= 0
  <2>1. o = Refused(d, 400)
    BY <1>2 DEF CreateParcelHandler5
  <2> QED
    BY <2>1, ParcelRefused
<1>3. CASE /\ parsed # <<>> /\ ~(dto.sender_id <= 0)
           /\ step = Outcome(d, ConstraintViolation)
  <2>1. o = Refused(d, 422)
    BY <1>3 DEF CreateParcelHandler5, Outcome
  <2> QED
    BY <2>1, ParcelRefused
<1>4. CASE /\ parsed # <<>> /\ ~(dto.sender_id <= 0)
           /\ step = Made(e, fault, k, ConstraintViolation)
  <2>1. /\ fault = "lost" => o = Refused(e, 422)
        /\ fault # "lost" =>
             o = ReadBack(e, fault, SerializeParcelResponse6(GetParcelById6(e, k)[1]))
    <3> HIDE DEF e
    <3> QED
      BY <1>1, <1>4 DEF CreateParcelHandler5, Made, Outcome
  <2>2. ParcelRow(d, 5, doc) /\ ParcelKept(5, json, doc)
    BY <1>4, ParcelRowOfDocument6
  <2> HIDE DEF doc, o
  <2>3. ParcelOutcome(5, json, d, o, fault)
    BY <2>1, <2>2, ParcelInserted
  <2> QED
    BY <2>3 DEF o
<1> QED
  BY <1>2, <1>3, <1>4 DEF CreateParcel5

LEMMA CreateParcel6Outcome ==
  ASSUME NEW d, Good(d, 6), NEW json \in ParcelBodies, NEW fault
  PROVE  ParcelOutcome(6, json, d, CreateParcelHandler6(d, json, fault), fault)
<1> DEFINE parsed == ParseParcelRequest6(json)
           dto == parsed[1]
           doc == MapParcelToBson6(dto)
           k == Len(d.parcels) + 1
           e == AddParcel(d, doc)
           step == CreateParcel6(d, dto, fault)
           o == CreateParcelHandler6(d, json, fault)
<1>1. k # ConstraintViolation
  BY TableLen DEF Good, ConstraintViolation
<1>2. CASE parsed = <<>> \/ dto.sender_id <= 0
  <2>1. o = Refused(d, 400)
    BY <1>2 DEF CreateParcelHandler6
  <2> QED
    BY <2>1, ParcelRefused
<1>3. CASE /\ parsed # <<>> /\ ~(dto.sender_id <= 0)
           /\ step = Outcome(d, ConstraintViolation)
  <2>1. o = Refused(d, 422)
    BY <1>3 DEF CreateParcelHandler6, Outcome
  <2> QED
    BY <2>1, ParcelRefused
<1>4. CASE /\ parsed # <<>> /\ ~(dto.sender_id <= 0)
           /\ step = Made(e, fault, k, ConstraintViolation)
  <2>1. /\ fault = "lost" => o = Refused(e, 422)
        /\ fault # "lost" =>
             o = ReadBack(e, fault, SerializeParcelResponse6(GetParcelById6(e, k)[1]))
    <3> HIDE DEF e
    <3> QED
      BY <1>1, <1>4 DEF CreateParcelHandler6, Made, Outcome
  <2>2. ParcelRow(d, 6, doc) /\ ParcelKept(6, json, doc)
    BY <1>4, ParcelRowOfDocument6
  <2> HIDE DEF doc, o
  <2>3. ParcelOutcome(6, json, d, o, fault)
    BY <2>1, <2>2, ParcelInserted
  <2> QED
    BY <2>3 DEF o
<1> QED
  BY <1>2, <1>3, <1>4 DEF CreateParcel6

\* The fault of a request to lr-2 is "none".
LEMMA PostParcelOutcome ==
  ASSUME NEW g \in 2 .. 6, NEW d, Good(d, g), NEW json \in ParcelBodies,
         NEW fault, g = 2 => fault = "none"
  PROVE  ParcelOutcome(g, json, d, PostParcel(g, d, json, fault), fault)
<1>1. CASE g = 2
  BY <1>1, CreateParcel2Outcome DEF PostParcel
<1>2. CASE g = 3
  BY <1>2, CreateParcel3Outcome DEF PostParcel
<1>3. CASE g = 4
  BY <1>3, CreateParcel4Outcome DEF PostParcel
<1>4. CASE g = 5
  BY <1>4, CreateParcel5Outcome DEF PostParcel
<1>5. CASE g = 6
  BY <1>5, CreateParcel6Outcome DEF PostParcel
<1> QED
  BY <1>1, <1>2, <1>3, <1>4, <1>5

\* A row of a delivery that was made from a body, and changed in place since.
DeliveryKept(g, json, k, row) ==
  /\ {"parcel_id", "receiver_id", "from_address", "to_address"} \subseteq DOMAIN json
  /\ g # 2 => "sender_id" \in DOMAIN json
  /\ json.from_address # Null
  /\ DOMAIN row = {"parcel_id", "receiver_id", "from_address", "to_address",
                   "tracking_number", "status", "delivered_at"}
                  \cup (IF g = 2 THEN {"scheduled_pickup_time"} ELSE {"sender_id"})
                  \cup (IF HasEvents(g) THEN {"events"} ELSE {})
  /\ row.parcel_id = json.parcel_id /\ row.receiver_id = json.receiver_id
  /\ row.from_address = json.from_address /\ row.to_address = json.to_address
  /\ g # 2 => row.sender_id = json.sender_id
  /\ row.tracking_number \in {k, Unnumbered(k)}
  /\ g # 3 => row.tracking_number = k
  /\ HasEvents(g) =>
       /\ IsTable(row.events) /\ row.events # <<>>
       /\ row.events[1] = [status |-> "pending", location |-> json.from_address.city]

\* A delivery keeps what was posted when its status or its events follow.
LEMMA DeliveryStaysKept ==
  ASSUME NEW g, NEW json, NEW k, NEW a, NEW b, DeliveryKept(g, json, k, a), DeliveryFollows(a, b)
  PROVE  DeliveryKept(g, json, k, b)
<1>1. /\ DOMAIN b = DOMAIN a
      /\ \A f \in {"parcel_id", "receiver_id", "from_address", "to_address", "tracking_number"} :
           b[f] = a[f]
      /\ g # 2 => b.sender_id = a.sender_id
  BY DEF DeliveryKept, DeliveryFollows
<1>2. HasEvents(g) => IsTable(b.events) /\ b.events # <<>> /\ b.events[1] = a.events[1]
  BY DEF DeliveryKept, DeliveryFollows
<1> QED
  BY <1>1, <1>2 DEF DeliveryKept

\* What is shown of row k of database d.
ShownDelivery(g, d, k) ==
  CASE g = 2 -> SerializeDeliveryResponse2(DeliveryDto2(d, k))
    [] g = 3 -> SerializeDeliveryResponse3(DeliveryDto3(d, k))
    [] g \in {4, 6} -> SerializeDeliveryResponse4(DeliveryDto4(d, k))

\* A request for a delivery adds a row, and may mark the parcel, or it adds none
\* and is not answered 201; what is shown is the row.
DeliveryOutcome(g, json, d, o) ==
  /\ Good(o.db, g)
  /\ o.db.users = d.users /\ ParcelsFollow(d, o.db)
  /\ \/ o.db.deliveries = d.deliveries /\ o.result.status # 201
     \/ \E row : /\ DeliveryKept(g, json, Len(d.deliveries) + 1, row)
                 /\ o.db.deliveries = Append(d.deliveries, row)
                 /\ o.result.status = 201 =>
                      o.result.shown = ShownDelivery(g, o.db, Len(d.deliveries) + 1)

\* The ways POST /deliveries ends: refused, or a row is added and told of or not.
LEMMA DeliveryRefused ==
  ASSUME NEW g, NEW json, NEW d, Good(d, g), NEW status, status # 201
  PROVE  DeliveryOutcome(g, json, d, Refused(d, status))
BY FollowsItself DEF DeliveryOutcome, Refused, Outcome, Error, Answer

\* What the insert leaves, with a parcel marked or not.
Inserted(d, row, e) ==
  \/ e = AddDelivery(d, row)
  \/ \E parcel : e = SetParcelStatus(AddDelivery(d, row), parcel, "assigned")

LEMMA DeliveryAdded ==
  ASSUME NEW g, NEW d, Good(d, g), NEW row, DeliveryRow(d, g, row),
         NEW e, Inserted(d, row, e)
  PROVE  /\ Good(e, g) /\ e.users = d.users /\ ParcelsFollow(d, e)
         /\ e.deliveries = Append(d.deliveries, row)
         /\ Len(d.deliveries) + 1 \in DOMAIN e.deliveries
<1> DEFINE added == AddDelivery(d, row)
<1>1. /\ Good(added, g) /\ added.deliveries = Append(d.deliveries, row)
      /\ added.users = d.users /\ added.parcels = d.parcels
  BY AddDeliveryGood
<1>2. ParcelsFollow(d, added)
  BY <1>1, RowFollows DEF ParcelsFollow
<1>3. Len(d.deliveries) + 1 \in DOMAIN Append(d.deliveries, row)
  BY TableLen, TableAppend DEF Good
<1> HIDE DEF added
<1>4. ASSUME NEW parcel, e = SetParcelStatus(added, parcel, "assigned")
      PROVE  /\ Good(e, g) /\ e.users = d.users /\ ParcelsFollow(d, e)
             /\ e.deliveries = Append(d.deliveries, row)
  <2>1. Good(e, g) /\ Follows(added, e)
    BY <1>1, <1>4, SetParcelStatusGood DEF ParcelStatuses
  <2>2. e.deliveries = added.deliveries
    BY <1>1, <1>4 DEF SetParcelStatus, Good
  <2> QED
    BY <1>1, <2>1, <2>2 DEF Follows, ParcelsFollow
<1>5. e = added \/ \E parcel : e = SetParcelStatus(added, parcel, "assigned")
  BY DEF Inserted, added
<1> QED
  BY <1>1, <1>2, <1>3, <1>4, <1>5

LEMMA DeliveryMade ==
  ASSUME NEW g, NEW json, NEW d, Good(d, g), NEW row, DeliveryRow(d, g, row),
         DeliveryKept(g, json, Len(d.deliveries) + 1, row), NEW e, Inserted(d, row, e)
  PROVE  /\ \A status : status # 201 => DeliveryOutcome(g, json, d, Refused(e, status))
         /\ \A fault : DeliveryOutcome(g, json, d,
              ReadBack(e, fault, ShownDelivery(g, e, Len(d.deliveries) + 1)))
<1>1. /\ Good(e, g) /\ e.users = d.users /\ ParcelsFollow(d, e)
      /\ e.deliveries = Append(d.deliveries, row)
  BY DeliveryAdded
<1> DEFINE shown == ShownDelivery(g, e, Len(d.deliveries) + 1)
<1> HIDE DEF shown
<1>2. ASSUME NEW o, o.db = e, o.result.status = 201 => o.result.shown = shown
      PROVE  DeliveryOutcome(g, json, d, o)
  BY <1>1, <1>2 DEF DeliveryOutcome, shown
<1>3. ASSUME NEW status, status # 201 PROVE DeliveryOutcome(g, json, d, Refused(e, status))
  BY <1>2, <1>3 DEF Refused, Outcome, Error, Answer
<1>4. ASSUME NEW fault PROVE DeliveryOutcome(g, json, d, ReadBack(e, fault, shown))
  BY <1>2 DEF ReadBack, Outcome, Error, Answer
<1> QED
  BY <1>3, <1>4 DEF shown

\* The fields of a delivery's body.
LEMMA ParsedDelivery ==
  ASSUME NEW json, NEW required, NEW optional, NEW parsed,
         parsed = Parse(json, required, optional), parsed # <<>>
  PROVE  /\ required \subseteq DOMAIN json
         /\ \A f \in required : parsed[1][f] = json[f] /\ json[f] # Null
<1> DEFINE dto == Parse(json, required, optional)[1]
<1>1. /\ required \subseteq DOMAIN json
      /\ \A f \in required : dto[f] = json[f]
      /\ \A f \in (required \cup optional) \cap DOMAIN json : json[f] # Null
  BY Parsed
<1> HIDE DEF dto
<1>2. parsed[1] = dto
  BY DEF dto
<1> QED
  BY <1>1, <1>2

\* What Parse takes from a body of a delivery.
LEMMA ParsedDelivery2 ==
  ASSUME NEW json, ParseDeliveryRequest2(json) # <<>>
  PROVE  LET dto == ParseDeliveryRequest2(json)[1]
         IN  /\ {"parcel_id", "receiver_id", "from_address", "to_address"} \subseteq DOMAIN json
             /\ json.from_address # Null
             /\ dto.parcel_id = json.parcel_id /\ dto.receiver_id = json.receiver_id
             /\ dto.from_address = json.from_address /\ dto.to_address = json.to_address
<1> DEFINE parsed == ParseDeliveryRequest2(json)
           dto == parsed[1]
           required == {"parcel_id", "receiver_id", "from_address", "to_address"}
<1>1. required \subseteq DOMAIN json /\ \A f \in required : dto[f] = json[f] /\ json[f] # Null
  <2>1. parsed = Parse(json, required, {"scheduled_pickup_time"})
    BY DEF ParseDeliveryRequest2
  <2> HIDE DEF parsed, required
  <2> QED
    BY <2>1, ParsedDelivery DEF parsed
<1> HIDE DEF dto
<1> QED
  BY <1>1 DEF dto

LEMMA ParsedDelivery4 ==
  ASSUME NEW json, ParseDeliveryRequest4(json) # <<>>
  PROVE  LET dto == ParseDeliveryRequest4(json)[1]
         IN  /\ {"parcel_id", "sender_id", "receiver_id", "from_address", "to_address"}
                  \subseteq DOMAIN json
             /\ json.from_address # Null
             /\ dto.parcel_id = json.parcel_id /\ dto.receiver_id = json.receiver_id
             /\ dto.from_address = json.from_address /\ dto.to_address = json.to_address
             /\ dto.sender_id = json.sender_id
<1> DEFINE parsed == ParseDeliveryRequest4(json)
           dto == parsed[1]
           required == {"parcel_id", "sender_id", "receiver_id", "from_address", "to_address"}
<1>1. required \subseteq DOMAIN json /\ \A f \in required : dto[f] = json[f] /\ json[f] # Null
  <2>1. parsed = Parse(json, required, {"scheduled_pickup_time"})
    BY DEF ParseDeliveryRequest4
  <2> HIDE DEF parsed, required
  <2> QED
    BY <2>1, ParsedDelivery DEF parsed
<1> HIDE DEF dto
<1> QED
  BY <1>1 DEF dto

LEMMA TableOne == \A x : IsTable(<<x>>) /\ <<x>> # <<>> /\ <<x>>[1] = x
BY DEF IsTable

\* The document of lr-4 and lr-6.
LEMMA DeliveryRowOfDocument ==
  ASSUME NEW g \in {4, 6}, NEW d, NEW json, ParseDeliveryRequest4(json) # <<>>, NEW k,
         ParseDeliveryRequest4(json)[1].parcel_id \in DOMAIN d.parcels
  PROVE  LET doc == MapDeliveryToBson4(k, ParseDeliveryRequest4(json)[1])
         IN  DeliveryRow(d, g, doc) /\ DeliveryKept(g, json, k, doc)
<1> DEFINE dto == ParseDeliveryRequest4(json)[1]
           doc == MapDeliveryToBson4(k, dto)
           event == [status |-> "pending", location |-> json.from_address.city]
<1>1. /\ {"parcel_id", "sender_id", "receiver_id", "from_address", "to_address"} \subseteq DOMAIN json
      /\ json.from_address # Null
      /\ dto.parcel_id = json.parcel_id /\ dto.receiver_id = json.receiver_id
      /\ dto.from_address = json.from_address /\ dto.to_address = json.to_address
      /\ dto.sender_id = json.sender_id
  BY ParsedDelivery4
<1>2. dto.parcel_id \in DOMAIN d.parcels
  OBVIOUS
<1> HIDE DEF dto
<1>3. /\ DOMAIN doc = {"parcel_id", "receiver_id", "from_address", "to_address", "sender_id",
                       "tracking_number", "status", "delivered_at", "events"}
      /\ doc.parcel_id = dto.parcel_id /\ doc.receiver_id = dto.receiver_id
      /\ doc.from_address = dto.from_address /\ doc.to_address = dto.to_address
      /\ doc.sender_id = dto.sender_id /\ doc.tracking_number = k /\ doc.status = "pending"
      /\ doc.events = <<event>>
  BY <1>1 DEF MapDeliveryToBson4
<1> HIDE DEF doc, event
<1>4. IsTable(doc.events) /\ doc.events # <<>> /\ doc.events[1] = event
  BY <1>3, TableOne
<1>5. DeliveryRow(d, g, doc)
  BY <1>2, <1>3 DEF DeliveryRow, DeliveryStatuses
<1>6. DeliveryKept(g, json, k, doc)
  BY <1>1, <1>3, <1>4 DEF DeliveryKept, HasEvents, event
<1> QED
  BY <1>5, <1>6 DEF doc, dto

\* What POST /deliveries does, generation by generation.
LEMMA CreateDelivery2Outcome ==
  ASSUME NEW d, Good(d, 2), NEW json
  PROVE  DeliveryOutcome(2, json, d, CreateDeliveryHandler2(d, json))
<1> DEFINE parsed == ParseDeliveryRequest2(json)
           dto == parsed[1]
           k == Len(d.deliveries) + 1
           row == [parcel_id |-> dto.parcel_id, receiver_id |-> dto.receiver_id,
                   from_address |-> dto.from_address, to_address |-> dto.to_address,
                   scheduled_pickup_time |-> dto.scheduled_pickup_time,
                   tracking_number |-> k, status |-> "pending", delivered_at |-> Nothing]
           added == AddDelivery(d, row)
           marked == SetParcelStatus(added, dto.parcel_id, "assigned")
           step == CreateDelivery2(d, dto)
           o == CreateDeliveryHandler2(d, json)
<1>1. k \in Nat /\ k > 0
  BY TableLen DEF Good
<1>2. CASE parsed = <<>>
  BY <1>2, DeliveryRefused DEF CreateDeliveryHandler2
<1>3. \/ step.db = d /\ step.result \in {-1, -2}
      \/ /\ dto.parcel_id \in DOMAIN d.parcels /\ dto.receiver_id \in DOMAIN d.users
         /\ step = Outcome(marked, k)
  <2> HIDE DEF dto, marked
  <2> QED
    BY DEF CreateDelivery2, Outcome, UpdateParcelStatus2, marked
<1>4. CASE parsed # <<>> /\ step.db = d /\ step.result \in {-1, -2}
  BY <1>4, DeliveryRefused DEF CreateDeliveryHandler2
<1>5. CASE /\ parsed # <<>> /\ dto.parcel_id \in DOMAIN d.parcels
           /\ dto.receiver_id \in DOMAIN d.users /\ step = Outcome(marked, k)
  <2>1. o = ReadBack(marked, "none", SerializeDeliveryResponse2(GetDeliveryById2(marked, k)[1]))
    <3> HIDE DEF marked
    <3> QED
      BY <1>1, <1>5 DEF CreateDeliveryHandler2, Outcome
  <2>2. /\ {"parcel_id", "receiver_id", "from_address", "to_address"} \subseteq DOMAIN json
        /\ json.from_address # Null
        /\ dto.parcel_id = json.parcel_id /\ dto.receiver_id = json.receiver_id
        /\ dto.from_address = json.from_address /\ dto.to_address = json.to_address
    BY <1>5, ParsedDelivery2
  <2> HIDE DEF dto
  <2>3. DeliveryRow(d, 2, row)
    BY <1>5 DEF DeliveryRow, DeliveryStatuses
  <2>4. DeliveryKept(2, json, k, row)
    BY <2>2 DEF DeliveryKept, HasEvents
  <2> HIDE DEF row, o
  <2>5. Inserted(d, row, marked) /\ k \in DOMAIN marked.deliveries
    <3>1. Inserted(d, row, marked)
      BY DEF Inserted
    <3> HIDE DEF marked
    <3> QED
      BY <2>3, <3>1, DeliveryAdded
  <2>6. GetDeliveryById2(marked, k)[1] = DeliveryDto2(marked, k)
    <3> HIDE DEF marked
    <3> QED
      BY <2>5 DEF GetDeliveryById2, ById
  <2>7. o = ReadBack(marked, "none", ShownDelivery(2, marked, k))
    BY <2>1, <2>6 DEF ShownDelivery
  <2>8. DeliveryOutcome(2, json, d, ReadBack(marked, "none", ShownDelivery(2, marked, k)))
    BY <2>3, <2>4, <2>5, DeliveryMade
  <2> QED
    BY <2>7, <2>8 DEF o
<1> QED
  BY <1>2, <1>3, <1>4, <1>5

LEMMA CreateDelivery3Outcome ==
  ASSUME NEW d, Good(d, 3), NEW json, NEW fault
  PROVE  DeliveryOutcome(3, json, d, CreateDeliveryHandler3(d, json, fault))
<1> DEFINE parsed == ParseDeliveryRequest3(json)
           dto == parsed[1]
           k == Len(d.deliveries) + 1
           row == [parcel_id |-> dto.parcel_id, sender_id |-> dto.sender_id,
                   receiver_id |-> dto.receiver_id, status |-> "pending",
                   tracking_number |-> IF fault = "lost" THEN Unnumbered(k) ELSE k,
                   from_address |-> dto.from_address, to_address |-> dto.to_address,
                   delivered_at |-> Nothing]
           added == AddDelivery(d, row)
           marked == SetParcelStatus(added, dto.parcel_id, "assigned")
           step == CreateDelivery3(d, dto, fault)
           o == CreateDeliveryHandler3(d, json, fault)
<1>1. k \in Nat /\ k > 0
  BY TableLen DEF Good
<1>2. CASE parsed = <<>>
  BY <1>2, DeliveryRefused DEF CreateDeliveryHandler3
<1>3. \/ step = Outcome(d, DataViolation)
      \/ /\ dto.parcel_id \in DOMAIN d.parcels
         /\ {dto.sender_id, dto.receiver_id} \subseteq DOMAIN d.users
         /\ \/ step = Outcome(added, DataViolation)
            \/ step \in {Outcome(added, k), Outcome(marked, k)}
  <2> HIDE DEF dto, marked, added, row
  <2> QED
    BY DEF CreateDelivery3, UpdateParcelStatus3, marked, added, row
<1>4. CASE /\ parsed # <<>>
           /\ step = Outcome(d, DataViolation)
  <2>1. o \in {Refused(d, 404), Refused(d, 422)}
    BY <1>4 DEF CreateDeliveryHandler3, Outcome, DataViolation, ConstraintViolation
  <2> HIDE DEF o
  <2>2. DeliveryOutcome(3, json, d, o)
    BY <2>1, DeliveryRefused, 404 # 201, 422 # 201
  <2> QED
    BY <2>2 DEF o
<1>5. ASSUME parsed # <<>>, dto.parcel_id \in DOMAIN d.parcels,
             {dto.sender_id, dto.receiver_id} \subseteq DOMAIN d.users,
             NEW e, e \in {added, marked}, step = Outcome(e, DataViolation) \/ step = Outcome(e, k)
      PROVE  DeliveryOutcome(3, json, d, o)
  <2>1. \/ o = Refused(e, 404)
        \/ o = ReadBack(e, fault, SerializeDeliveryResponse3(GetDeliveryById3(e, k)[1]))
    BY <1>1, <1>5 DEF CreateDeliveryHandler3, Outcome, DataViolation, ConstraintViolation
  <2>2. /\ {"parcel_id", "sender_id", "receiver_id", "from_address", "to_address"}
             \subseteq DOMAIN json
        /\ json.from_address # Null
        /\ dto.parcel_id = json.parcel_id /\ dto.receiver_id = json.receiver_id
        /\ dto.from_address = json.from_address /\ dto.to_address = json.to_address
        /\ dto.sender_id = json.sender_id
    <3>1. parsed = ParseDeliveryRequest4(json)
      BY DEF ParseDeliveryRequest3, ParseDeliveryRequest4
    <3> HIDE DEF parsed
    <3> QED
      BY <1>5, <3>1, ParsedDelivery4
  <2> HIDE DEF dto, o
  <2>3. DeliveryRow(d, 3, row)
    BY <1>5 DEF DeliveryRow, DeliveryStatuses
  <2>4. DeliveryKept(3, json, k, row)
    BY <2>2 DEF DeliveryKept, HasEvents
  <2> HIDE DEF row, o
  <2>5. Inserted(d, row, e)
    BY <1>5 DEF added, marked, Inserted
  <2> HIDE DEF added, marked
  <2>6. k \in DOMAIN e.deliveries
    BY <2>3, <2>5, DeliveryAdded
  <2>7. SerializeDeliveryResponse3(GetDeliveryById3(e, k)[1]) = ShownDelivery(3, e, k)
    BY <2>6 DEF GetDeliveryById3, ById, ShownDelivery
  <2>8. o = Refused(e, 404) \/ o = ReadBack(e, fault, ShownDelivery(3, e, k))
    BY <2>1, <2>7
  <2>9. /\ \A status : status # 201 => DeliveryOutcome(3, json, d, Refused(e, status))
        /\ DeliveryOutcome(3, json, d, ReadBack(e, fault, ShownDelivery(3, e, k)))
    BY <2>3, <2>4, <2>5, DeliveryMade
  <2> QED
    BY <2>8, <2>9
<1> QED
  BY <1>2, <1>3, <1>4, <1>5

LEMMA CreateDelivery4Outcome ==
  ASSUME NEW d, Good(d, 4), NEW json, NEW fault
  PROVE  DeliveryOutcome(4, json, d, CreateDeliveryHandler4(d, json, fault))
<1> DEFINE parsed == ParseDeliveryRequest4(json)
           dto == parsed[1]
           k == Len(d.deliveries) + 1
           row == MapDeliveryToBson4(k, dto)
           added == AddDelivery(d, row)
           marked == SetParcelStatus(added, dto.parcel_id, "assigned")
           step == CreateDelivery4(d, dto, fault)
           o == CreateDeliveryHandler4(d, json, fault)
<1>1. k \in Nat /\ k > 0
  BY TableLen DEF Good
<1>2. CASE parsed = <<>>
  BY <1>2, DeliveryRefused DEF CreateDeliveryHandler4
<1>3. \/ step = Outcome(d, DataViolation)
      \/ step = Outcome(d, ConstraintViolation)
      \/ /\ dto.parcel_id \in DOMAIN d.parcels
         /\ \/ step = Outcome(added, ConstraintViolation)
            \/ step \in {Outcome(added, k), Outcome(marked, k)}
  <2> HIDE DEF dto, marked, added, row
  <2> QED
    BY DEF CreateDelivery4, UpdateParcelStatus4, marked, added, row
<1>4. CASE /\ parsed # <<>>
           /\ step = Outcome(d, DataViolation) \/ step = Outcome(d, ConstraintViolation)
  <2>1. o \in {Refused(d, 404), Refused(d, 422)}
    BY <1>4 DEF CreateDeliveryHandler4, Outcome, DataViolation, ConstraintViolation
  <2> HIDE DEF o
  <2>2. DeliveryOutcome(4, json, d, o)
    BY <2>1, DeliveryRefused, 404 # 201, 422 # 201
  <2> QED
    BY <2>2 DEF o
<1>5. ASSUME parsed # <<>>, dto.parcel_id \in DOMAIN d.parcels,
             NEW e, e \in {added, marked}, step = Outcome(e, ConstraintViolation) \/ step = Outcome(e, k)
      PROVE  DeliveryOutcome(4, json, d, o)
  <2>1. \/ o = Refused(e, 422)
        \/ o = ReadBack(e, fault, SerializeDeliveryResponse4(GetDeliveryById4(e, k)[1]))
    BY <1>1, <1>5 DEF CreateDeliveryHandler4, Outcome, DataViolation, ConstraintViolation
  <2>3. DeliveryRow(d, 4, row) /\ DeliveryKept(4, json, k, row)
    BY <1>5, DeliveryRowOfDocument
  <2>4. DeliveryKept(4, json, k, row)
    BY <2>3
  <2> HIDE DEF row, o
  <2>5. Inserted(d, row, e)
    BY <1>5 DEF added, marked, Inserted
  <2> HIDE DEF added, marked
  <2>6. k \in DOMAIN e.deliveries
    BY <2>3, <2>5, DeliveryAdded
  <2>7. SerializeDeliveryResponse4(GetDeliveryById4(e, k)[1]) = ShownDelivery(4, e, k)
    BY <2>6 DEF GetDeliveryById4, ById, ShownDelivery
  <2>8. o = Refused(e, 422) \/ o = ReadBack(e, fault, ShownDelivery(4, e, k))
    BY <2>1, <2>7
  <2>9. /\ \A status : status # 201 => DeliveryOutcome(4, json, d, Refused(e, status))
        /\ DeliveryOutcome(4, json, d, ReadBack(e, fault, ShownDelivery(4, e, k)))
    BY <2>3, <2>4, <2>5, DeliveryMade
  <2> QED
    BY <2>8, <2>9
<1> QED
  BY <1>2, <1>3, <1>4, <1>5

LEMMA CreateDelivery6Outcome ==
  ASSUME NEW d, Good(d, 6), NEW json, NEW fault
  PROVE  DeliveryOutcome(6, json, d, CreateDeliveryHandler6(d, json, fault))
<1> DEFINE parsed == ParseDeliveryRequest6(json)
           dto == parsed[1]
           k == Len(d.deliveries) + 1
           row == MapDeliveryToBson6(k, dto)
           added == AddDelivery(d, row)
           marked == SetParcelStatus(added, dto.parcel_id, "assigned")
           step == CreateDelivery6(d, dto, fault)
           o == CreateDeliveryHandler6(d, json, fault)
<1>1. k \in Nat /\ k > 0
  BY TableLen DEF Good
<1>2. CASE parsed = <<>>
  BY <1>2, DeliveryRefused DEF CreateDeliveryHandler6
<1>3. \/ step = Outcome(d, DataViolation)
      \/ step = Outcome(d, ConstraintViolation)
      \/ /\ dto.parcel_id \in DOMAIN d.parcels
         /\ \/ step = Outcome(added, ConstraintViolation)
            \/ step \in {Outcome(added, k), Outcome(marked, k)}
  <2> HIDE DEF dto, marked, added, row
  <2> QED
    BY DEF CreateDelivery6, UpdateParcelStatus6, marked, added, row
<1>4. CASE /\ parsed # <<>>
           /\ step = Outcome(d, DataViolation) \/ step = Outcome(d, ConstraintViolation)
  <2>1. o \in {Refused(d, 404), Refused(d, 422)}
    BY <1>4 DEF CreateDeliveryHandler6, Outcome, DataViolation, ConstraintViolation
  <2> HIDE DEF o
  <2>2. DeliveryOutcome(6, json, d, o)
    BY <2>1, DeliveryRefused, 404 # 201, 422 # 201
  <2> QED
    BY <2>2 DEF o
<1>5. ASSUME parsed # <<>>, dto.parcel_id \in DOMAIN d.parcels,
             NEW e, e \in {added, marked}, step = Outcome(e, ConstraintViolation) \/ step = Outcome(e, k)
      PROVE  DeliveryOutcome(6, json, d, o)
  <2>1. \/ o = Refused(e, 422)
        \/ o = ReadBack(e, fault, SerializeDeliveryResponse6(GetDeliveryById6(e, k)[1]))
    BY <1>1, <1>5 DEF CreateDeliveryHandler6, Outcome, DataViolation, ConstraintViolation
  <2>3. DeliveryRow(d, 6, row) /\ DeliveryKept(6, json, k, row)
    BY <1>5, DeliveryRowOfDocument DEF ParseDeliveryRequest6, MapDeliveryToBson6
  <2>4. DeliveryKept(6, json, k, row)
    BY <2>3
  <2> HIDE DEF row, o
  <2>5. Inserted(d, row, e)
    BY <1>5 DEF added, marked, Inserted
  <2> HIDE DEF added, marked
  <2>6. k \in DOMAIN e.deliveries
    BY <2>3, <2>5, DeliveryAdded
  <2>7. SerializeDeliveryResponse6(GetDeliveryById6(e, k)[1]) = ShownDelivery(6, e, k)
    BY <2>6 DEF GetDeliveryById6, ById, ShownDelivery, SerializeDeliveryResponse6, DeliveryDto6, DeliveryDto4,
           MapBsonToDelivery6
  <2>8. o = Refused(e, 422) \/ o = ReadBack(e, fault, ShownDelivery(6, e, k))
    BY <2>1, <2>7
  <2>9. /\ \A status : status # 201 => DeliveryOutcome(6, json, d, Refused(e, status))
        /\ DeliveryOutcome(6, json, d, ReadBack(e, fault, ShownDelivery(6, e, k)))
    BY <2>3, <2>4, <2>5, DeliveryMade
  <2> QED
    BY <2>8, <2>9
<1> QED
  BY <1>2, <1>3, <1>4, <1>5

\* What POST /deliveries does in any generation that has it here.
LEMMA PostDeliveryOutcome ==
  ASSUME NEW g \in {2, 3, 4, 6}, NEW d, Good(d, g), NEW json, NEW fault
  PROVE  DeliveryOutcome(g, json, d, PostDelivery(g, d, json, fault))
<1>1. CASE g = 2
  BY <1>1, CreateDelivery2Outcome DEF PostDelivery
<1>2. CASE g = 3
  BY <1>2, CreateDelivery3Outcome DEF PostDelivery
<1>3. CASE g = 4
  BY <1>3, CreateDelivery4Outcome DEF PostDelivery
<1>4. CASE g = 6
  BY <1>4, CreateDelivery6Outcome DEF PostDelivery
<1> QED
  BY <1>1, <1>2, <1>3, <1>4

\* The row of an account: lr-2 keeps the password, the others its hash.
Secret(g, password) == IF g = 2 THEN password ELSE HashPassword(password)

StoredUser(g, json) ==
  LET dto == ParseUserRequest2(json)[1] IN UserRow(dto, Secret(g, dto.password))

\* A request for an account makes its row, with a login nobody had, and is then
\* answered with the row's number if its answers come; or it makes no row and is
\* not answered 201.
UserOutcome(g, d, json, o) ==
  /\ Good(o.db, g)
  /\ o.db.parcels = d.parcels /\ o.db.deliveries = d.deliveries
  /\ \/ o.db.users = d.users /\ o.result.status # 201
     \/ /\ o.db.users = Append(d.users, StoredUser(g, json))
        /\ ~Incomplete(ParseUserRequest2(json))
        /\ \A k \in DOMAIN d.users : d.users[k].login # json.login
        /\ o.result.status = 201 =>
             o.result.shown.id = Len(d.users) + 1

\* The fields of a user's row, and the id its answer shows.
LEMMA ParsedUser ==
  ASSUME NEW json, ParseUserRequest2(json) # <<>>
  PROVE  LET dto == ParseUserRequest2(json)[1]
         IN  /\ DOMAIN dto = {"login", "password", "name", "email"}
             /\ {"login", "password", "name", "email"} \subseteq DOMAIN json
             /\ \A f \in {"login", "password", "name", "email"} : dto[f] = json[f] /\ json[f] # Null
<1> DEFINE parsed == ParseUserRequest2(json)
           dto == parsed[1]
           fields == {"login", "password", "name", "email"}
<1>1. parsed = Parse(json, fields, {})
  BY DEF ParseUserRequest2
<1>2. /\ DOMAIN dto = fields \cup {} /\ fields \subseteq DOMAIN json
      /\ \A f \in fields : dto[f] = json[f]
      /\ \A f \in (fields \cup {}) \cap DOMAIN json : json[f] # Null
  BY <1>1, Parsed
<1> HIDE DEF dto
<1>3. DOMAIN dto = fields /\ \A f \in fields : json[f] # Null
  BY <1>2
<1> QED
  BY <1>2, <1>3 DEF dto

\* The row of a user has the members of its body, the password in its stored form.
LEMMA StoredFields ==
  ASSUME NEW g, NEW json, ParseUserRequest2(json) # <<>>
  PROVE  /\ DOMAIN StoredUser(g, json) = {"login", "password", "name", "email"}
         /\ StoredUser(g, json).login = json.login
         /\ StoredUser(g, json).name = json.name
         /\ StoredUser(g, json).email = json.email
         /\ StoredUser(g, json).password = Secret(g, json.password)
<1> DEFINE dto == ParseUserRequest2(json)[1]
<1>1. /\ DOMAIN dto = {"login", "password", "name", "email"}
      /\ \A f \in {"login", "password", "name", "email"} : dto[f] = json[f]
  BY ParsedUser
<1>2. StoredUser(g, json) = [dto EXCEPT !.password = Secret(g, dto.password)]
  BY DEF StoredUser, UserRow
<1> HIDE DEF dto
<1> QED
  BY <1>1, <1>2

LEMMA ShownId ==
  ASSUME NEW row, NEW k \in Nat
  PROVE  SerializeUserResponse2(With(row, "id", k)).id = k
<1> DEFINE user == With(row, "id", k)
<1>1. user.id = k
  BY DEF With
<1> HIDE DEF user
<1>2. SerializeUserResponse2(user).id = k
  BY <1>1, ValuesAssumption DEF SerializeUserResponse2, Serialize
<1> QED
  BY <1>2 DEF user

\* A refusal changes nothing.
LEMMA UserRefused ==
  ASSUME NEW g, NEW d, Good(d, g), NEW json, NEW status, status # 201
  PROVE  UserOutcome(g, d, json, Refused(d, status))
BY DEF UserOutcome, Refused, Outcome, Error, Answer

\* The row is added; the answer is lost, cannot be read back, or shows the row.
LEMMA UserMade ==
  ASSUME NEW g, NEW d, Good(d, g), NEW json, ~Incomplete(ParseUserRequest2(json)),
         \A k \in DOMAIN d.users : d.users[k].login # json.login,
         NEW o, o.db = [d EXCEPT !.users = Append(@, StoredUser(g, json))],
         o.result.status = 201 => o.result.shown.id = Len(d.users) + 1
  PROVE  UserOutcome(g, d, json, o)
<1> DEFINE row == StoredUser(g, json)
           e == [d EXCEPT !.users = Append(@, row)]
<1> HIDE DEF row
<1>1. /\ Good(e, g) /\ e.users = Append(d.users, row)
      /\ e.parcels = d.parcels /\ e.deliveries = d.deliveries
  BY AddUserGood
<1>2. o.db = e
  BY DEF row
<1> HIDE DEF e
<1> QED
  BY <1>1, <1>2 DEF UserOutcome, row

\* What POST /users does, and that 409 has its reason.
LEMMA CreateUser2Outcome ==
  ASSUME NEW d, Good(d, 2), NEW json
  PROVE  /\ UserOutcome(2, d, json, CreateUserHandler2(d, json))
         /\ CreateUserHandler2(d, json).result.status = 409 =>
              /\ ~Incomplete(ParseUserRequest2(json))
              /\ \E k \in DOMAIN d.users : d.users[k].login = json.login
<1> DEFINE parsed == ParseUserRequest2(json)
           dto == parsed[1]
           step == CreateUser2(d, dto)
           o == CreateUserHandler2(d, json)
           e == [d EXCEPT !.users = Append(@, dto)]
           shown == SerializeUserResponse2(GetUserById2(e, Len(d.users) + 1)[1])
<1>1. Len(d.users) \in Nat /\ UniqueViolation = -1
  BY TableLen DEF Good, UniqueViolation
<1>2. ~Incomplete(parsed) => dto.login = json.login /\ dto = StoredUser(2, json)
  <2>1. ~Incomplete(parsed) => dto.login = json.login /\ DOMAIN dto = {"login", "password", "name", "email"}
                               /\ dto = [f \in DOMAIN dto |-> dto[f]]
    <3>1. parsed # <<>> => dto = [f \in DOMAIN dto |-> dto[f]]
      BY DEF ParseUserRequest2, Parse
    <3> QED
      BY <3>1, ParsedUser DEF Incomplete
  <2>2. StoredUser(2, json) = [dto EXCEPT !.password = dto.password]
    BY DEF StoredUser, UserRow, Secret
  <2> HIDE DEF parsed, dto
  <2> QED
    BY <2>1, <2>2
<1>3. CASE Incomplete(parsed) \/ \E k \in DOMAIN d.users : d.users[k].login = dto.login
  <2>1. \/ Incomplete(parsed) /\ o = Refused(d, 400)
        \/ ~Incomplete(parsed) /\ o = Refused(d, 409)
    <3> HIDE DEF dto
    <3> QED
      BY <1>3 DEF CreateUserHandler2, CreateUser2, Outcome, dto
  <2>2. UserOutcome(2, d, json, o)
    BY <2>1, UserRefused
  <2>3. o.result.status = 409 => ~Incomplete(parsed)
    <3> HIDE DEF o, parsed
    <3> QED
      BY <2>1 DEF Refused, Outcome, Error, Answer
  <2> HIDE DEF o, dto
  <2> QED
    BY <1>2, <1>3, <2>2, <2>3 DEF o
<1>4. CASE ~Incomplete(parsed) /\ \A k \in DOMAIN d.users : d.users[k].login # dto.login
  <2>1. step.db = e /\ step.result = Len(d.users) + 1
    <3> HIDE DEF dto
    <3> QED
      BY <1>4 DEF CreateUser2, Outcome
  <2>2. o = ReadBack(e, "none", shown)
    <3> HIDE DEF dto, e
    <3> QED
      BY <1>1, <1>4, <2>1 DEF CreateUserHandler2, dto, step
  <2>3. shown.id = Len(d.users) + 1
    <3>1. e.users = Append(d.users, dto) /\ DOMAIN e.users = 1 .. Len(d.users) + 1
      BY TableAppend DEF Good
    <3>2. GetUserById2(e, Len(d.users) + 1) = <<With(e.users[Len(d.users) + 1], "id", Len(d.users) + 1)>>
      BY <1>1, <3>1 DEF GetUserById2, UserDto2, ById
    <3> HIDE DEF e, dto
    <3> QED
      BY <1>1, <3>2, ShownId
  <2>4. o.db = e /\ o.result.shown = shown /\ o.result.status = 201
    <3> HIDE DEF e, shown, o
    <3> QED
      BY <2>2 DEF ReadBack, Outcome, Answer
  <2>5. o.db = [d EXCEPT !.users = Append(@, StoredUser(2, json))]
    BY <1>2, <1>4, <2>4
  <2> HIDE DEF o, dto, shown
  <2>6. /\ o.result.status = 201 => o.result.shown.id = Len(d.users) + 1
        /\ \A k \in DOMAIN d.users : d.users[k].login # json.login
    BY <1>2, <1>4, <2>3, <2>4
  <2>7. UserOutcome(2, d, json, o)
    BY <1>4, <2>5, <2>6, UserMade
  <2> QED
    BY <2>4, <2>7 DEF o
<1> QED
  BY <1>3, <1>4

\* The three generations with users in PostgreSQL run the same handler.
LEMMA CreateUser3Outcome ==
  ASSUME NEW g \in {3, 5, 6}, NEW d, Good(d, g), NEW json, NEW fault
  PROVE  /\ UserOutcome(g, d, json, CreateUserHandler3(d, json, fault))
         /\ CreateUserHandler3(d, json, fault).result.status = 409 =>
              /\ ~Incomplete(ParseUserRequest2(json))
              /\ \E k \in DOMAIN d.users : \/ d.users[k].login = json.login
                                           \/ d.users[k].email = json.email
<1> DEFINE parsed == ParseUserRequest2(json)
           dto == parsed[1]
           row == StoredUser(g, json)
           step == RegisterUser3(d, dto, HashPassword(dto.password), fault)
           o == CreateUserHandler3(d, json, fault)
           e == [d EXCEPT !.users = Append(@, row)]
           shown == SerializeUserResponse3(GetUserById3(e, Len(d.users) + 1)[1])
<1>1. /\ Len(d.users) \in Nat
      /\ Len(d.users) + 1 \notin {UniqueViolation, ConstraintViolation}
  BY TableLen DEF Good, UniqueViolation, ConstraintViolation
<1>2. \/ /\ step.db = d
         /\ step.result \in {OtherException, UniqueViolation, ConstraintViolation}
         /\ step.result = UniqueViolation =>
              \E k \in DOMAIN d.users : \/ d.users[k].login = dto.login
                                        \/ d.users[k].email = dto.email
      \/ /\ step.db = e
         /\ step.result \in {OtherException, Len(d.users) + 1}
         /\ \A k \in DOMAIN d.users : d.users[k].login # dto.login
  <2>1. row = UserRow(dto, HashPassword(dto.password))
    BY DEF StoredUser, Secret
  <2> HIDE DEF dto, row
  <2> QED
    BY <2>1 DEF RegisterUser3, Made, Outcome, step, UniqueViolation, OtherException,
                ConstraintViolation
<1>3. ~Incomplete(parsed) => dto.login = json.login /\ dto.email = json.email
  BY ParsedUser DEF Incomplete
<1>4. CASE Incomplete(parsed) \/ step.db = d
  <2>1. \E status \in {400, 500, 409, 422} :
          /\ o = Refused(d, status)
          /\ status = 409 => ~Incomplete(parsed) /\ step.result = UniqueViolation /\ step.db = d
    <3>1. CASE Incomplete(parsed)
      BY <3>1 DEF CreateUserHandler3, ParseUserRequest3
    <3>2. CASE /\ ~Incomplete(parsed) /\ step.db = d
               /\ step.result \in {OtherException, UniqueViolation, ConstraintViolation}
      <4> HIDE DEF dto
      <4> QED
        BY <3>2 DEF CreateUserHandler3, ParseUserRequest3, dto
    <3>3. CASE step.db = d /\ step.db = e
      <4>1. e.users = Append(d.users, row) /\ Len(Append(d.users, row)) = Len(d.users) + 1
        BY TableAppend DEF Good
      <4> HIDE DEF e, step
      <4> QED
        BY <1>1, <3>3, <4>1
    <3> QED
      BY <1>2, <1>4, <3>1, <3>2, <3>3
  <2> HIDE DEF o
  <2>2. UserOutcome(g, d, json, o)
    BY <2>1, UserRefused
  <2> HIDE DEF parsed, step
  <2>3. o.result.status = 409 => ~Incomplete(parsed) /\ step.result = UniqueViolation /\ step.db = d
    BY <2>1 DEF Refused, Outcome, Error, Answer
  <2>4. d # e
    <3>1. e.users = Append(d.users, row) /\ Len(Append(d.users, row)) = Len(d.users) + 1
      BY TableAppend DEF Good
    <3> HIDE DEF e
    <3> QED
      BY <1>1, <3>1
  <2> HIDE DEF e, dto
  <2>5. o.result.status = 409 =>
          /\ ~Incomplete(parsed)
          /\ \E k \in DOMAIN d.users : \/ d.users[k].login = json.login
                                       \/ d.users[k].email = json.email
    BY <1>2, <1>3, <2>3, <2>4
  <2> QED
    BY <2>2, <2>5 DEF o, parsed
<1>5. CASE /\ ~Incomplete(parsed) /\ step.db = e
           /\ step.result \in {OtherException, Len(d.users) + 1}
           /\ \A k \in DOMAIN d.users : d.users[k].login # dto.login
  <2>1. o = Refused(e, 500) \/ o = ReadBack(e, fault, shown)
    <3> HIDE DEF dto, e, step
    <3> QED
      BY <1>1, <1>5 DEF CreateUserHandler3, ParseUserRequest3, dto, step
  <2>2. shown.id = Len(d.users) + 1
    <3>1. e.users = Append(d.users, row) /\ DOMAIN e.users = 1 .. Len(d.users) + 1
      BY TableAppend DEF Good
    <3>2. GetUserById3(e, Len(d.users) + 1) = <<With(e.users[Len(d.users) + 1], "id", Len(d.users) + 1)>>
      <4> HIDE DEF row
      <4> QED
        BY <1>1, <3>1 DEF GetUserById3, UserDto3, ById
    <3> HIDE DEF e, dto
    <3> QED
      BY <1>1, <3>2, ShownId DEF SerializeUserResponse3
  <2>3. /\ o.db = e /\ o.result.status # 409
        /\ o.result.status = 201 => o.result.shown = shown
    <3> HIDE DEF e, shown, o
    <3> QED
      BY <2>1 DEF ReadBack, Refused, Outcome, Answer, Error
  <2> HIDE DEF o, shown, dto
  <2>4. /\ o.result.status = 201 => o.result.shown.id = Len(d.users) + 1
        /\ \A k \in DOMAIN d.users : d.users[k].login # json.login
    BY <1>3, <1>5, <2>2, <2>3
  <2>5. o.db = [d EXCEPT !.users = Append(@, StoredUser(g, json))]
    BY <2>3
  <2>6. UserOutcome(g, d, json, o)
    BY <1>5, <2>4, <2>5, UserMade
  <2> QED
    BY <2>3, <2>6 DEF o
<1> QED
  BY <1>2, <1>4, <1>5

LEMMA PostUserOutcome ==
  ASSUME NEW g \in {2, 3, 5, 6}, NEW d, Good(d, g), NEW json, NEW fault
  PROVE  /\ UserOutcome(g, d, json, PostUser(g, d, json, fault))
         /\ PostUser(g, d, json, fault).result.status = 409 =>
              /\ ~Incomplete(ParseUserRequest2(json))
              /\ \E k \in DOMAIN d.users : \/ d.users[k].login = json.login
                                           \/ d.users[k].email = json.email
<1>1. /\ CreateUserHandler5(d, json, fault) = CreateUserHandler3(d, json, fault)
      /\ CreateUserHandler6(d, json, fault) = CreateUserHandler3(d, json, fault)
  BY DEF CreateUserHandler3, CreateUserHandler5, CreateUserHandler6,
         ParseUserRequest3, ParseUserRequest5, ParseUserRequest6,
         RegisterUser5, RegisterUser6, GetUserById5, GetUserById6,
         SerializeUserResponse3, SerializeUserResponse5, SerializeUserResponse6
<1>2. CASE g = 2
  BY <1>2, CreateUser2Outcome DEF PostUser
<1>3. CASE g \in {3, 5, 6}
  <2>1. PostUser(g, d, json, fault) = CreateUserHandler3(d, json, fault)
    BY <1>1, <1>3 DEF PostUser
  <2> QED
    BY <1>3, <2>1, CreateUser3Outcome
<1> QED
  BY <1>2, <1>3

\* lr-4's counters go up with every request that is answered.
LEMMA CreateUser4Outcome ==
  ASSUME NEW next \in Nat, NEW json
  PROVE  LET o == CreateUserHandler4(next, json)
         IN  \/ o.next = next /\ o.result.status # 201
             \/ o.next = next + 1 /\ o.result.shown.id = next
<1> DEFINE parsed == ParseUserRequest4(json)
           dto == parsed[1]
<1>1. SerializeUserResponse4(With(dto, "id", next)).id = next
  BY ShownId DEF SerializeUserResponse4
<1> HIDE DEF dto
<1> QED
  BY <1>1 DEF CreateUserHandler4, Error, Answer, dto

\* lr-4 gives a login the next number of its counter.
LEMMA Login4Outcome ==
  ASSUME NEW next \in Nat, NEW json
  PROVE  LET o == LoginHandler4(next, json)
         IN  \/ o.next = next /\ o.result.status # 200
             \/ o.next = next + 1 /\ o.result.shown.user_id = next
<1> DEFINE login == ParseLoginRequest(json)[1].login
           auth == [user_id |-> next, login |-> login]
<1>1. SerializeAuthResponse(auth).user_id = next
  <2>1. auth.user_id = next
    OBVIOUS
  <2> HIDE DEF auth
  <2> QED
    BY <2>1, ValuesAssumption DEF SerializeAuthResponse, Serialize
<1> HIDE DEF login
<1> QED
  BY <1>1 DEF LoginHandler4, Error, Answer, login

-----------------------------------------------------------------------------
(* What GET answers.                                                       *)

\* The rows with a value in a field.
Having(rows, f, v) == {k \in DOMAIN rows : rows[k][f] = v}

ParcelsPage(g, e, page) ==
  Answer(200, [i \in DOMAIN page |-> ShownParcel(g, page[i], e.parcels[page[i]])])

\* GET /parcels shows a page of the sender's parcels, if the bounds allow it.
LEMMA ParcelsAnswer2 ==
  ASSUME NEW e, NEW q, "user_id" \in DOMAIN q, q.user_id \in Nat
  PROVE  GetParcelsHandler2(e, q) =
           ParcelsPage(2, e, PageOf(2, e, Having(e.parcels, "sender_id", q.user_id), q))
<1> DEFINE page == PageOf(2, e, Having(e.parcels, "sender_id", q.user_id), q)
           rows == GetUserParcels2(e, q.user_id)
<1>1. Arg(q, "user_id") # Junk
  BY NumberIsNotJunk DEF Arg
<1>2. Where(e.parcels, LAMBDA p : p.sender_id = q.user_id) = page
  BY DEF Where, PageOf, Having
<1>3. rows = [i \in DOMAIN page |-> With(e.parcels[page[i]], "id", page[i])]
  BY <1>2 DEF GetUserParcels2, Show, ParcelDto2
<1> HIDE DEF page, rows
<1>4. GetParcelsHandler2(e, q) =
        Answer(200, [i \in DOMAIN rows |-> SerializeParcelResponse2(rows[i])])
  BY <1>1 DEF GetParcelsHandler2, Each, Answer, rows
<1>5. [i \in DOMAIN rows |-> SerializeParcelResponse2(rows[i])] =
      [i \in DOMAIN page |-> ShownParcel(2, page[i], e.parcels[page[i]])]
  BY <1>3 DEF ShownParcel
<1> QED
  BY <1>4, <1>5 DEF ParcelsPage, page

LEMMA ParcelsAnswer3 ==
  ASSUME NEW e, NEW q, Bounded(q), "user_id" \in DOMAIN q, q.user_id \in Nat
  PROVE  LET page == PageOf(3, e, Having(e.parcels, "sender_id", q.user_id), q)
             answer == GetParcelsHandler3(e, q)
         IN  IF q.from <= q.to /\ \A i \in DOMAIN page : e.parcels[page[i]].description # Nothing
             THEN answer = ParcelsPage(3, e, page) ELSE answer = Error(400)
<1> DEFINE page == PageOf(3, e, Having(e.parcels, "sender_id", q.user_id), q)
           b == [from |-> q.from, to |-> q.to]
           rows == [i \in DOMAIN page |-> With(e.parcels[page[i]], "id", page[i])]
           result == GetUserParcels3(e, q.user_id, b)
           broken == \E k \in DOMAIN page : e.parcels[page[k]].description = Nothing
<1>1. Arg(q, "user_id") # Junk
  BY NumberIsNotJunk DEF Arg
<1>2. Window(Reverse(Where(e.parcels, LAMBDA p : p.sender_id = q.user_id)), b) = page
  BY BoundsAreValid DEF Where, PageOf, Having, Ordered
<1>3. result = IF broken THEN <<>> ELSE <<rows>>
  BY <1>2 DEF GetUserParcels3, Show, ParcelDto3
<1>4. RequiredBounds(q) = b /\ (ValidBounds(b) <=> q.from <= q.to)
  BY BoundsAreValid
<1> HIDE DEF page, result, broken, b
<1>5. [i \in DOMAIN rows |-> SerializeParcelResponse3(rows[i])] =
      [i \in DOMAIN page |-> ShownParcel(3, page[i], e.parcels[page[i]])]
  BY DEF ShownParcel, SerializeParcelResponse3, SerializeParcelResponse2
<1> HIDE DEF rows
<1>6. /\ Each(Returned(<<>>, 400), SerializeParcelResponse3) = Error(400)
      /\ Each(Returned(<<rows>>, 400), SerializeParcelResponse3) =
           Answer(200, [i \in DOMAIN rows |-> SerializeParcelResponse3(rows[i])])
  BY DEF Each, Returned, Answer, Error
<1>7. GetParcelsHandler3(e, q) =
        IF ~(q.from <= q.to) THEN Error(400)
        ELSE Each(Returned(result, 400), SerializeParcelResponse3)
  BY <1>1, <1>4 DEF GetParcelsHandler3, result
<1>8. GetParcelsHandler3(e, q) =
        IF ~(q.from <= q.to) \/ broken THEN Error(400) ELSE ParcelsPage(3, e, page)
  BY <1>3, <1>5, <1>6, <1>7 DEF ParcelsPage
<1> QED
  BY <1>8 DEF page, broken

\* A list of lr-4 to lr-6, of what a vector can be reserved for.
Reserved(q) == q.from <= q.to /\ q.to - q.from + 1 <= MaxReserve

LEMMA ParcelsAnswer4 ==
  ASSUME NEW e, NEW q, Bounded(q), "user_id" \in DOMAIN q, q.user_id \in Nat
  PROVE  LET page == PageOf(4, e, Having(e.parcels, "sender_id", q.user_id), q)
             answer == GetParcelsHandler4(e, q)
         IN  IF Reserved(q) THEN answer = ParcelsPage(4, e, page) ELSE answer = Error(400)
<1> DEFINE page == PageOf(4, e, Having(e.parcels, "sender_id", q.user_id), q)
           b == [from |-> q.from, to |-> q.to]
           rows == [i \in DOMAIN page |-> MapBsonToParcel4(page[i], e.parcels[page[i]])]
           result == GetParcelsBySender4(e, q.user_id, b)
<1>1. q.user_id # Junk
  BY NumberIsNotJunk
<1>2. Window(InPlan(e, Where(e.parcels, LAMBDA p : p.sender_id = q.user_id)), b) = page
  BY BoundsAreValid DEF Where, PageOf, Having, Ordered
<1>3. result = IF q.to - q.from + 1 > MaxReserve THEN <<>> ELSE <<rows>>
  BY <1>2 DEF GetParcelsBySender4, Find, Show, ParcelDto4
<1>4. RequiredBounds(q) = b /\ (ValidBounds(b) <=> q.from <= q.to)
  BY BoundsAreValid
<1>9. (q.to - q.from + 1 > MaxReserve) <=> ~(q.to - q.from + 1 <= MaxReserve)
  BY DEF Bounded
<1> HIDE DEF page, result, b
<1>5. [i \in DOMAIN rows |-> SerializeParcelResponse4(rows[i])] =
      [i \in DOMAIN page |-> ShownParcel(4, page[i], e.parcels[page[i]])]
  BY DEF ShownParcel
<1> HIDE DEF rows
<1>6. /\ Each(Returned(<<>>, 400), SerializeParcelResponse4) = Error(400)
      /\ Each(Returned(<<rows>>, 400), SerializeParcelResponse4) =
           Answer(200, [i \in DOMAIN rows |-> SerializeParcelResponse4(rows[i])])
  BY DEF Each, Returned, Answer, Error
<1>7. GetParcelsHandler4(e, q) =
        IF ~(q.from <= q.to) THEN Error(400)
        ELSE Each(Returned(result, 400), SerializeParcelResponse4)
  BY <1>1, <1>4 DEF GetParcelsHandler4, result
<1>8. GetParcelsHandler4(e, q) = IF Reserved(q) THEN ParcelsPage(4, e, page) ELSE Error(400)
  BY <1>3, <1>5, <1>6, <1>7, <1>9 DEF ParcelsPage, Reserved
<1> QED
  BY <1>8 DEF page

LEMMA ParcelsAnswer6 ==
  ASSUME NEW g \in {5, 6}, NEW e, NEW q, Bounded(q), "user_id" \in DOMAIN q, q.user_id \in Nat
  PROVE  LET page == PageOf(g, e, Having(e.parcels, "sender_id", q.user_id), q)
             answer == GetParcelsHandler6(e, q)
         IN  IF Reserved(q) THEN answer = ParcelsPage(g, e, page) ELSE answer = Error(400)
<1> DEFINE page == PageOf(g, e, Having(e.parcels, "sender_id", q.user_id), q)
           b == [from |-> q.from, to |-> q.to]
           rows == [i \in DOMAIN page |-> MapBsonToParcel6(page[i], e.parcels[page[i]])]
           result == GetParcelsBySender6(e, q.user_id, b)
<1>1. Arg(q, "user_id") # Junk
  BY NumberIsNotJunk DEF Arg
<1>2. Window(InPlan(e, Where(e.parcels, LAMBDA p : p.sender_id = q.user_id)), b) = page
  BY BoundsAreValid DEF Where, PageOf, Having, Ordered
<1>3. result = IF q.to - q.from + 1 > MaxReserve THEN <<>> ELSE <<rows>>
  BY <1>2 DEF GetParcelsBySender6, Find, Show, ParcelDto6
<1>4. RequiredBounds(q) = b /\ (ValidBounds(b) <=> q.from <= q.to)
  BY BoundsAreValid
<1>9. (q.to - q.from + 1 > MaxReserve) <=> ~(q.to - q.from + 1 <= MaxReserve)
  BY DEF Bounded
<1> HIDE DEF page, result, b
<1>5. [i \in DOMAIN rows |-> SerializeParcelResponse6(rows[i])] =
      [i \in DOMAIN page |-> ShownParcel(g, page[i], e.parcels[page[i]])]
  BY DEF ShownParcel
<1> HIDE DEF rows
<1>6. /\ Each(Returned(<<>>, 400), SerializeParcelResponse6) = Error(400)
      /\ Each(Returned(<<rows>>, 400), SerializeParcelResponse6) =
           Answer(200, [i \in DOMAIN rows |-> SerializeParcelResponse6(rows[i])])
  BY DEF Each, Returned, Answer, Error
<1>7. GetParcelsHandler6(e, q) =
        IF ~(q.from <= q.to) THEN Error(400)
        ELSE Each(Returned(result, 400), SerializeParcelResponse6)
  BY <1>1, <1>4 DEF GetParcelsHandler6, result
<1>8. GetParcelsHandler6(e, q) = IF Reserved(q) THEN ParcelsPage(g, e, page) ELSE Error(400)
  BY <1>3, <1>5, <1>6, <1>7, <1>9 DEF ParcelsPage, Reserved
<1> QED
  BY <1>8 DEF page

LEMMA ParcelsAnswer ==
  ASSUME NEW g \in 2 .. 6, NEW e, NEW q, Bounded(q), "user_id" \in DOMAIN q, q.user_id \in Nat
  PROVE  LET page == PageOf(g, e, Having(e.parcels, "sender_id", q.user_id), q)
             answer == GetParcels(g, e, q)
         IN  /\ answer = ParcelsPage(g, e, page) \/ answer = Error(400)
             /\ \/ g = 2
                \/ /\ g = 3 /\ q.from <= q.to
                   /\ \A i \in DOMAIN page : e.parcels[page[i]].description # Nothing
                \/ g > 3 /\ Reserved(q)
                => answer = ParcelsPage(g, e, page)
<1> DEFINE page == PageOf(g, e, Having(e.parcels, "sender_id", q.user_id), q)
<1>1. CASE g = 2
  BY <1>1, ParcelsAnswer2 DEF GetParcels
<1>2. CASE g = 3
  BY <1>2, ParcelsAnswer3 DEF GetParcels
<1>3. CASE g = 4
  BY <1>3, ParcelsAnswer4 DEF GetParcels
<1>4. CASE g \in {5, 6}
  BY <1>4, ParcelsAnswer6 DEF GetParcels
<1> QED
  BY <1>1, <1>2, <1>3, <1>4

\* lr-4 searches for a status too.
LEMMA ParcelsOfStatus ==
  ASSUME NEW e, NEW q, Bounded(q), DOMAIN q = {"from", "to", "status"}, Reserved(q)
  PROVE  GetParcels(4, e, q) =
           ParcelsPage(4, e, PageOf(4, e, Having(e.parcels, "status", q.status), q))
<1> DEFINE page == PageOf(4, e, Having(e.parcels, "status", q.status), q)
           b == [from |-> q.from, to |-> q.to]
           rows == [i \in DOMAIN page |-> MapBsonToParcel4(page[i], e.parcels[page[i]])]
           result == GetParcelsByStatus4(e, q.status, b)
<1>1. Window(InPlan(e, Where(e.parcels, LAMBDA p : p.status = q.status)), b) = page
  BY BoundsAreValid DEF Where, PageOf, Having, Ordered
<1>2. ~(q.to - q.from + 1 > MaxReserve)
  BY DEF Bounded, Reserved
<1>3. result = <<rows>>
  BY <1>1, <1>2 DEF GetParcelsByStatus4, Find, Show, ParcelDto4
<1>4. RequiredBounds(q) = b /\ ValidBounds(b)
  BY BoundsAreValid DEF Reserved
<1> HIDE DEF page, result, b
<1>5. [i \in DOMAIN rows |-> SerializeParcelResponse4(rows[i])] =
      [i \in DOMAIN page |-> ShownParcel(4, page[i], e.parcels[page[i]])]
  BY DEF ShownParcel
<1> HIDE DEF rows
<1>6. Each(Returned(<<rows>>, 500), SerializeParcelResponse4) =
        Answer(200, [i \in DOMAIN rows |-> SerializeParcelResponse4(rows[i])])
  BY DEF Each, Returned, Answer
<1>7. GetParcelsHandler4(e, q) = Each(Returned(result, 500), SerializeParcelResponse4)
  BY <1>4 DEF GetParcelsHandler4, result
<1>8. GetParcels(4, e, q) = GetParcelsHandler4(e, q)
  BY DEF GetParcels
<1>9. GetParcels(4, e, q) = ParcelsPage(4, e, page)
  BY <1>3, <1>5, <1>6, <1>7, <1>8 DEF ParcelsPage
<1> QED
  BY <1>9 DEF page

DeliveriesPage(g, e, page) == Answer(200, [i \in DOMAIN page |-> ShownDelivery(g, e, page[i])])

\* The deliveries of a user: lr-2 goes by the sender of the parcel.
DeliveriesOf(g, e, by, v) ==
  IF g = 2 /\ by = "sender_id"
  THEN {k \in DOMAIN e.deliveries : /\ e.deliveries[k].parcel_id \in DOMAIN e.parcels
                                    /\ SenderOf2(e, e.deliveries[k]) = v}
  ELSE Having(e.deliveries, by, v)

\* GET /deliveries shows a page of what has the sender, receiver or status.
LEMMA DeliveriesAnswer2 ==
  ASSUME NEW e, NEW by \in {"sender_id", "receiver_id"}, NEW q,
         DOMAIN q = {"from", "to", by}, q[by] \in Nat
  PROVE  GetDeliveriesHandler2(e, q) =
           DeliveriesPage(2, e, PageOf(2, e, DeliveriesOf(2, e, by, q[by]), q))
<1> DEFINE page == PageOf(2, e, DeliveriesOf(2, e, by, q[by]), q)
           rows == [i \in DOMAIN page |-> DeliveryDto2(e, page[i])]
<1>1. /\ by = "sender_id" => q.sender_id # Junk
      /\ by = "receiver_id" => Arg(q, "receiver_id") # Junk
  BY NumberIsNotJunk DEF Arg
<1>2. ASSUME by = "sender_id" PROVE GetDeliveriesBySender2(e, q.sender_id) = rows
  <2>1. Where(e.deliveries, LAMBDA d : /\ d.parcel_id \in DOMAIN e.parcels
                                       /\ SenderOf2(e, d) = q.sender_id) = page
    BY <1>2 DEF Where, PageOf, DeliveriesOf
  <2> QED
    BY <2>1 DEF GetDeliveriesBySender2, Show
<1>3. ASSUME by = "receiver_id" PROVE GetDeliveriesByReceiver2(e, q.receiver_id) = rows
  <2>1. Where(e.deliveries, LAMBDA d : d.receiver_id = q.receiver_id) = page
    BY <1>3 DEF Where, PageOf, DeliveriesOf, Having
  <2> QED
    BY <2>1 DEF GetDeliveriesByReceiver2, Show
<1> HIDE DEF page
<1>4. [i \in DOMAIN rows |-> SerializeDeliveryResponse2(rows[i])] =
      [i \in DOMAIN page |-> ShownDelivery(2, e, page[i])]
  BY DEF ShownDelivery
<1> HIDE DEF rows
<1>5. Each(Answer(200, rows), SerializeDeliveryResponse2) =
        Answer(200, [i \in DOMAIN rows |-> SerializeDeliveryResponse2(rows[i])])
  BY DEF Each, Answer
<1>6. GetDeliveriesHandler2(e, q) = Each(Answer(200, rows), SerializeDeliveryResponse2)
  BY <1>1, <1>2, <1>3 DEF GetDeliveriesHandler2
<1> QED
  BY <1>4, <1>5, <1>6 DEF DeliveriesPage, page

LEMMA DeliveriesAnswer3 ==
  ASSUME NEW e, NEW by \in {"sender_id", "receiver_id"}, NEW q,
         DOMAIN q = {"from", "to", by}, Bounded(q), q[by] \in Nat
  PROVE  LET page == PageOf(3, e, DeliveriesOf(3, e, by, q[by]), q)
             answer == GetDeliveriesHandler3(e, q)
         IN  IF q.from <= q.to THEN answer = DeliveriesPage(3, e, page) ELSE answer = Error(400)
<1> DEFINE page == PageOf(3, e, DeliveriesOf(3, e, by, q[by]), q)
           b == [from |-> q.from, to |-> q.to]
           rows == [i \in DOMAIN page |-> DeliveryDto3(e, page[i])]
<1>1. /\ by = "sender_id" => q.sender_id # Junk
      /\ by = "receiver_id" => Arg(q, "receiver_id") # Junk
  BY NumberIsNotJunk DEF Arg
<1>2. ASSUME by = "sender_id" PROVE GetDeliveriesBySender3(e, q.sender_id, b) = rows
  <2>1. Window(Reverse(Where(e.deliveries, LAMBDA d : d.sender_id = q.sender_id)), b) = page
    BY <1>2, BoundsAreValid DEF Where, PageOf, DeliveriesOf, Having, Ordered
  <2> QED
    BY <2>1 DEF GetDeliveriesBySender3, Show
<1>3. ASSUME by = "receiver_id" PROVE GetDeliveriesByReceiver3(e, q.receiver_id, b) = rows
  <2>1. Window(Reverse(Where(e.deliveries, LAMBDA d : d.receiver_id = q.receiver_id)), b) = page
    BY <1>3, BoundsAreValid DEF Where, PageOf, DeliveriesOf, Having, Ordered
  <2> QED
    BY <2>1 DEF GetDeliveriesByReceiver3, Show
<1>4. DefaultBounds(q) = b /\ (ValidBounds(b) <=> q.from <= q.to)
  BY BoundsAreValid
<1> HIDE DEF page, b
<1>5. [i \in DOMAIN rows |-> SerializeDeliveryResponse3(rows[i])] =
      [i \in DOMAIN page |-> ShownDelivery(3, e, page[i])]
  BY DEF ShownDelivery
<1> HIDE DEF rows
<1>6. Each(Answer(200, rows), SerializeDeliveryResponse3) =
        Answer(200, [i \in DOMAIN rows |-> SerializeDeliveryResponse3(rows[i])])
  BY DEF Each, Answer
<1>7. GetDeliveriesHandler3(e, q) =
        IF q.from <= q.to THEN Each(Answer(200, rows), SerializeDeliveryResponse3) ELSE Error(400)
  BY <1>1, <1>2, <1>3, <1>4 DEF GetDeliveriesHandler3
<1> QED
  BY <1>5, <1>6, <1>7 DEF DeliveriesPage, page

LEMMA DeliveriesAnswer4 ==
  ASSUME NEW e, NEW by \in {"sender_id", "receiver_id", "status"}, NEW q,
         DOMAIN q = {"from", "to", by}, Bounded(q), by # "status" => q[by] \in Nat
  PROVE  LET page == PageOf(4, e, DeliveriesOf(4, e, by, q[by]), q)
             answer == GetDeliveriesHandler4(e, q)
         IN  IF Reserved(q) THEN answer = DeliveriesPage(4, e, page)
             ELSE answer = Error(400) \/ (by = "status" /\ answer = Error(500))
<1> DEFINE page == PageOf(4, e, DeliveriesOf(4, e, by, q[by]), q)
           b == [from |-> q.from, to |-> q.to]
           rows == [i \in DOMAIN page |-> DeliveryDto4(e, page[i])]
           result == IF q.to - q.from + 1 > MaxReserve THEN <<>> ELSE <<rows>>
<1>1. /\ by = "sender_id" => q.sender_id # Junk
      /\ by = "receiver_id" => q.receiver_id # Junk /\ Arg(q, "receiver_id") # Junk
  BY NumberIsNotJunk DEF Arg
<1>2. ASSUME by = "sender_id" PROVE GetDeliveriesBySender4(e, q.sender_id, b) = result
  <2>1. Window(InPlan(e, Where(e.deliveries, LAMBDA d : d.sender_id = q.sender_id)), b) = page
    BY <1>2, BoundsAreValid DEF Where, PageOf, DeliveriesOf, Having, Ordered
  <2> QED
    BY <2>1 DEF GetDeliveriesBySender4, Find, Show
<1>3. ASSUME by = "receiver_id" PROVE GetDeliveriesByReceiver4(e, q.receiver_id, b) = result
  <2>1. Window(InPlan(e, Where(e.deliveries, LAMBDA d : d.receiver_id = q.receiver_id)), b) = page
    BY <1>3, BoundsAreValid DEF Where, PageOf, DeliveriesOf, Having, Ordered
  <2> QED
    BY <2>1 DEF GetDeliveriesByReceiver4, Find, Show
<1>4. ASSUME by = "status" PROVE GetDeliveriesByStatus4(e, q.status, b) = result
  <2>1. Window(InPlan(e, Where(e.deliveries, LAMBDA d : d.status = q.status)), b) = page
    BY <1>4, BoundsAreValid DEF Where, PageOf, DeliveriesOf, Having, Ordered
  <2> QED
    BY <2>1 DEF GetDeliveriesByStatus4, Find, Show
<1>5. DefaultBounds(q) = b /\ (ValidBounds(b) <=> q.from <= q.to)
  BY BoundsAreValid
<1>6. (q.to - q.from + 1 > MaxReserve) <=> ~(q.to - q.from + 1 <= MaxReserve)
  BY DEF Bounded
<1> HIDE DEF page, b
<1>7. [i \in DOMAIN rows |-> SerializeDeliveryResponse4(rows[i])] =
      [i \in DOMAIN page |-> ShownDelivery(4, e, page[i])]
  BY DEF ShownDelivery
<1> HIDE DEF rows
<1>8. /\ Each(Returned(<<>>, 400), SerializeDeliveryResponse4) = Error(400)
      /\ Each(Returned(<<>>, 500), SerializeDeliveryResponse4) = Error(500)
      /\ \A status : Each(Returned(<<rows>>, status), SerializeDeliveryResponse4) =
           Answer(200, [i \in DOMAIN rows |-> SerializeDeliveryResponse4(rows[i])])
  BY DEF Each, Returned, Answer, Error
<1> HIDE DEF result
<1>9. GetDeliveriesHandler4(e, q) =
        IF ~(q.from <= q.to) THEN Error(400)
        ELSE Each(Returned(result, IF by = "status" THEN 500 ELSE 400), SerializeDeliveryResponse4)
  BY <1>1, <1>2, <1>3, <1>4, <1>5 DEF GetDeliveriesHandler4, Each, Error, Answer
<1>10. GetDeliveriesHandler4(e, q) =
        IF Reserved(q) THEN DeliveriesPage(4, e, page)
        ELSE IF ~(q.from <= q.to) THEN Error(400) ELSE Error(IF by = "status" THEN 500 ELSE 400)
  BY <1>6, <1>7, <1>8, <1>9 DEF DeliveriesPage, Reserved, result
<1> QED
  BY <1>10 DEF page

LEMMA DeliveriesAnswer6 ==
  ASSUME NEW e, NEW by \in {"sender_id", "receiver_id"}, NEW q,
         DOMAIN q = {"from", "to", by}, Bounded(q), q[by] \in Nat
  PROVE  LET page == PageOf(6, e, DeliveriesOf(6, e, by, q[by]), q)
             answer == GetDeliveriesHandler6(e, q)
         IN  IF Reserved(q) THEN answer = DeliveriesPage(6, e, page)
             ELSE answer = Error(400)
<1> DEFINE page == PageOf(6, e, DeliveriesOf(6, e, by, q[by]), q)
           b == [from |-> q.from, to |-> q.to]
           rows == [i \in DOMAIN page |-> DeliveryDto6(e, page[i])]
           result == IF q.to - q.from + 1 > MaxReserve THEN <<>> ELSE <<rows>>
<1>1. /\ by = "sender_id" => q.sender_id # Junk
      /\ by = "receiver_id" => q.receiver_id # Junk /\ Arg(q, "receiver_id") # Junk
  BY NumberIsNotJunk DEF Arg
<1>2. ASSUME by = "sender_id" PROVE GetDeliveriesBySender6(e, q.sender_id, b) = result
  <2>1. Window(InPlan(e, Where(e.deliveries, LAMBDA d : d.sender_id = q.sender_id)), b) = page
    BY <1>2, BoundsAreValid DEF Where, PageOf, DeliveriesOf, Having, Ordered
  <2> QED
    BY <2>1 DEF GetDeliveriesBySender6, Find, Show
<1>3. ASSUME by = "receiver_id" PROVE GetDeliveriesByReceiver6(e, q.receiver_id, b) = result
  <2>1. Window(InPlan(e, Where(e.deliveries, LAMBDA d : d.receiver_id = q.receiver_id)), b) = page
    BY <1>3, BoundsAreValid DEF Where, PageOf, DeliveriesOf, Having, Ordered
  <2> QED
    BY <2>1 DEF GetDeliveriesByReceiver6, Find, Show
<1>4. DefaultBounds(q) = b /\ (ValidBounds(b) <=> q.from <= q.to)
  BY BoundsAreValid
<1>5. (q.to - q.from + 1 > MaxReserve) <=> ~(q.to - q.from + 1 <= MaxReserve)
  BY DEF Bounded
<1> HIDE DEF page, b
<1>6. [i \in DOMAIN rows |-> SerializeDeliveryResponse6(rows[i])] =
      [i \in DOMAIN page |-> ShownDelivery(6, e, page[i])]
  BY DEF ShownDelivery, SerializeDeliveryResponse6, DeliveryDto4, DeliveryDto6, MapBsonToDelivery6
<1> HIDE DEF rows
<1>7. /\ Each(Returned(<<>>, 400), SerializeDeliveryResponse6) = Error(400)
      /\ Each(Returned(<<>>, 500), SerializeDeliveryResponse6) = Error(500)
      /\ \A status : Each(Returned(<<rows>>, status), SerializeDeliveryResponse6) =
           Answer(200, [i \in DOMAIN rows |-> SerializeDeliveryResponse6(rows[i])])
  BY DEF Each, Returned, Answer, Error
<1> HIDE DEF result
<1>8. GetDeliveriesHandler6(e, q) =
        IF ~(q.from <= q.to) THEN Error(400)
        ELSE Each(Returned(result, 400), SerializeDeliveryResponse6)
  BY <1>1, <1>2, <1>3, <1>4 DEF GetDeliveriesHandler6, Each, Error, Answer
<1>9. GetDeliveriesHandler6(e, q) =
        IF Reserved(q) THEN DeliveriesPage(6, e, page)
        ELSE IF ~(q.from <= q.to) THEN Error(400) ELSE Error(400)
  BY <1>5, <1>6, <1>7, <1>8 DEF DeliveriesPage, Reserved, result
<1> QED
  BY <1>9 DEF page

LEMMA DeliveriesAnswer ==
  ASSUME NEW g \in {2, 3, 4, 6}, NEW e, NEW q, Bounded(q),
         NEW by \in {"sender_id", "receiver_id"} \cup (IF g = 4 THEN {"status"} ELSE {}),
         DOMAIN q = {"from", "to", by}, by # "status" => q[by] \in Nat
  PROVE  LET page == PageOf(g, e, DeliveriesOf(g, e, by, q[by]), q)
             answer == GetDeliveries(g, e, q)
         IN  /\ answer = DeliveriesPage(g, e, page) \/ answer = Error(400) \/ answer = Error(500)
             /\ g = 2 \/ (g = 3 /\ q.from <= q.to) \/ (g > 3 /\ Reserved(q)) =>
                  answer = DeliveriesPage(g, e, page)
<1>1. CASE g = 2
  BY <1>1, DeliveriesAnswer2 DEF GetDeliveries
<1>2. CASE g = 3
  BY <1>2, DeliveriesAnswer3 DEF GetDeliveries
<1>3. CASE g = 4
  BY <1>3, DeliveriesAnswer4 DEF GetDeliveries
<1>4. CASE g = 6
  BY <1>4, DeliveriesAnswer6 DEF GetDeliveries
<1> QED
  BY <1>1, <1>2, <1>3, <1>4

-----------------------------------------------------------------------------
(* What is shown of a row.                                                 *)

\* Serialize has the members that there are, as they are.
LEMMA Shows ==
  ASSUME NEW dto, NEW fields
  PROVE  /\ DOMAIN Serialize(dto, fields) = {f \in fields : dto[f] # Nothing}
         /\ \A f \in fields : dto[f] # Nothing => Serialize(dto, fields)[f] = dto[f]
BY DEF Serialize

\* What is shown of a row of a parcel, whose body is json.
ParcelShows(g, json, k, doc) ==
  /\ {"id", "sender_id", "size"} \subseteq DOMAIN doc
  /\ DOMAIN doc \subseteq {"id", "sender_id", "size", "status", "description", "features"}
  /\ doc.id = k /\ doc.sender_id = json.sender_id /\ doc.size = json.size
  /\ "description" \in DOMAIN doc <=>
       "description" \in DOMAIN json /\ ~(g > 3 /\ json.description = Empty)
  /\ "description" \in DOMAIN doc => doc.description = json.description
  /\ "features" \in DOMAIN doc => g = 4
  /\ g = 4 => "features" \in DOMAIN doc /\ Begins(json.features, doc.features)

\* What is shown of a parcel whose row has what was posted has it too.
LEMMA ParcelShown2 ==
  ASSUME NEW g \in {2, 3}, NEW json \in ParcelBodies, NEW row, ParcelKept(g, json, row),
         NEW k \in Nat
  PROVE  ParcelShows(g, json, k, ShownParcel(g, k, row))
<1> DEFINE dto == With(row, "id", k)
           doc == Serialize(dto, ParcelFields)
<1>1. /\ DOMAIN row = {"sender_id", "size", "description", "status"}
      /\ row.sender_id = json.sender_id /\ row.size = json.size
      /\ row.description = IF "description" \in DOMAIN json THEN json.description ELSE Nothing
      /\ {"sender_id", "size"} \subseteq DOMAIN json
  BY DEF ParcelKept, KeptDescription
<1>2. /\ dto.id = k /\ dto.sender_id = json.sender_id /\ dto.size = json.size
      /\ dto.description = row.description
  BY <1>1 DEF With
<1>3. \A f \in DOMAIN json : json[f] # Nothing
  BY BodiesAssumption
<1>4. json.sender_id # Nothing /\ json.size # Nothing /\ k # Nothing
      /\ ("description" \in DOMAIN json => json.description # Nothing)
  BY <1>1, <1>3, NumberIsNotJunk
<1> HIDE DEF dto
<1>5. /\ DOMAIN doc = {f \in ParcelFields : dto[f] # Nothing}
      /\ \A f \in ParcelFields : dto[f] # Nothing => doc[f] = dto[f]
  BY Shows
<1> HIDE DEF doc
<1>6. ParcelShows(g, json, k, doc)
  BY <1>1, <1>2, <1>4, <1>5 DEF ParcelShows, ParcelFields
<1>7. ShownParcel(g, k, row) = doc
  BY DEF ShownParcel, SerializeParcelResponse2, doc, dto
<1> QED
  BY <1>6, <1>7

\* A list of features that is not empty is read back as it was written.
LEMMA FeaturesAreShown ==
  ASSUME NEW s, NEW t, Begins(s, t), s # <<>>
  PROVE  /\ ListOf(t) = t /\ ValueOf(t) = t /\ t # Nothing
         /\ IsPrefix(s, t)
<1>1. t # Null /\ t # Nothing
  BY ValuesAssumption DEF Begins
<1>2. Len(s) > 0 /\ Len(t) > 0 /\ t # <<>>
  BY LenProperties, EmptySeq DEF Begins
<1>3. IsPrefix(s, t)
  BY LenProperties DEF Begins, IsPrefix
<1> QED
  BY <1>1, <1>2, <1>3 DEF ListOf, ValueOf

LEMMA ParcelShown4 ==
  ASSUME NEW g \in {4, 5, 6}, NEW json \in ParcelBodies, NEW row, ParcelKept(g, json, row),
         NEW k \in Nat
  PROVE  ParcelShows(g, json, k, ShownParcel(g, k, row))
<1> DEFINE dto == IF g = 4 THEN MapBsonToParcel4(k, row) ELSE MapBsonToParcel6(k, row)
           list == [dto EXCEPT !.features = ValueOf(@)]
           fields == ParcelFields \cup {"features"}
           doc == Serialize(list, fields)
<1>1. /\ row.sender_id = json.sender_id /\ row.size = json.size
      /\ row.description = IF "description" \in DOMAIN json THEN json.description ELSE Empty
      /\ {"sender_id", "size"} \subseteq DOMAIN json
      /\ g = 4 => json.features # <<>> /\ Begins(json.features, row.features)
  BY DEF ParcelKept, KeptDescription
<1>2. g = 4 => ListOf(row.features) = row.features /\ ValueOf(row.features) = row.features
               /\ row.features # Nothing
  BY <1>1, FeaturesAreShown
<1>3. Nothing # <<>>
  BY ValuesAssumption, EmptySeq
<1>4. ValueOf(Nothing) = Nothing
  BY <1>3 DEF ValueOf
<1>5. \A f \in DOMAIN json : json[f] # Nothing
  BY BodiesAssumption
<1>6. json.sender_id # Nothing /\ json.size # Nothing /\ k # Nothing
      /\ ("description" \in DOMAIN json => json.description # Nothing)
  BY <1>1, <1>5, NumberIsNotJunk
<1>7. /\ DOMAIN dto = {"id", "sender_id", "size", "description", "status", "features"}
      /\ dto.id = k /\ dto.sender_id = json.sender_id /\ dto.size = json.size
      /\ dto.description = IF row.description = Empty THEN Nothing ELSE row.description
      /\ dto.features = IF g = 4 THEN row.features ELSE Nothing
  BY <1>1, <1>2 DEF MapBsonToParcel4, MapBsonToParcel6
<1> HIDE DEF dto
<1>8. /\ list.id = k /\ list.sender_id = json.sender_id /\ list.size = json.size
      /\ list.description = dto.description
      /\ list.features = IF g = 4 THEN row.features ELSE Nothing
  BY <1>2, <1>4, <1>7
<1> HIDE DEF list, fields
<1>9. /\ DOMAIN doc = {f \in fields : list[f] # Nothing}
      /\ \A f \in fields : list[f] # Nothing => doc[f] = list[f]
  BY Shows
<1> HIDE DEF doc
<1>10. ParcelShows(g, json, k, doc)
  BY <1>1, <1>2, <1>6, <1>7, <1>8, <1>9 DEF ParcelShows, ParcelFields, fields
<1>11. ShownParcel(g, k, row) = doc
  BY DEF ShownParcel, SerializeParcelResponse6, SerializeParcelResponse4, doc, list, fields, dto
<1> QED
  BY <1>10, <1>11

\* A parcel whose row has what was posted is shown in agreement with its body.
LEMMA ParcelAgrees ==
  ASSUME NEW g \in 2 .. 6, NEW json \in ParcelBodies, NEW row, ParcelKept(g, json, row),
         NEW k \in Nat
  PROVE  /\ ShownParcel(g, k, row).id = k
         /\ Agrees(g, json, ShownParcel(g, k, row))
<1> DEFINE doc == ShownParcel(g, k, row)
<1>1. ParcelShows(g, json, k, doc)
  BY ParcelShown2, ParcelShown4
<1>2. {"sender_id", "size"} \subseteq DOMAIN json
      /\ (g = 4 => "features" \in DOMAIN json /\ json.features # <<>>)
  BY DEF ParcelKept
<1>3. DOMAIN json \subseteq {"sender_id", "size", "description", "features"}
  BY BodiesAssumption
<1> HIDE DEF doc
<1>4. g = 4 => IsPrefix(json.features, doc.features)
  BY <1>1, <1>2, FeaturesAreShown DEF ParcelShows
<1>5. DOMAIN json \ Dropped(g, json) \subseteq DOMAIN doc
  BY <1>1, <1>2, <1>3 DEF ParcelShows, Dropped
<1>6. DOMAIN doc \ Added \subseteq DOMAIN json \cup {"sender_id"}
  BY <1>1, <1>2 DEF ParcelShows, Added
<1>7. \A f \in (DOMAIN json \cap DOMAIN doc) \ Dropped(g, json) : Same(f, doc[f], json[f])
  BY <1>1, <1>2, <1>3, <1>4 DEF ParcelShows, Dropped, Same
<1>8. doc.id = k
  BY <1>1 DEF ParcelShows
<1> QED
  BY <1>5, <1>6, <1>7, <1>8 DEF Agrees, doc

\* What is shown of a row of a delivery, whose body is json; sender is the
\* sender that is shown.
DeliveryShows(g, json, k, sender, doc) ==
  /\ {"id", "parcel_id", "sender_id", "receiver_id", "from_address", "to_address"} \subseteq DOMAIN doc
  /\ DOMAIN doc \subseteq DeliveryFields \cup {"events"}
  /\ doc.id = k /\ doc.parcel_id = json.parcel_id /\ doc.receiver_id = json.receiver_id
  /\ doc.from_address = json.from_address /\ doc.to_address = json.to_address
  /\ doc.sender_id = sender

\* Serialize shows the members that a body has.
LEMMA DeliverySerialized ==
  ASSUME NEW json \in DeliveryBodies, NEW dto, NEW k \in Nat,
         {"parcel_id", "receiver_id", "from_address", "to_address"} \subseteq DOMAIN json,
         dto.parcel_id = json.parcel_id, dto.receiver_id = json.receiver_id,
         dto.from_address = json.from_address, dto.to_address = json.to_address,
         dto.id = k, dto.sender_id # Nothing, NEW g
  PROVE  DeliveryShows(g, json, k, dto.sender_id, Serialize(dto, DeliveryFields))
<1> DEFINE doc == Serialize(dto, DeliveryFields)
<1>1. \A f \in DOMAIN json : json[f] # Nothing
  BY BodiesAssumption
<1>2. /\ json.parcel_id # Nothing /\ json.receiver_id # Nothing
      /\ json.from_address # Nothing /\ json.to_address # Nothing /\ k # Nothing
  BY <1>1, NumberIsNotJunk
<1>3. /\ DOMAIN doc = {f \in DeliveryFields : dto[f] # Nothing}
      /\ \A f \in DeliveryFields : dto[f] # Nothing => doc[f] = dto[f]
  BY Shows
<1> HIDE DEF doc
<1>4. DeliveryShows(g, json, k, dto.sender_id, doc)
  BY <1>2, <1>3 DEF DeliveryShows, DeliveryFields
<1> QED
  BY <1>4 DEF doc

\* What DeliveryAgrees asks for, from the members that are shown.
LEMMA DeliveryAgreesFrom ==
  ASSUME NEW g \in {2, 3, 4, 6}, NEW d, NEW json \in DeliveryBodies, NEW k, NEW row,
         DeliveryKept(g, json, k, row), NEW sender, NEW doc,
         DeliveryShows(g, json, k, sender, doc),
         IF g = 2 THEN sender = d.parcels[json.parcel_id].sender_id
         ELSE sender = json.sender_id,
         HasEvents(g) =>
           doc.events[1] = [status |-> "pending", location |-> json.from_address.city]
  PROVE  DeliveryAgrees(g, d, json, doc)
<1>1. /\ {"parcel_id", "receiver_id", "from_address", "to_address"} \subseteq DOMAIN json
      /\ (g # 2 => "sender_id" \in DOMAIN json)
  BY DEF DeliveryKept
<1>2. DOMAIN json \subseteq {"parcel_id", "sender_id", "receiver_id", "from_address",
                             "to_address", "scheduled_pickup_time"}
  BY BodiesAssumption
<1>3. DOMAIN json \ Dropped(g, json) \subseteq DOMAIN doc
  BY <1>1, <1>2 DEF DeliveryShows, Dropped
<1>4. DOMAIN doc \ Added \subseteq DOMAIN json \cup {"sender_id"}
  BY <1>1 DEF DeliveryShows, Added, DeliveryFields
<1>5. \A f \in (DOMAIN json \cap DOMAIN doc) \ Dropped(g, json) : Same(f, doc[f], json[f])
  BY <1>1, <1>2 DEF DeliveryShows, Dropped, Same
<1>6. Agrees(g, json, doc)
  BY <1>3, <1>4, <1>5 DEF Agrees
<1>7. g = 2 => doc.sender_id = d.parcels[doc.parcel_id].sender_id
  BY DEF DeliveryShows
<1> QED
  BY <1>6, <1>7 DEF DeliveryAgrees

\* The first event, as it is shown.
LEMMA EventsShown ==
  ASSUME NEW json \in DeliveryBodies, "from_address" \in DOMAIN json, json.from_address # Null,
         NEW events, IsTable(events), events # <<>>,
         events[1] = [status |-> "pending", location |-> json.from_address.city]
  PROVE  LET read == [k \in DOMAIN events |->
                        Parse(events[k], {"status", "location"}, {"comment"})[1]]
         IN  ValueOf([k \in DOMAIN read |-> SerializeDeliveryEvent4(read[k])])[1] =
               [status |-> "pending", location |-> json.from_address.city]
<1> DEFINE city == json.from_address.city
           first == [status |-> "pending", location |-> city]
           read == [k \in DOMAIN events |->
                      Parse(events[k], {"status", "location"}, {"comment"})[1]]
           shown == [k \in DOMAIN read |-> SerializeDeliveryEvent4(read[k])]
           event == [status |-> "pending", location |-> city, comment |-> Nothing]
<1>1. city # Null /\ city # Nothing
  BY BodiesAssumption
<1>2. "pending" # Null /\ "pending" # Nothing
  BY ValuesAssumption DEF DeliveryStatuses
<1>3. 1 \in DOMAIN events
  <2>1. Len(events) # 0
    BY EmptySeq DEF IsTable
  <2> QED
    BY <2>1, TableLen
<1> HIDE DEF city
<1>4. Parse(first, {"status", "location"}, {"comment"}) = <<event>>
  <2>1. ~(\E f \in ({"status", "location"} \cup {"comment"}) \cap DOMAIN first : first[f] = Null)
    BY <1>1, <1>2
  <2>2. [f \in {"status", "location"} \cup {"comment"} |->
           IF f \in DOMAIN first THEN first[f] ELSE Nothing] = event
    OBVIOUS
  <2> HIDE DEF event
  <2> QED
    BY <2>1, <2>2 DEF Parse
<1>5. Serialize(event, {"status", "location", "comment"}) = first
  <2>1. {f \in {"status", "location", "comment"} : event[f] # Nothing} = {"status", "location"}
    BY <1>1, <1>2
  <2>2. [f \in {"status", "location"} |-> event[f]] = first
    OBVIOUS
  <2> HIDE DEF event
  <2> QED
    BY <2>1, <2>2 DEF Serialize
<1> HIDE DEF event
<1>6. events[1] = first
  BY DEF city
<1> HIDE DEF first
<1>7. read[1] = event /\ 1 \in DOMAIN read
  BY <1>3, <1>4, <1>6
<1> HIDE DEF read
<1>8. shown[1] = first /\ 1 \in DOMAIN shown
  BY <1>5, <1>7 DEF SerializeDeliveryEvent4
<1>9. ValueOf(shown) = shown
  <2>1. shown # <<>>
    BY <1>8
  <2> QED
    BY <2>1 DEF ValueOf
<1>10. ValueOf(shown)[1] = first
  BY <1>8, <1>9
<1> QED
  BY <1>10 DEF read, first, city

\* Every parcel has a sender.
HasSenders(d) == \A p \in DOMAIN d.parcels : d.parcels[p].sender_id # Nothing

\* A delivery whose row has what was posted is shown in agreement with its body.
LEMMA DeliveryAgreement2 ==
  ASSUME NEW d, NEW json \in DeliveryBodies, NEW k \in Nat, NEW row, row = d.deliveries[k],
         row.parcel_id \in DOMAIN d.parcels, HasSenders(d), DeliveryKept(2, json, k, row)
  PROVE  /\ ShownDelivery(2, d, k).id = k
         /\ DeliveryAgrees(2, d, json, ShownDelivery(2, d, k))
<1> DEFINE sender == SenderOf2(d, row)
           dto == With(With(row, "id", k), "sender_id", sender)
           doc == Serialize(dto, DeliveryFields)
<1>1. /\ {"parcel_id", "receiver_id", "from_address", "to_address"} \subseteq DOMAIN json
      /\ {"parcel_id", "receiver_id", "from_address", "to_address"} \subseteq DOMAIN row
      /\ row.parcel_id = json.parcel_id /\ row.receiver_id = json.receiver_id
      /\ row.from_address = json.from_address /\ row.to_address = json.to_address
  BY DEF DeliveryKept
<1>2. sender = d.parcels[json.parcel_id].sender_id /\ sender # Nothing
  BY <1>1 DEF SenderOf2, HasSenders
<1> HIDE DEF sender
<1>3. /\ dto.id = k /\ dto.parcel_id = json.parcel_id /\ dto.receiver_id = json.receiver_id
      /\ dto.from_address = json.from_address /\ dto.to_address = json.to_address
      /\ dto.sender_id = sender
  BY <1>1 DEF With
<1> HIDE DEF dto
<1>4. DeliveryShows(2, json, k, sender, doc)
  BY <1>1, <1>2, <1>3, DeliverySerialized
<1> HIDE DEF doc
<1>5. DeliveryAgrees(2, d, json, doc)
  BY <1>2, <1>4, DeliveryAgreesFrom DEF HasEvents
<1>6. ShownDelivery(2, d, k) = doc
  BY DEF ShownDelivery, SerializeDeliveryResponse2, DeliveryDto2, doc, dto, sender
<1> QED
  BY <1>4, <1>5, <1>6 DEF DeliveryShows

LEMMA DeliveryAgreement3 ==
  ASSUME NEW d, NEW json \in DeliveryBodies, NEW k \in Nat, NEW row, row = d.deliveries[k],
         DeliveryKept(3, json, k, row)
  PROVE  /\ ShownDelivery(3, d, k).id = k
         /\ DeliveryAgrees(3, d, json, ShownDelivery(3, d, k))
<1> DEFINE dto == With(row, "id", k)
           doc == Serialize(dto, DeliveryFields)
<1>1. /\ {"parcel_id", "sender_id", "receiver_id", "from_address", "to_address"} \subseteq DOMAIN json
      /\ {"parcel_id", "sender_id", "receiver_id", "from_address", "to_address"} \subseteq DOMAIN row
      /\ row.parcel_id = json.parcel_id /\ row.receiver_id = json.receiver_id
      /\ row.from_address = json.from_address /\ row.to_address = json.to_address
      /\ row.sender_id = json.sender_id
  BY DEF DeliveryKept
<1>2. json.sender_id # Nothing
  BY <1>1, BodiesAssumption
<1>3. /\ dto.id = k /\ dto.parcel_id = json.parcel_id /\ dto.receiver_id = json.receiver_id
      /\ dto.from_address = json.from_address /\ dto.to_address = json.to_address
      /\ dto.sender_id = json.sender_id
  BY <1>1 DEF With
<1> HIDE DEF dto
<1>4. DeliveryShows(3, json, k, json.sender_id, doc)
  BY <1>1, <1>2, <1>3, DeliverySerialized
<1> HIDE DEF doc
<1>5. DeliveryAgrees(3, d, json, doc)
  BY <1>4, DeliveryAgreesFrom DEF HasEvents
<1>6. ShownDelivery(3, d, k) = doc
  BY DEF ShownDelivery, SerializeDeliveryResponse3, DeliveryDto3, doc, dto
<1> QED
  BY <1>4, <1>5, <1>6 DEF DeliveryShows

LEMMA DeliveryAgreement4 ==
  ASSUME NEW g \in {4, 6}, NEW d, NEW json \in DeliveryBodies, NEW k \in Nat, NEW row,
         row = d.deliveries[k], DeliveryKept(g, json, k, row)
  PROVE  /\ ShownDelivery(g, d, k).id = k
         /\ DeliveryAgrees(g, d, json, ShownDelivery(g, d, k))
<1> DEFINE dto == MapBsonToDelivery4(k, row)
           read == [i \in DOMAIN row.events |->
                      Parse(row.events[i], {"status", "location"}, {"comment"})[1]]
           shown == ValueOf([i \in DOMAIN read |-> SerializeDeliveryEvent4(read[i])])
           plain == Serialize(dto, DeliveryFields)
           doc == With(plain, "events", shown)
<1>1. /\ {"parcel_id", "sender_id", "receiver_id", "from_address", "to_address"} \subseteq DOMAIN json
      /\ json.from_address # Null
      /\ row.parcel_id = json.parcel_id /\ row.receiver_id = json.receiver_id
      /\ row.from_address = json.from_address /\ row.to_address = json.to_address
      /\ row.sender_id = json.sender_id
      /\ IsTable(row.events) /\ row.events # <<>>
      /\ row.events[1] = [status |-> "pending", location |-> json.from_address.city]
  BY DEF DeliveryKept, HasEvents
<1>2. json.sender_id # Nothing
  BY <1>1, BodiesAssumption
<1>3. shown[1] = [status |-> "pending", location |-> json.from_address.city]
  <2> DEFINE events == row.events
  <2>1. IsTable(events) /\ events # <<>>
        /\ events[1] = [status |-> "pending", location |-> json.from_address.city]
    BY <1>1
  <2> HIDE DEF events
  <2>2. LET list == [i \in DOMAIN events |->
                       Parse(events[i], {"status", "location"}, {"comment"})[1]]
        IN  ValueOf([i \in DOMAIN list |-> SerializeDeliveryEvent4(list[i])])[1] =
              [status |-> "pending", location |-> json.from_address.city]
    BY <1>1, <2>1, EventsShown
  <2> QED
    BY <2>2 DEF events
<1>4. dto.events = read
  BY DEF MapBsonToDelivery4
<1> HIDE DEF shown, read
<1>5. /\ dto.id = k /\ dto.parcel_id = json.parcel_id /\ dto.receiver_id = json.receiver_id
      /\ dto.from_address = json.from_address /\ dto.to_address = json.to_address
      /\ dto.sender_id = json.sender_id
  BY <1>1 DEF MapBsonToDelivery4
<1> HIDE DEF dto
<1>6. DeliveryShows(g, json, k, json.sender_id, plain)
  BY <1>1, <1>2, <1>5, DeliverySerialized
<1> HIDE DEF plain
<1>7. DeliveryShows(g, json, k, json.sender_id, doc) /\ doc.events = shown
  BY <1>6 DEF DeliveryShows, DeliveryFields, With
<1> HIDE DEF doc
<1>8. DeliveryAgrees(g, d, json, doc)
  BY <1>3, <1>7, DeliveryAgreesFrom DEF HasEvents
<1>9. ShownDelivery(g, d, k) = doc
  BY <1>4 DEF ShownDelivery, SerializeDeliveryResponse4, DeliveryDto4, doc, plain, dto, shown
<1> QED
  BY <1>7, <1>8, <1>9 DEF DeliveryShows

LEMMA DeliveryAgreement ==
  ASSUME NEW g \in {2, 3, 4, 6}, NEW d, Good(d, g), HasSenders(d), NEW json \in DeliveryBodies,
         NEW k \in DOMAIN d.deliveries, DeliveryKept(g, json, k, d.deliveries[k])
  PROVE  /\ ShownDelivery(g, d, k).id = k
         /\ DeliveryAgrees(g, d, json, ShownDelivery(g, d, k))
<1>1. k \in Nat
  BY TableLen DEF Good
<1>2. d.deliveries[k].parcel_id \in DOMAIN d.parcels
  BY DEF Good, DeliveryRow
<1>3. CASE g = 2
  BY <1>1, <1>2, <1>3, DeliveryAgreement2
<1>4. CASE g = 3
  BY <1>1, <1>4, DeliveryAgreement3
<1>5. CASE g \in {4, 6}
  BY <1>1, <1>5, DeliveryAgreement4
<1> QED
  BY <1>3, <1>4, <1>5

-----------------------------------------------------------------------------
(* What is found of one.                                                   *)

\* Nobody has two accounts.
OneEach(d) ==
  \A j, k \in DOMAIN d.users : d.users[j].login = d.users[k].login => j = k

\* User k has login l.
HasLogin(d, k, l) == k \in DOMAIN d.users /\ d.users[k].login = l

\* A login that is there is in one row.
LEMMA WhereLogin ==
  ASSUME NEW g, NEW d, Good(d, g), OneEach(d), NEW l,
         NEW k, HasLogin(d, k, l)
  PROVE  Ascending({j \in DOMAIN d.users : d.users[j].login = l}) = <<k>>
<1> DEFINE S == {j \in DOMAIN d.users : d.users[j].login = l}
<1>1. S = {k} /\ k \in Nat \ {0}
  BY TableLen DEF Good, OneEach, HasLogin
<1> QED
  BY <1>1, AscendingOne

\* What is shown of account k.
ShownUser(d, k) == SerializeUserResponse2(With(d.users[k], "id", k))

\* The page of a list of none, and of one.
LEMMA WindowOfNone ==
  ASSUME NEW from \in {1, 2}, NEW to \in Nat, from <= to
  PROVE  Window(<<>>, [from |-> from, to |-> to]) = <<>>
<1>1. <<>> \in Seq({}) /\ Len(<<>>) = 0
  OBVIOUS
<1>2. Window(<<>>, [from |-> from, to |-> to]) = SubSeq(<<>>, from, 0)
  BY <1>1 DEF Window
<1>3. SubSeq(<<>>, from, 0) \in Seq({}) /\ Len(SubSeq(<<>>, from, 0)) = 0
  BY <1>1, SubSeqProperties
<1> QED
  BY <1>2, <1>3, EmptySeq

\* The first page of a list of one has it, the second nothing.
LEMMA WindowOfOne ==
  ASSUME NEW k, NEW from \in {1, 2}, NEW to \in Nat, from <= to
  PROVE  LET w == Window(<<k>>, [from |-> from, to |-> to])
         IN  IF from = 1 THEN w # <<>> /\ w[1] = k ELSE w = <<>>
<1> DEFINE one == <<k>>
           w == SubSeq(one, from, 1)
<1>1. one \in Seq({k}) /\ Len(one) = 1 /\ one[1] = k /\ Len(<<>>) = 0
  OBVIOUS
<1> HIDE DEF one
<1>2. Window(one, [from |-> from, to |-> to]) = w
  BY <1>1 DEF Window
<1>3. /\ w \in Seq({k}) /\ Len(w) = (IF from = 1 THEN 1 ELSE 0)
      /\ from = 1 => w[1] = k
  <2>1. \A i \in from .. 1 : one[i] \in {k}
    BY <1>1
  <2>2. /\ w \in Seq({k}) /\ Len(w) = IF from <= 1 THEN 1 - from + 1 ELSE 0
        /\ \A i \in 1 .. 1 - from + 1 : w[i] = one[from + i - 1]
    BY <1>1, <2>1, SubSeqProperties
  <2> HIDE DEF w
  <2> QED
    BY <1>1, <2>2
<1> HIDE DEF w
<1>4. IF from = 1 THEN w # <<>> /\ w[1] = k ELSE w = <<>>
  BY <1>1, <1>3, EmptySeq
<1> QED
  BY <1>2, <1>4 DEF one

\* What is found of a login: what lr-5 keeps of it, or the row that is on the page.
FoundByLogin(g, d, cached, l, from) ==
  LET ids == Ascending({j \in DOMAIN d.users : d.users[j].login = l})
      page == IF g = 2 THEN ids ELSE Window(ids, [from |-> from, to |-> 2])
      kept == IF g = 5 THEN SearchUserByLogin5(cached) ELSE <<>>
  IN  IF kept # <<>> THEN kept
      ELSE IF page = <<>> THEN <<>> ELSE <<With(d.users[page[1]], "id", page[1])>>

\* The generations with users look for a login in the same way.
LEMMA UsersAnswer ==
  ASSUME NEW g \in {2, 3, 5, 6}, NEW d, NEW cached, NEW l, NEW from \in {1, 2}
  PROVE  GetUsers(g, d, cached, [login |-> l, from |-> from, to |-> 2]) =
           Each(OneOrNotFound(FoundByLogin(g, d, cached, l, from)), SerializeUserResponse2)
<1> DEFINE q == [login |-> l, from |-> from, to |-> 2]
           b == [from |-> from, to |-> 2]
           ids == Ascending({j \in DOMAIN d.users : d.users[j].login = l})
           page == IF g = 2 THEN ids ELSE Window(ids, b)
           kept == IF g = 5 THEN SearchUserByLogin5(cached) ELSE <<>>
           row == IF page = <<>> THEN <<>> ELSE <<With(d.users[page[1]], "id", page[1])>>
<1>1. Where(d.users, LAMBDA u : u.login = l) = ids
  BY DEF Where
<1>2. RequiredBounds(q) = b /\ ValidBounds(b)
  BY NumberIsNotJunk DEF RequiredBounds, Arg, ValidBounds
<1> HIDE DEF ids, b
<1>3. g = 2 => GetUserByLogin2(d, l) = row
  BY <1>1 DEF GetUserByLogin2, First, UserDto2
<1>4. g # 2 => GetUserByLogin3(d, l, b) = row
  BY <1>1 DEF GetUserByLogin3, First, UserDto3
<1> HIDE DEF page, row, kept
<1>5. "login" \in DOMAIN q /\ q.login = l
  OBVIOUS
<1> HIDE DEF q
<1>6. GetUsers(g, d, cached, q) =
        Each(OneOrNotFound(IF kept # <<>> THEN kept ELSE row), SerializeUserResponse2)
  <2>1. CASE g = 2
    BY <1>3, <1>5, <2>1 DEF GetUsers, GetUsersHandler2, kept, Each
  <2>2. CASE g = 3
    BY <1>2, <1>4, <1>5, <2>2 DEF GetUsers, GetUsersHandler3, kept, SerializeUserResponse3, Each
  <2>3. CASE g = 5
    BY <1>2, <1>4, <1>5, <2>3 DEF GetUsers, GetUsersHandler5, kept, SerializeUserResponse5,
       GetUserByLogin5, Each
  <2>4. CASE g = 6
    BY <1>2, <1>4, <1>5, <2>4 DEF GetUsers, GetUsersHandler6, kept, SerializeUserResponse6,
       GetUserByLogin6, Each
  <2> QED
    BY <2>1, <2>2, <2>3, <2>4
<1> QED
  BY <1>6 DEF q, row, page, kept, ids, b, FoundByLogin

\* One user is shown, or 404.
LEMMA OneUserShown ==
  ASSUME NEW x, x.id # Nothing
  PROVE  LET answer == Each(OneOrNotFound(<<x>>), SerializeUserResponse2)
         IN  answer.status = 200 /\ {doc.id : doc \in ToSet(answer.shown)} = {x.id}
<1> DEFINE answer == Each(OneOrNotFound(<<x>>), SerializeUserResponse2)
           shown == [k \in DOMAIN <<x>> |-> SerializeUserResponse2(<<x>>[k])]
           doc == SerializeUserResponse2(x)
<1>1. answer = Answer(200, shown)
  BY DEF Each, OneOrNotFound, Answer
<1>2. doc.id = x.id
  BY Shows DEF SerializeUserResponse2
<1>3. shown[1] = doc /\ DOMAIN shown = {1}
  OBVIOUS
<1> HIDE DEF doc, shown, answer
<1>4. ToSet(shown) = {doc}
  BY <1>3 DEF ToSet
<1>5. answer.status = 200 /\ {e.id : e \in ToSet(answer.shown)} = {x.id}
  BY <1>1, <1>2, <1>4 DEF Answer
<1> QED
  BY <1>5 DEF answer

LEMMA NobodyShown == Each(OneOrNotFound(<<>>), SerializeUserResponse2).status = 404
BY DEF Each, OneOrNotFound, Error, Answer

Remembers(d, l, kept) ==
  kept = <<>> \/ \E k : HasLogin(d, k, l) /\ kept = <<ShownUser(d, k)>>

\* A cached account stays right, for rows of users do not change.
LEMMA StillRemembers ==
  ASSUME NEW d, NEW e, NEW l, NEW kept, Remembers(d, l, kept),
         \A k \in DOMAIN d.users : k \in DOMAIN e.users /\ e.users[k] = d.users[k]
  PROVE  Remembers(e, l, kept)
BY DEF Remembers, HasLogin, ShownUser

\* What the cache reads of an account it keeps is the account.
LEMMA CacheReads ==
  ASSUME NEW d, NEW k \in Nat,
         \A f \in {"login", "name", "email"} :
           f \in DOMAIN d.users[k] /\ d.users[k][f] \notin {Null, Nothing}
  PROVE  \E x : SearchUserByLogin5(<<ShownUser(d, k)>>) = <<x>> /\ x.id = k
<1> DEFINE user == With(d.users[k], "id", k)
           fields == {"id", "login", "name", "email"}
           doc == Serialize(user, fields)
           x == [f \in fields \cup {} |-> IF f \in DOMAIN doc THEN doc[f] ELSE Nothing]
<1>1. k \notin {Null, Nothing}
  BY NumberIsNotJunk
<1>2. user.id = k /\ \A f \in fields : user[f] \notin {Null, Nothing}
  BY <1>1 DEF With
<1> HIDE DEF user
<1>3. DOMAIN doc = fields /\ \A f \in fields : doc[f] = user[f]
  <2> HIDE DEF fields
  <2>1. /\ DOMAIN doc = {f \in fields : user[f] # Nothing}
        /\ \A f \in fields : user[f] # Nothing => doc[f] = user[f]
    BY Shows
  <2> QED
    BY <1>2, <2>1
<1>4. ShownUser(d, k) = doc
  BY DEF ShownUser, SerializeUserResponse2, user
<1> HIDE DEF doc
<1>5. Parse(doc, fields, {}) = <<x>>
  BY <1>2, <1>3 DEF Parse
<1>6. x.id = k
  BY <1>2, <1>3
<1>7. SearchUserByLogin5(<<doc>>) = <<x>>
  BY <1>5 DEF SearchUserByLogin5, ParseUserResponse5
<1> HIDE DEF x
<1> QED
  BY <1>4, <1>6, <1>7

\* A look-up keeps the account of the login, if it keeps anything.
LEMMA SavedLogin ==
  ASSUME NEW d, Good(d, 5), OneEach(d), NEW l, NEW kept, Remembers(d, l, kept),
         NEW from \in {1, 2}
  PROVE  Remembers(d, l, SaveUserByLogin5(d, kept, [login |-> l, from |-> from, to |-> from]))
<1> DEFINE q == [login |-> l, from |-> from, to |-> from]
           b == [from |-> from, to |-> from]
           ids == Ascending({j \in DOMAIN d.users : d.users[j].login = l})
           found == GetUserByLogin5(d, l, b)
<1>1. RequiredBounds(q) = b /\ q.login = l
  BY DEF RequiredBounds, Arg
<1>2. Where(d.users, LAMBDA u : u.login = l) = ids
  BY DEF Where
<1>3. found = First(Window(ids, b), LAMBDA k : UserDto3(d, k))
  BY <1>2 DEF GetUserByLogin5, GetUserByLogin3
<1>4. found = IF Window(ids, b) = <<>> THEN <<>> ELSE <<UserDto3(d, Window(ids, b)[1])>>
  BY <1>3 DEF First
<1>5. found = <<>> \/ \E k : HasLogin(d, k, l) /\ found = <<With(d.users[k], "id", k)>>
  <2>1. CASE \E k : HasLogin(d, k, l)
    <3>1. PICK k : HasLogin(d, k, l)
      BY <2>1
    <3>2. ids = <<k>>
      BY <3>1, WhereLogin
    <3>3. Window(ids, b) = <<>> \/ Window(ids, b)[1] = k
      BY <3>2, WindowOfOne
    <3> HIDE DEF ids, b, found
    <3> QED
      BY <1>4, <3>1, <3>3 DEF UserDto3
  <2>2. CASE ~ \E k : HasLogin(d, k, l)
    <3>1. {j \in DOMAIN d.users : d.users[j].login = l} = {}
      BY <2>2 DEF HasLogin
    <3>2. ids = <<>>
      BY <3>1, AscendingNone
    <3>3. Window(ids, b) = <<>>
      BY <3>2, WindowOfNone
    <3> HIDE DEF ids, b, found
    <3> QED
      BY <1>4, <3>3
  <2> QED
    BY <2>1, <2>2
<1> HIDE DEF found, q
<1>6. \/ SaveUserByLogin5(d, kept, q) = kept
      \/ found # <<>> /\ SaveUserByLogin5(d, kept, q) = <<SerializeUserResponse5(found[1])>>
  BY <1>1 DEF SaveUserByLogin5, found
<1>7. CASE found # <<>> /\ SaveUserByLogin5(d, kept, q) = <<SerializeUserResponse5(found[1])>>
  <2>1. PICK k : HasLogin(d, k, l) /\ found = <<With(d.users[k], "id", k)>>
    BY <1>5, <1>7
  <2>2. SaveUserByLogin5(d, kept, q) = <<ShownUser(d, k)>>
    BY <1>7, <2>1 DEF ShownUser, SerializeUserResponse5
  <2> QED
    BY <2>1, <2>2 DEF Remembers, q
<1> QED
  BY <1>6, <1>7 DEF q

\* A delivery is looked for by its number in the same way.
TrackedIds(d, t) == Ascending(Having(d.deliveries, "tracking_number", t))

\* A tracking number is answered with the delivery that has it, or 404.
LEMMA TrackingAnswer ==
  ASSUME NEW g \in {2, 3, 4, 6}, NEW e, NEW t
  PROVE  GetDeliveries(g, e, [tracking_number |-> t]) =
           IF TrackedIds(e, t) = <<>> THEN Error(404)
           ELSE DeliveriesPage(g, e, <<TrackedIds(e, t)[1]>>)
<1> DEFINE q == [tracking_number |-> t]
           ids == TrackedIds(e, t)
<1>1. Where(e.deliveries, LAMBDA d : d.tracking_number = t) = ids
  BY DEF Where, Having, TrackedIds
<1>2. ValidBounds(DefaultBounds(q))
  BY NumberIsNotJunk DEF ValidBounds, DefaultBounds
<1>3. "tracking_number" \in DOMAIN q /\ q.tracking_number = t
  OBVIOUS
<1> HIDE DEF ids, q
<1>4. CASE g = 2
  <2> DEFINE found == IF ids = <<>> THEN <<>> ELSE <<DeliveryDto2(e, ids[1])>>
  <2>1. GetDeliveryByTrackingNumber2(e, t) = found
    BY <1>1 DEF GetDeliveryByTrackingNumber2, First
  <2>2. GetDeliveriesHandler2(e, q) = Each(OneOrNotFound(found), SerializeDeliveryResponse2)
    <3> HIDE DEF found
    <3> QED
      BY <1>3, <2>1 DEF GetDeliveriesHandler2, Each
  <2> QED
    BY <1>4, <2>2 DEF GetDeliveries, Each, OneOrNotFound, Answer, Error, DeliveriesPage, ShownDelivery, q, ids
<1>5. CASE g = 3
  <2> DEFINE found == IF ids = <<>> THEN <<>> ELSE <<DeliveryDto3(e, ids[1])>>
  <2>1. GetDeliveryByTrackingNumber3(e, t) = found
    BY <1>1 DEF GetDeliveryByTrackingNumber3, First
  <2>2. GetDeliveriesHandler3(e, q) = Each(OneOrNotFound(found), SerializeDeliveryResponse3)
    <3> HIDE DEF found
    <3> QED
      BY <1>2, <1>3, <2>1 DEF GetDeliveriesHandler3, Each
  <2> QED
    BY <1>5, <2>2 DEF GetDeliveries, Each, OneOrNotFound, Answer, Error, DeliveriesPage, ShownDelivery, q, ids
<1>6. CASE g = 4
  <2> DEFINE found == IF ids = <<>> THEN <<>> ELSE <<DeliveryDto4(e, ids[1])>>
  <2>1. GetDeliveryByTrackingNumber4(e, t) = found
    BY <1>1 DEF GetDeliveryByTrackingNumber4, First
  <2>2. GetDeliveriesHandler4(e, q) = Each(OneOrNotFound(found), SerializeDeliveryResponse4)
    <3> HIDE DEF found
    <3> QED
      BY <1>2, <1>3, <2>1 DEF GetDeliveriesHandler4, Each
  <2> QED
    BY <1>6, <2>2 DEF GetDeliveries, Each, OneOrNotFound, Answer, Error, DeliveriesPage, ShownDelivery, q, ids
<1>7. CASE g = 6
  <2> DEFINE found == IF ids = <<>> THEN <<>> ELSE <<DeliveryDto6(e, ids[1])>>
  <2>1. GetDeliveryByTrackingNumber6(e, t) = found
    BY <1>1 DEF GetDeliveryByTrackingNumber6, First
  <2>2. GetDeliveriesHandler6(e, q) = Each(OneOrNotFound(found), SerializeDeliveryResponse6)
    <3> HIDE DEF found
    <3> QED
      BY <1>2, <1>3, <2>1 DEF GetDeliveriesHandler6, Each
  <2> QED
    BY <1>7, <2>2 DEF GetDeliveries, Each, OneOrNotFound, Answer, Error, DeliveriesPage, ShownDelivery, q, ids,
       SerializeDeliveryResponse6, DeliveryDto4, DeliveryDto6, MapBsonToDelivery6
<1> QED
  BY <1>4, <1>5, <1>6, <1>7 DEF q, ids

-----------------------------------------------------------------------------
(* The invariant.                                                          *)

\* The rows, and the histories that run along them.
Rows ==
  /\ gen \in Generations
  /\ Good(db, gen)
  /\ IsTable(posted) /\ Len(posted) = Len(db.parcels)
  /\ IsTable(shipped) /\ Len(shipped) = Len(db.deliveries)
  /\ made \in Nat /\ unsure \in Nat /\ faults \in Nat
  /\ Len(db.parcels) = made + unsure

\* An id that was told is the number of a row with the login, which no other
\* row has.
ToldRows ==
  /\ \A t \in told : t.id \in DOMAIN db.users /\ db.users[t.id].login = t.login
  /\ \A j, k \in DOMAIN db.users : db.users[j].login = db.users[k].login => j = k
  /\ named = {}

\* Every row of a user was made from the complete body of its login.
UsersStored ==
  \A k \in DOMAIN db.users :
    \E l \in Logins : /\ db.users[k] = StoredUser(gen, UserBody[l])
                      /\ ~Incomplete(ParseUserRequest2(UserBody[l]))

\* An id that a counter gave was given once.
Counted(history, next) ==
  /\ \A t \in history : t.id \in Nat /\ t.id < next
  /\ \A x, y \in history : x.id = y.id => x.login = y.login

Accounts ==
  /\ nextUser \in Nat /\ nextLogin \in Nat
  /\ gen # 4 => ToldRows /\ UsersStored
  /\ gen = 4 => Counted(told, nextUser) /\ Counted(named, nextLogin)

\* The rows have what was posted.
ParcelsKept ==
  \A k \in DOMAIN db.parcels :
    posted[k] \in ParcelBodies /\ ParcelKept(gen, posted[k], db.parcels[k])

DeliveriesKept ==
  \A k \in DOMAIN db.deliveries :
    shipped[k] \in DeliveryBodies /\ DeliveryKept(gen, shipped[k], k, db.deliveries[k])

Kept == ParcelsKept /\ DeliveriesKept

\* The cache of lr-5 keeps accounts as they are, each for its login.
Cached ==
  /\ DOMAIN cache = Logins
  /\ \A l \in Logins : Remembers(db, l, cache[l]) /\ (gen # 5 => cache[l] = <<>>)

IInv == Rows /\ Accounts /\ Kept /\ Cached

\* The invariant holds at the beginning.
LEMMA InitIInv == Init => IInv
<1> SUFFICES ASSUME Init PROVE IInv
  OBVIOUS
<1>1. Good(EmptyDb, gen) /\ Len(EmptyDb.parcels) = 0 /\ Len(EmptyDb.deliveries) = 0
      /\ DOMAIN EmptyDb.users = {} /\ DOMAIN EmptyDb.parcels = {}
      /\ DOMAIN EmptyDb.deliveries = {}
  BY EmptyGood, TableEmpty, TableLen DEF EmptyDb
<1>2. Rows
  BY <1>1, TableEmpty DEF Init, Rows
<1>3. Accounts
  BY <1>1 DEF Init, Accounts, ToldRows, UsersStored, Counted
<1>4. Kept
  BY <1>1 DEF Init, Kept, ParcelsKept, DeliveriesKept
<1>5. Cached
  BY DEF Init, Cached, Remembers
<1> QED
  BY <1>2, <1>3, <1>4, <1>5 DEF IInv

\* The rows of users stay.
LEMMA CacheStays ==
  ASSUME Cached, UNCHANGED <<gen, cache>>,
         \A k \in DOMAIN db.users : k \in DOMAIN db'.users /\ db'.users[k] = db.users[k]
  PROVE  Cached'
BY StillRemembers DEF Cached

\* Actions that change rows only in place, or nothing a request changes.
LEMMA InPlace ==
  ASSUME IInv, Good(db', gen), Follows(db, db'), Cached',
         UNCHANGED <<gen, nextUser, nextLogin, told, named, posted, shipped, made, unsure, faults>>
  PROVE  IInv'
<1>1. Rows'
  BY FollowsLen DEF IInv, Rows
<1>2. Accounts'
  BY DEF IInv, Accounts, ToldRows, UsersStored, Counted, Follows
<1>3. Kept'
  <2>1. ParcelsKept'
    BY ParcelStaysKept DEF IInv, Kept, ParcelsKept, Follows, ParcelsFollow
  <2>2. DeliveriesKept'
    BY DeliveryStaysKept DEF IInv, Kept, DeliveriesKept, Follows
  <2> QED
    BY <2>1, <2>2 DEF Kept
<1> QED
  BY <1>1, <1>2, <1>3 DEF IInv

\* Faults are counted, and lr-2 meets none.
LEMMA MeetCounts ==
  ASSUME faults \in Nat, NEW fault, Meet(fault)
  PROVE  faults' \in Nat /\ (gen = 2 => fault = "none")
BY DEF Meet

\* Each action keeps the invariant.
LEMMA RegisterUserStep ==
  ASSUME IInv, NEW l \in Logins, NEW fault, RegisterUser(l, fault)
  PROVE  IInv'
<1> DEFINE o == PostUser(gen, db, UserBody[l], fault)
<1>0. gen \in {2, 3, 5, 6}
  <2>1. gen \in Generations /\ gen # 4
    BY DEF IInv, Rows, RegisterUser
  <2> QED
    BY <2>1
<1>1. /\ gen \in {2, 3, 5, 6} /\ Good(db, gen)
      /\ db' = o.db
      /\ told' = IF o.result.status = 201
                 THEN told \cup {Told(l, o.result.shown.id)} ELSE told
      /\ faults' \in Nat
      /\ UNCHANGED <<gen, nextUser, nextLogin, cache, named, posted, shipped, made, unsure>>
  BY <1>0, MeetCounts DEF IInv, Rows, RegisterUser
<1>2. UserOutcome(gen, db, UserBody[l], o) /\ UserBody[l].login = l
  BY <1>1, PostUserOutcome, BodiesAssumption
<1> HIDE DEF o
<1>3. Rows'
  BY <1>1, <1>2 DEF IInv, Rows, UserOutcome
<1>4. ASSUME db'.users = db.users, o.result.status # 201 PROVE Accounts'
  BY <1>1, <1>4 DEF IInv, Accounts, ToldRows, UsersStored
<1>5. ASSUME NEW row, db'.users = Append(db.users, row), row.login = l,
             row = StoredUser(gen, UserBody[l]), ~Incomplete(ParseUserRequest2(UserBody[l])),
             \A k \in DOMAIN db.users : db.users[k].login # l,
             o.result.status = 201 => o.result.shown.id = Len(db.users) + 1
      PROVE  Accounts'
  <2>0. db'.users[Len(db.users) + 1] = row
    BY <1>1, <1>5, TableAppend DEF Good
  <2>1. /\ DOMAIN db'.users = 1 .. Len(db.users) + 1 /\ Len(db.users) \in Nat
        /\ DOMAIN db.users = 1 .. Len(db.users)
        /\ db'.users[Len(db.users) + 1].login = l
        /\ \A k \in DOMAIN db.users : db'.users[k] = db.users[k]
    BY <1>1, <1>5, TableAppend, TableLen DEF Good
  <2>2. \A t \in told' : t.id \in DOMAIN db'.users /\ db'.users[t.id].login = t.login
    BY <1>1, <1>5, <2>1 DEF IInv, Accounts, ToldRows, Told
  <2>3. \A j, k \in DOMAIN db'.users : db'.users[j].login = db'.users[k].login => j = k
    BY <1>1, <1>5, <2>1 DEF IInv, Accounts, ToldRows
  <2>4. UsersStored'
    BY <1>1, <1>5, <2>0, <2>1 DEF IInv, Accounts, UsersStored
  <2> QED
    BY <1>1, <2>2, <2>3, <2>4 DEF IInv, Accounts, ToldRows
<1>6. ~Incomplete(ParseUserRequest2(UserBody[l])) => StoredUser(gen, UserBody[l]).login = l
  BY <1>2, StoredFields DEF Incomplete
<1>7. Accounts'
  BY <1>1, <1>2, <1>4, <1>5, <1>6 DEF UserOutcome
<1>8. Kept'
  BY <1>1, <1>2 DEF IInv, Kept, ParcelsKept, DeliveriesKept, UserOutcome
<1>9. Cached'
  <2>1. \A k \in DOMAIN db.users : k \in DOMAIN db'.users /\ db'.users[k] = db.users[k]
    <3>1. db'.users = db.users \/ \E row : db'.users = Append(db.users, row)
      BY <1>1, <1>2 DEF UserOutcome
    <3>2. IsTable(db.users)
      BY <1>1 DEF Good
    <3>3. ASSUME NEW row, db'.users = Append(db.users, row)
          PROVE  \A k \in DOMAIN db.users : k \in DOMAIN db'.users /\ db'.users[k] = db.users[k]
      BY <3>2, <3>3, TableAppend, TableLen
    <3> QED
      BY <3>1, <3>3
  <2> QED
    BY <1>1, <2>1, CacheStays DEF IInv
<1> QED
  BY <1>3, <1>7, <1>8, <1>9 DEF IInv

LEMMA CreateParcelStep ==
  ASSUME IInv, NEW json \in ParcelBodies, NEW fault, CreateParcel(json, fault)
  PROVE  IInv'
<1> DEFINE o == PostParcel(gen, db, json, fault)
           grown == Len(o.db.parcels) > Len(db.parcels)
<1>1. /\ gen \in 2 .. 6 /\ Good(db, gen)
      /\ gen = 2 => fault = "none"
      /\ db' = o.db
      /\ posted' = IF grown THEN Append(posted, json) ELSE posted
      /\ made' = IF o.result.status = 201 THEN made + 1 ELSE made
      /\ unsure' = IF fault \in {"lost", "unread"} /\ grown THEN unsure + 1 ELSE unsure
      /\ faults' \in Nat
      /\ UNCHANGED <<gen, nextUser, nextLogin, cache, told, named, shipped>>
  BY MeetCounts DEF IInv, Rows, CreateParcel
<1>2. ParcelOutcome(gen, json, db, o, fault)
  BY <1>1, PostParcelOutcome
<1> HIDE DEF o
<1>3. Good(db', gen) /\ db'.users = db.users /\ db'.deliveries = db.deliveries
  BY <1>1, <1>2 DEF ParcelOutcome
<1>4. /\ Len(db.parcels) \in Nat /\ DOMAIN db.parcels = 1 .. Len(db.parcels)
      /\ DOMAIN posted = 1 .. Len(db.parcels)
  BY <1>1, TableLen DEF Good, IInv, Rows
<1>5. /\ IsTable(posted') /\ Len(posted') = Len(db'.parcels)
      /\ made' \in Nat /\ unsure' \in Nat /\ Len(db'.parcels) = made' + unsure'
      /\ ParcelsKept'
  <2>1. CASE db'.parcels = db.parcels /\ o.result.status # 201
    <3>1. posted' = posted /\ made' = made /\ unsure' = unsure
      BY <1>1, <1>4, <2>1
    <3> QED
      BY <1>1, <2>1, <3>1 DEF IInv, Rows, Kept, ParcelsKept
  <2>2. ASSUME NEW row, ParcelKept(gen, json, row), db'.parcels = Append(db.parcels, row),
               o.result.status = 201 <=> fault \notin {"lost", "unread"}
        PROVE  /\ IsTable(posted') /\ Len(posted') = Len(db'.parcels)
               /\ made' \in Nat /\ unsure' \in Nat /\ Len(db'.parcels) = made' + unsure'
               /\ ParcelsKept'
    <3>1. /\ Len(db'.parcels) = Len(db.parcels) + 1
          /\ DOMAIN db'.parcels = 1 .. Len(db.parcels) + 1
          /\ db'.parcels[Len(db.parcels) + 1] = row
          /\ \A k \in 1 .. Len(db.parcels) : db'.parcels[k] = db.parcels[k]
      BY <1>1, <2>2, TableAppend DEF Good
    <3>2. posted' = Append(posted, json)
      BY <1>1, <1>4, <3>1
    <3>3. /\ IsTable(posted') /\ Len(posted') = Len(posted) + 1
          /\ posted'[Len(db.parcels) + 1] = json
          /\ \A k \in 1 .. Len(db.parcels) : posted'[k] = posted[k]
      BY <3>2, TableAppend DEF IInv, Rows
    <3>4. ParcelsKept'
      BY <1>1, <1>4, <2>2, <3>1, <3>3 DEF IInv, Kept, ParcelsKept
    <3>5. made' \in Nat /\ unsure' \in Nat /\ made' + unsure' = made + unsure + 1
      BY <1>1, <1>4, <2>2, <3>1 DEF IInv, Rows
    <3> QED
      BY <3>1, <3>3, <3>4, <3>5 DEF IInv, Rows
  <2> QED
    BY <1>1, <1>2, <2>1, <2>2 DEF ParcelOutcome
<1>6. Rows'
  BY <1>1, <1>3, <1>5 DEF IInv, Rows
<1>7. Accounts'
  BY <1>1, <1>3 DEF IInv, Accounts, ToldRows, UsersStored, Counted
<1>8. DeliveriesKept'
  BY <1>1, <1>3 DEF IInv, Kept, DeliveriesKept
<1>9. Cached'
  BY <1>1, <1>3, CacheStays DEF IInv
<1> QED
  BY <1>5, <1>6, <1>7, <1>8, <1>9 DEF IInv, Kept

LEMMA CreateDeliveryStep ==
  ASSUME IInv, NEW json \in DeliveryBodies, NEW fault, CreateDelivery(json, fault)
  PROVE  IInv'
<1> DEFINE o == PostDelivery(gen, db, json, fault)
<1>0. gen \in {2, 3, 4, 6}
  BY DEF IInv, Rows, CreateDelivery
<1>1. /\ gen \in {2, 3, 4, 6} /\ Good(db, gen)
      /\ db' = o.db
      /\ shipped' = IF Len(o.db.deliveries) > Len(db.deliveries)
                    THEN Append(shipped, json) ELSE shipped
      /\ faults' \in Nat
      /\ UNCHANGED <<gen, nextUser, nextLogin, cache, told, named, posted, made, unsure>>
  BY <1>0, MeetCounts DEF IInv, Rows, CreateDelivery
<1>2. DeliveryOutcome(gen, json, db, o)
  BY <1>1, PostDeliveryOutcome
<1> HIDE DEF o
<1>3. Good(db', gen) /\ db'.users = db.users /\ ParcelsFollow(db, db')
  BY <1>1, <1>2 DEF DeliveryOutcome
<1>4. /\ Len(db.deliveries) \in Nat /\ DOMAIN db.deliveries = 1 .. Len(db.deliveries)
      /\ DOMAIN shipped = 1 .. Len(db.deliveries)
  BY <1>1, TableLen DEF Good, IInv, Rows
<1>5. IsTable(shipped') /\ Len(shipped') = Len(db'.deliveries) /\ DeliveriesKept'
  <2>1. CASE db'.deliveries = db.deliveries
    <3>1. shipped' = shipped
      BY <1>1, <1>4, <2>1
    <3> QED
      BY <1>1, <2>1, <3>1 DEF IInv, Rows, Kept, DeliveriesKept
  <2>2. ASSUME NEW row, DeliveryKept(gen, json, Len(db.deliveries) + 1, row),
               db'.deliveries = Append(db.deliveries, row)
        PROVE  IsTable(shipped') /\ Len(shipped') = Len(db'.deliveries) /\ DeliveriesKept'
    <3>1. /\ Len(db'.deliveries) = Len(db.deliveries) + 1
          /\ DOMAIN db'.deliveries = 1 .. Len(db.deliveries) + 1
          /\ db'.deliveries[Len(db.deliveries) + 1] = row
          /\ \A k \in 1 .. Len(db.deliveries) : db'.deliveries[k] = db.deliveries[k]
      BY <1>1, <2>2, TableAppend DEF Good
    <3>2. shipped' = Append(shipped, json)
      BY <1>1, <1>4, <3>1
    <3>3. /\ IsTable(shipped') /\ Len(shipped') = Len(shipped) + 1
          /\ shipped'[Len(db.deliveries) + 1] = json
          /\ \A k \in 1 .. Len(db.deliveries) : shipped'[k] = shipped[k]
      BY <3>2, TableAppend DEF IInv, Rows
    <3>4. DeliveriesKept'
      BY <1>1, <1>4, <2>2, <3>1, <3>3 DEF IInv, Kept, DeliveriesKept
    <3> QED
      BY <3>1, <3>3, <3>4 DEF IInv, Rows
  <2> QED
    BY <1>1, <1>2, <2>1, <2>2 DEF DeliveryOutcome
<1>6. Len(db'.parcels) = Len(db.parcels)
  <2>1. \A m, n \in Nat : 1 .. m = 1 .. n => m = n
    OBVIOUS
  <2> QED
    BY <1>1, <1>3, <2>1, TableLen DEF Good, ParcelsFollow
<1>7. Rows'
  BY <1>1, <1>3, <1>5, <1>6 DEF IInv, Rows
<1>8. Accounts'
  BY <1>1, <1>3 DEF IInv, Accounts, ToldRows, UsersStored, Counted
<1>9. ParcelsKept'
  BY <1>1, <1>3, ParcelStaysKept DEF IInv, Kept, ParcelsKept, ParcelsFollow
<1>10. Cached'
  BY <1>1, <1>3, CacheStays DEF IInv
<1> QED
  BY <1>5, <1>7, <1>8, <1>9, <1>10 DEF IInv, Kept

LEMMA CountUserStep ==
  ASSUME IInv, NEW l, CountUser(l)
  PROVE  IInv'
<1> DEFINE o == CreateUserHandler4(nextUser, UserBody[l])
<1>1. /\ gen = 4 /\ nextUser \in Nat
      /\ nextUser' = o.next
      /\ told' = IF o.result.status = 201
                 THEN told \cup {Told(l, o.result.shown.id)} ELSE told
      /\ UNCHANGED <<gen, db, nextLogin, cache, named, posted, shipped, made, unsure, faults>>
  BY DEF IInv, Accounts, CountUser
<1>2. \/ o.next = nextUser /\ o.result.status # 201
      \/ o.next = nextUser + 1 /\ o.result.shown.id = nextUser
  BY <1>1, CreateUser4Outcome
<1> HIDE DEF o
<1>3. Rows'
  BY <1>1 DEF IInv, Rows
<1>4. nextUser' \in Nat /\ Counted(told, nextUser)'
  BY <1>1, <1>2 DEF IInv, Accounts, Counted, Told
<1>5. Accounts' /\ Kept'
  BY <1>1, <1>4 DEF IInv, Accounts, Counted, Kept, ParcelsKept, DeliveriesKept
<1>6. Cached'
  BY <1>1, CacheStays DEF IInv
<1> QED
  BY <1>3, <1>5, <1>6 DEF IInv

LEMMA CountLoginStep ==
  ASSUME IInv, NEW l, CountLogin(l)
  PROVE  IInv'
<1> DEFINE o == LoginHandler4(nextLogin, [login |-> l, password |-> Stranger])
<1>1. /\ gen = 4 /\ nextLogin \in Nat
      /\ nextLogin' = o.next
      /\ named' = IF o.result.status = 200
                  THEN named \cup {Told(l, o.result.shown.user_id)} ELSE named
      /\ UNCHANGED <<gen, db, nextUser, cache, told, posted, shipped, made, unsure, faults>>
  BY DEF IInv, Accounts, CountLogin
<1>2. \/ o.next = nextLogin /\ o.result.status # 200
      \/ o.next = nextLogin + 1 /\ o.result.shown.user_id = nextLogin
  BY <1>1, Login4Outcome
<1> HIDE DEF o
<1>3. Rows'
  BY <1>1 DEF IInv, Rows
<1>4. nextLogin' \in Nat /\ Counted(named, nextLogin)'
  BY <1>1, <1>2 DEF IInv, Accounts, Counted, Told
<1>5. Accounts' /\ Kept'
  BY <1>1, <1>4 DEF IInv, Accounts, Counted, Kept, ParcelsKept, DeliveriesKept
<1>6. Cached'
  BY <1>1, CacheStays DEF IInv
<1> QED
  BY <1>3, <1>5, <1>6 DEF IInv

LEMMA RestartStep == ASSUME IInv, Restart PROVE IInv'
<1>1. Good(EmptyDb, gen) /\ Len(EmptyDb.parcels) = 0 /\ Len(EmptyDb.deliveries) = 0
      /\ DOMAIN EmptyDb.users = {} /\ DOMAIN EmptyDb.parcels = {}
      /\ DOMAIN EmptyDb.deliveries = {}
  BY EmptyGood, TableEmpty, TableLen DEF EmptyDb
<1>2. Rows'
  <2>1. CASE gen = 2
    BY <1>1, <2>1, TableEmpty DEF IInv, Rows, Restart
  <2>2. CASE gen # 2
    BY <2>2 DEF IInv, Rows, Restart
  <2> QED
    BY <2>1, <2>2
<1>3. Accounts'
  BY <1>1 DEF Restart, Accounts, ToldRows, UsersStored, Counted
<1>4. Kept'
  BY <1>1 DEF IInv, Restart, Kept, ParcelsKept, DeliveriesKept
<1>5. Cached'
  BY DEF IInv, Restart, Cached, Remembers
<1> QED
  BY <1>2, <1>3, <1>4, <1>5 DEF IInv

\* The storages' own operations, and the cache.
LEMMA UnaskedStep ==
  ASSUME IInv, NEW d, Unasked(d), Good(d, gen), Follows(db, d)
  PROVE  IInv'
<1>1. Cached'
  BY CacheStays DEF IInv, Unasked, Follows
<1> QED
  BY <1>1, InPlace DEF Unasked

LEMMA RememberStep ==
  ASSUME IInv, NEW l \in Logins, NEW kept, Remember([cache EXCEPT ![l] = kept]),
         Remembers(db, l, kept)
  PROVE  IInv'
<1>1. UNCHANGED <<gen, db, nextUser, nextLogin, told, named, posted, shipped, made, unsure, faults>>
  BY DEF Remember
<1>2. Good(db', gen) /\ Follows(db, db')
  BY <1>1, FollowsItself DEF IInv, Rows
<1>3. Cached'
  BY <1>1 DEF IInv, Cached, Remember
<1> QED
  BY <1>1, <1>2, <1>3, InPlace

LEMMA LookUpStep ==
  ASSUME IInv, NEW l \in Logins, NEW from \in 1 .. 2, LookUp(l, from)
  PROVE  IInv'
<1> DEFINE kept == SaveUserByLogin5(db, cache[l], [login |-> l, from |-> from, to |-> from])
<1>1. gen = 5 /\ Good(db, 5) /\ OneEach(db) /\ Remembers(db, l, cache[l])
  BY DEF LookUp, Remember, IInv, Rows, Accounts, ToldRows, OneEach, Cached
<1>2. Remembers(db, l, kept)
  <2>1. from \in {1, 2}
    OBVIOUS
  <2> QED
    BY <1>1, <2>1, SavedLogin
<1>3. Remember([cache EXCEPT ![l] = kept])
  BY DEF LookUp, IInv, Cached
<1> HIDE DEF kept
<1> QED
  BY <1>2, <1>3, RememberStep

\* Every step keeps the invariant.
LEMMA NextIInv == ASSUME IInv, [Next]_vars PROVE IInv'
<1>1. gen \in 2 .. 6 /\ Good(db, gen)
  BY DEF IInv, Rows
<1>2. ASSUME NEW l \in Logins, NEW fault, RegisterUser(l, fault) PROVE IInv'
  BY <1>2, RegisterUserStep
<1>3. ASSUME NEW l, CountUser(l) \/ CountLogin(l) PROVE IInv'
  BY <1>3, CountUserStep, CountLoginStep
<1>4. ASSUME NEW l \in Logins, Expire(l) PROVE IInv'
  BY <1>4, RememberStep DEF Expire, Remembers
<1>5. ASSUME NEW json \in ParcelBodies, NEW fault, CreateParcel(json, fault) PROVE IInv'
  BY <1>5, CreateParcelStep
<1>6. ASSUME NEW json \in DeliveryBodies, NEW fault, CreateDelivery(json, fault) PROVE IInv'
  BY <1>6, CreateDeliveryStep
<1>7. ASSUME NEW id \in DOMAIN db.deliveries, NEW status \in DeliveryStatuses,
             ChangeDelivery(id, status)
      PROVE  IInv'
  <2> DEFINE d == UpdateDeliveryStatus(gen, db, id, status)
  <2>1. gen \in {2, 3, 4, 6} /\ Unasked(d)
    BY <1>1, <1>7 DEF ChangeDelivery
  <2>2. Good(d, gen) /\ Follows(db, d)
    BY <1>1, <2>1, UpdateDeliveryStatusGood
  <2> HIDE DEF d
  <2> QED
    BY <2>1, <2>2, UnaskedStep
<1>8. ASSUME NEW id \in DOMAIN db.deliveries, AddEvent(id) PROVE IInv'
  <2> DEFINE d == AddDeliveryEvent4(db, id, "in_transit", "depot", "scanned")
  <2>1. Unasked(d)
    BY <1>8 DEF AddEvent
  <2>2. Good(d, gen) /\ Follows(db, d)
    BY <1>1, AddEventGood
  <2> HIDE DEF d
  <2> QED
    BY <2>1, <2>2, UnaskedStep
<1>9. ASSUME NEW id \in DOMAIN db.parcels, NEW status \in ParcelStatuses, ChangeParcel(id, status)
      PROVE  IInv'
  <2> DEFINE d == UpdateParcelStatus(gen, db, id, status)
  <2>1. Unasked(d)
    BY <1>9 DEF ChangeParcel
  <2>2. Good(d, gen) /\ Follows(db, d)
    BY <1>1, UpdateParcelStatusGood
  <2> HIDE DEF d
  <2> QED
    BY <2>1, <2>2, UnaskedStep
<1>10. ASSUME NEW id \in DOMAIN db.parcels, NEW feature \in Features, AddFeature(id, feature)
       PROVE  IInv'
  <2> DEFINE d == AddFeatureToParcel4(db, id, feature)
  <2>1. gen = 4 /\ Unasked(d)
    BY <1>10 DEF AddFeature
  <2>2. db.parcels[id].features \in Seq(Features)
    BY <1>10, <2>1 DEF IInv, Kept, ParcelsKept, ParcelKept, Begins
  <2>3. Good(d, gen) /\ Follows(db, d)
    BY <1>1, <1>10, <2>2, AddFeatureGood
  <2> HIDE DEF d
  <2> QED
    BY <2>1, <2>3, UnaskedStep
<1>11. ASSUME NEW l \in Logins, NEW from \in 1 .. 2, LookUp(l, from) PROVE IInv'
  BY <1>11, LookUpStep
<1>12. CASE Restart
  BY <1>12, RestartStep
<1>13. CASE UNCHANGED vars
  <2>1. Good(db', gen) /\ Follows(db, db')
    BY <1>1, <1>13, FollowsItself DEF vars
  <2>2. Cached'
    BY <1>13, CacheStays DEF vars, IInv
  <2> QED
    BY <1>13, <2>1, <2>2, InPlace DEF vars
<1> QED
  BY <1>2, <1>3, <1>4, <1>5, <1>6, <1>7, <1>8, <1>9, <1>10, <1>11, <1>12, <1>13 DEF Next

-----------------------------------------------------------------------------
(* Logins.                                                                 *)

\* The generations with users run the same login handler, on the password or
\* on its hash.
LEMMA LoginHandled ==
  ASSUME NEW g \in {2, 3, 5, 6}, NEW d, NEW l, NEW password
  PROVE  LET found == VerifyCredentials2(d, l, Secret(g, password))
         IN  PostLogin(g, d, [login |-> l, password |-> password]) =
               IF {l, password} \cap {Null, Empty} # {} THEN Error(400)
               ELSE LoginAnswer(found, GetUserById2(d, found[1]))
<1> DEFINE json == [login |-> l, password |-> password]
           parsed == ParseLoginRequest(json)
<1>1. /\ Null \in {l, password} => parsed = <<>>
      /\ Null \notin {l, password} =>
           parsed # <<>> /\ parsed[1].login = l /\ parsed[1].password = password
  BY DEF ParseLoginRequest, Parse
<1>2. Incomplete(parsed) <=> {l, password} \cap {Null, Empty} # {}
  <2> HIDE DEF parsed
  <2> QED
    BY <1>1 DEF Incomplete
<1>3. LoginHandler2(d, json) =
        IF Incomplete(parsed) THEN Error(400)
        ELSE LoginAnswer(VerifyCredentials2(d, parsed[1].login, parsed[1].password),
                         GetUserById2(d, VerifyCredentials2(d, parsed[1].login, parsed[1].password)[1]))
  BY DEF LoginHandler2
<1>4. ASSUME NEW handler \in {LoginHandler3(d, json), LoginHandler5(d, json), LoginHandler6(d, json)}
      PROVE  handler =
        IF Incomplete(parsed) THEN Error(400)
        ELSE LoginAnswer(VerifyCredentials2(d, parsed[1].login, HashPassword(parsed[1].password)),
                         GetUserById2(d, VerifyCredentials2(d, parsed[1].login,
                                                            HashPassword(parsed[1].password))[1]))
  <2>1. \A id : /\ GetUserById3(d, id) = GetUserById2(d, id)
                /\ GetUserById5(d, id) = GetUserById2(d, id)
                /\ GetUserById6(d, id) = GetUserById2(d, id)
    BY DEF GetUserById2, GetUserById3, GetUserById5, GetUserById6, UserDto2, UserDto3
  <2> HIDE DEF parsed
  <2> QED
    BY <1>4, <2>1 DEF LoginHandler3, LoginHandler5, LoginHandler6, VerifyCredentials3,
          VerifyCredentials5, VerifyCredentials6, parsed
<1> HIDE DEF parsed, json
<1> DEFINE secret == Secret(g, password)
           o == PostLogin(g, d, json)
<1>5. CASE {l, password} \cap {Null, Empty} # {}
  <2>1. o \in {LoginHandler2(d, json), LoginHandler3(d, json), LoginHandler5(d, json),
               LoginHandler6(d, json)}
    BY DEF PostLogin
  <2>2. Incomplete(parsed)
    BY <1>2, <1>5
  <2>3. o = Error(400)
    BY <1>3, <1>4, <2>1, <2>2
  <2> QED
    BY <1>5, <2>3 DEF json
<1>6. CASE {l, password} \cap {Null, Empty} = {}
  <2>1. parsed[1].login = l /\ parsed[1].password = password
    BY <1>1, <1>6
  <2>2. ~Incomplete(parsed)
    BY <1>2, <1>6
  <2>3. o = LoginAnswer(VerifyCredentials2(d, l, secret),
                        GetUserById2(d, VerifyCredentials2(d, l, secret)[1]))
    <3>1. CASE g = 2
      BY <1>3, <2>1, <2>2, <3>1 DEF PostLogin, Secret
    <3>2. CASE g \in {3, 5, 6}
      <4>1. o \in {LoginHandler3(d, json), LoginHandler5(d, json), LoginHandler6(d, json)}
        BY <3>2 DEF PostLogin
      <4> HIDE DEF o
      <4> QED
        BY <1>4, <2>1, <2>2, <3>2, <4>1 DEF Secret
    <3> QED
      BY <3>1, <3>2
  <2> QED
    BY <1>6, <2>3 DEF json
<1> QED
  BY <1>5, <1>6

\* What a login is answered when there is an account, and when there is none.
LEMMA LoginAnswered ==
  ASSUME NEW g \in {2, 3, 5, 6}, NEW d, Good(d, g), OneEach(d),
         \A k \in DOMAIN d.users : "login" \in DOMAIN d.users[k],
         NEW l, l # Nothing, NEW password, {l, password} \cap {Null, Empty} = {},
         NEW k, HasLogin(d, k, l)
  PROVE  PostLogin(g, d, [login |-> l, password |-> password]) =
           IF d.users[k].password = Secret(g, password)
           THEN Answer(200, [user_id |-> k, login |-> l]) ELSE Error(401)
<1> DEFINE secret == Secret(g, password)
           found == VerifyCredentials2(d, l, secret)
           ids == Ascending({j \in DOMAIN d.users : d.users[j].login = l})
           user == With(d.users[k], "id", k)
           auth == [user_id |-> k, login |-> l]
           o == PostLogin(g, d, [login |-> l, password |-> password])
<1>1. o = LoginAnswer(found, GetUserById2(d, found[1]))
  BY LoginHandled
<1> HIDE DEF o, secret
<1>2. found = IF d.users[k].password = secret THEN <<k>> ELSE <<>>
  <2>1. found = IF ids # <<>> /\ d.users[ids[1]].password = secret THEN <<ids[1]>> ELSE <<>>
    BY DEF VerifyCredentials2, Where
  <2>2. ids = <<k>>
    BY WhereLogin
  <2> HIDE DEF ids, found
  <2> QED
    BY <2>1, <2>2
<1>3. GetUserById2(d, k) = <<user>> /\ user.id = k /\ user.login = l
  BY DEF GetUserById2, UserDto2, ById, With, HasLogin
<1>4. SerializeAuthResponse(auth) = auth
  <2>1. k \in Nat
    BY TableLen DEF Good, HasLogin
  <2> QED
    BY <2>1, ValuesAssumption DEF SerializeAuthResponse, Serialize
<1> HIDE DEF found, user
<1>5. CASE d.users[k].password # secret
  BY <1>1, <1>2, <1>5 DEF LoginAnswer, o, secret
<1>6. CASE d.users[k].password = secret
  <2>1. LoginAnswer(<<k>>, <<user>>) =
          Answer(200, SerializeAuthResponse([user_id |-> user.id, login |-> user.login]))
    BY DEF LoginAnswer
  <2>2. o = LoginAnswer(<<k>>, <<user>>)
    BY <1>1, <1>2, <1>3, <1>6
  <2> QED
    BY <1>3, <1>4, <1>6, <2>1, <2>2 DEF o, secret
<1> QED
  BY <1>5, <1>6

\* A login nobody has is refused.
LEMMA NobodyAnswered ==
  ASSUME NEW g \in {2, 3, 5, 6}, NEW d, NEW l, \A k \in DOMAIN d.users : d.users[k].login # l,
         NEW password, {l, password} \cap {Null, Empty} = {}
  PROVE  PostLogin(g, d, [login |-> l, password |-> password]) = Error(401)
<1> DEFINE found == VerifyCredentials2(d, l, Secret(g, password))
<1>1. PostLogin(g, d, [login |-> l, password |-> password]) =
        LoginAnswer(found, GetUserById2(d, found[1]))
  BY LoginHandled
<1>2. Ascending({j \in DOMAIN d.users : d.users[j].login = l}) = <<>>
  <2>1. {j \in DOMAIN d.users : d.users[j].login = l} = {}
    OBVIOUS
  <2> QED
    BY <2>1, AscendingNone
<1>3. found = <<>>
  BY <1>2 DEF VerifyCredentials2, Where
<1> QED
  BY <1>1, <1>3 DEF LoginAnswer

\* Whoever has an account was registered with the body of the login, and gets
\* the account's number for that password and for no other.
LEMMA AccountRow ==
  ASSUME IInv, gen # 4, NEW k, NEW l, HasLogin(db, k, l)
  PROVE  /\ l \in Logins /\ l # Nothing /\ UserBody[l].password # Stranger
         /\ {l, UserBody[l].password} \cap {Null, Empty} = {}
         /\ db.users[k].password = Secret(gen, UserBody[l].password)
<1>0. gen \in {2, 3, 5, 6}
  BY DEF IInv, Rows
<1>1. gen \in {2, 3, 5, 6} /\ Good(db, gen) /\ OneEach(db) /\ UsersStored
  BY <1>0 DEF IInv, Rows, Accounts, ToldRows, OneEach
<1>3. /\ l \in Logins /\ UserBody[l].login = l
      /\ db.users[k] = StoredUser(gen, UserBody[l])
      /\ ~Incomplete(ParseUserRequest2(UserBody[l]))
  <2>1. PICK m \in Logins : /\ db.users[k] = StoredUser(gen, UserBody[m])
                            /\ ~Incomplete(ParseUserRequest2(UserBody[m]))
    BY <1>1 DEF UsersStored, HasLogin
  <2>2. l = UserBody[m].login
    BY <2>1, StoredFields DEF Incomplete, HasLogin
  <2>3. UserBody[m].login = m
    BY BodiesAssumption
  <2> QED
    BY <2>1, <2>2, <2>3
<1>4. /\ {"login", "password"} \subseteq DOMAIN UserBody[l]
      /\ {l, UserBody[l].password} \cap {Null, Empty} = {}
      /\ db.users[k].password = Secret(gen, UserBody[l].password)
  BY <1>3, ParsedUser, StoredFields DEF Incomplete
<1>5. l # Nothing /\ UserBody[l].password # Stranger
  <2>1. UserBody[l].login # Nothing
    BY <1>3, <1>4, BodiesAssumption
  <2> QED
    BY <1>3, <1>4, <2>1, ValuesAssumption
<1> QED
  BY <1>3, <1>4, <1>5

\* The generations with accounts, and the shape of theirs.
LEMMA AccountsShape ==
  ASSUME IInv, gen # 4
  PROVE  /\ gen \in {2, 3, 5, 6} /\ Good(db, gen) /\ OneEach(db)
         /\ \A k \in DOMAIN db.users : "login" \in DOMAIN db.users[k]
<1>1. gen \in {2, 3, 5, 6}
  BY DEF IInv, Rows
<1>2. Good(db, gen) /\ OneEach(db) /\ UsersStored
  BY DEF IInv, Rows, Accounts, ToldRows, OneEach
<1>3. \A k \in DOMAIN db.users : "login" \in DOMAIN db.users[k]
  BY <1>2, StoredFields DEF UsersStored, Incomplete
<1> QED
  BY <1>1, <1>2, <1>3

\* An account lets its login in with the password of its body.
LEMMA AccountLogsIn ==
  ASSUME IInv, gen # 4, NEW k, NEW l, HasLogin(db, k, l)
  PROVE  LoginAs(l, UserBody[l].password) = Answer(200, [user_id |-> k, login |-> l])
<1>1. /\ l # Nothing /\ {l, UserBody[l].password} \cap {Null, Empty} = {}
      /\ db.users[k].password = Secret(gen, UserBody[l].password)
  BY AccountRow
<1>2. /\ gen \in {2, 3, 5, 6} /\ Good(db, gen) /\ OneEach(db)
      /\ \A j \in DOMAIN db.users : "login" \in DOMAIN db.users[j]
  BY AccountsShape
<1>3. LoginAs(l, UserBody[l].password) =
        IF db.users[k].password = Secret(gen, UserBody[l].password)
        THEN Answer(200, [user_id |-> k, login |-> l]) ELSE Error(401)
  BY <1>1, <1>2, LoginAnswered DEF LoginAs
<1> QED
  BY <1>1, <1>3

\* Nobody logs in with the stranger's password.
LEMMA StrangerRefused ==
  ASSUME IInv, gen # 4, NEW l
  PROVE  LoginAs(l, Stranger).status \in {400, 401}
<1>1. CASE {l, Stranger} \cap {Null, Empty} # {}
  <2>1. LoginAs(l, Stranger) = Error(400)
    BY <1>1, AccountsShape, LoginHandled DEF LoginAs
  <2> QED
    BY <2>1 DEF Error, Answer
<1>2. CASE /\ {l, Stranger} \cap {Null, Empty} = {}
           /\ \A k \in DOMAIN db.users : db.users[k].login # l
  <2>1. LoginAs(l, Stranger) = Error(401)
    BY <1>2, AccountsShape, NobodyAnswered DEF LoginAs
  <2> QED
    BY <2>1 DEF Error, Answer
<1>3. ASSUME {l, Stranger} \cap {Null, Empty} = {},
             NEW k, HasLogin(db, k, l)
      PROVE  LoginAs(l, Stranger).status \in {400, 401}
  <2>1. /\ l # Nothing /\ UserBody[l].password # Stranger
        /\ db.users[k].password = Secret(gen, UserBody[l].password)
    BY <1>3, AccountRow
  <2>2. db.users[k].password # Secret(gen, Stranger)
    BY <2>1 DEF Secret, HashPassword
  <2>3. /\ gen \in {2, 3, 5, 6} /\ Good(db, gen) /\ OneEach(db)
        /\ \A j \in DOMAIN db.users : "login" \in DOMAIN db.users[j]
    BY AccountsShape
  <2>4. LoginAs(l, Stranger) =
          IF db.users[k].password = Secret(gen, Stranger)
          THEN Answer(200, [user_id |-> k, login |-> l]) ELSE Error(401)
    BY <1>3, <2>1, <2>3, LoginAnswered DEF LoginAs
  <2> QED
    BY <2>2, <2>4 DEF Error, Answer
<1> QED
  BY <1>1, <1>2, <1>3 DEF HasLogin

\* Accounts work in every state with the invariant.
LEMMA AccountsInv == IInv => AccountsWork
<1> SUFFICES ASSUME IInv, gen # 4 PROVE
      /\ \A t \in told :
           LoginAs(t.login, UserBody[t.login].password) =
             Answer(200, [user_id |-> t.id, login |-> t.login])
      /\ \A l \in Logins :
           /\ LoginAs(l, Stranger).status \in {400, 401}
           /\ \/ PostUser(gen, db, UserBody[l], "none").result.status # 409
              \/ LoginAs(l, UserBody[l].password).status = 200
              \/ \E k \in DOMAIN db.users : /\ db.users[k].login # l
                                            /\ db.users[k].email = UserBody[l].email
  BY DEF AccountsWork
<1>1. gen \in {2, 3, 5, 6} /\ Good(db, gen) /\ ToldRows
  BY DEF IInv, Rows, Accounts
<1>2. ASSUME NEW t \in told
      PROVE  LoginAs(t.login, UserBody[t.login].password) =
               Answer(200, [user_id |-> t.id, login |-> t.login])
  BY <1>1, AccountLogsIn DEF ToldRows, HasLogin
<1>3. ASSUME NEW l \in Logins PROVE LoginAs(l, Stranger).status \in {400, 401}
  BY StrangerRefused
<1>4. ASSUME NEW l \in Logins, PostUser(gen, db, UserBody[l], "none").result.status = 409
      PROVE  \/ LoginAs(l, UserBody[l].password).status = 200
             \/ \E k \in DOMAIN db.users : /\ db.users[k].login # l
                                           /\ db.users[k].email = UserBody[l].email
  <2>1. PICK k \in DOMAIN db.users : \/ db.users[k].login = l
                                     \/ db.users[k].email = UserBody[l].email
    BY <1>1, <1>4, PostUserOutcome, BodiesAssumption
  <2>2. CASE db.users[k].login = l
    <3>1. LoginAs(l, UserBody[l].password) = Answer(200, [user_id |-> k, login |-> l])
      BY <2>2, AccountLogsIn DEF HasLogin
    <3> QED
      BY <3>1 DEF Answer
  <2> QED
    BY <2>1, <2>2
<1> QED
  BY <1>2, <1>3, <1>4

-----------------------------------------------------------------------------
(* What a client is shown agrees with what it posted.                      *)

\* The page of AnswersAgree is one a client can ask for.
LEMMA WholePageBounded ==
  ASSUME NEW f \in {"user_id", "sender_id", "receiver_id"}, NEW u \in Nat
  PROVE  LET q == With(WholePage, f, u)
         IN  Bounded(q) /\ DOMAIN q = {"from", "to", f} /\ q[f] = u
<1> DEFINE q == With(WholePage, f, u)
<1>1. /\ DOMAIN q = {"from", "to", f} /\ q[f] = u
      /\ q.from = 1 /\ q.to = MaxReserve
  BY DEF With, WholePage
<1> HIDE DEF q
<1>2. Bounded(q)
  BY <1>1 DEF Bounded
<1> QED
  BY <1>1, <1>2 DEF q

\* The order of a query changes no table.
LEMMA InOrderIs ==
  ASSUME IInv, NEW plan
  PROVE  LET e == InOrder(plan)
         IN  /\ e.users = db.users /\ e.parcels = db.parcels /\ e.deliveries = db.deliveries
             /\ e.plan = plan
<1>1. DOMAIN db = {"users", "parcels", "deliveries"}
  <2>1. db = [users |-> db.users, parcels |-> db.parcels, deliveries |-> db.deliveries]
    BY GoodShape DEF IInv, Rows
  <2> QED
    BY <2>1
<1> QED
  BY <1>1 DEF InOrder, With

\* The ids of rows are the numbers from 1.
LEMMA RowIds ==
  ASSUME IInv
  PROVE  /\ Len(db.users) \in Nat /\ DOMAIN db.users = 1 .. Len(db.users)
         /\ Len(db.parcels) \in Nat /\ DOMAIN db.parcels = 1 .. Len(db.parcels)
         /\ Len(db.deliveries) \in Nat /\ DOMAIN db.deliveries = 1 .. Len(db.deliveries)
         /\ gen \in 2 .. 6 /\ Good(db, gen)
BY TableLen DEF IInv, Rows, Good

\* Every parcel has a sender.
LEMMA SendersKnown ==
  ASSUME IInv
  PROVE  HasSenders(db)
<1> SUFFICES ASSUME NEW p \in DOMAIN db.parcels PROVE db.parcels[p].sender_id # Nothing
  BY DEF HasSenders
<1>1. /\ posted[p] \in ParcelBodies /\ "sender_id" \in DOMAIN posted[p]
      /\ db.parcels[p].sender_id = posted[p].sender_id
  BY DEF IInv, Kept, ParcelsKept, ParcelKept
<1> QED
  BY <1>1, BodiesAssumption

\* Every parcel, and every delivery, that is listed agrees with its body.
LEMMA ParcelListsAgree ==
  ASSUME IInv, NEW u \in DOMAIN db.users \cup {1},
         NEW doc \in Elements(GetParcels(gen, InOrder("insertion"), With(WholePage, "user_id", u)))
  PROVE  Agrees(gen, posted[doc.id], doc)
<1> DEFINE e == InOrder("insertion")
           q == With(WholePage, "user_id", u)
           S == Having(e.parcels, "sender_id", q.user_id)
           page == PageOf(gen, e, S, q)
           answer == GetParcels(gen, e, q)
<1>1. gen \in 2 .. 6 /\ u \in Nat
  BY RowIds
<1>2. e.parcels = db.parcels
  BY InOrderIs
<1>3. Bounded(q) /\ "user_id" \in DOMAIN q /\ q.user_id \in Nat
  BY <1>1, WholePageBounded
<1> HIDE DEF e, q
<1>4. answer = ParcelsPage(gen, e, page) \/ answer = Error(400)
  BY <1>1, <1>3, ParcelsAnswer
<1>5. S \subseteq 1 .. Len(db.parcels) /\ S \subseteq DOMAIN db.parcels
  BY <1>2, RowIds DEF Having
<1> HIDE DEF S
<1>6. \A i \in DOMAIN page : page[i] \in S
  BY <1>3, <1>5, RowIds, PageWithin
<1> HIDE DEF page, answer
<1>7. PICK i \in DOMAIN page : doc = ShownParcel(gen, page[i], e.parcels[page[i]])
  <2>1. doc \in Elements(answer)
    BY DEF answer, e, q
  <2>2. answer = ParcelsPage(gen, e, page) /\ doc \in ToSet(answer.shown)
    BY <1>4, <2>1 DEF Elements, Error, Answer
  <2>3. answer.shown = [i \in DOMAIN page |-> ShownParcel(gen, page[i], e.parcels[page[i]])]
    BY <2>2 DEF ParcelsPage, Answer
  <2> QED
    BY <2>2, <2>3 DEF ToSet
<1> DEFINE k == page[i]
<1>8. k \in DOMAIN db.parcels /\ k \in Nat
  BY <1>5, <1>6, RowIds
<1> HIDE DEF k
<1>9. posted[k] \in ParcelBodies /\ ParcelKept(gen, posted[k], db.parcels[k])
  BY <1>8 DEF IInv, Kept, ParcelsKept
<1>10. doc = ShownParcel(gen, k, db.parcels[k])
  BY <1>2, <1>7 DEF k
<1>11. doc.id = k /\ Agrees(gen, posted[k], doc)
  BY <1>1, <1>8, <1>9, <1>10, ParcelAgrees
<1> QED
  BY <1>11

LEMMA DeliveryListsAgree ==
  ASSUME IInv, gen # 5, NEW u \in DOMAIN db.users \cup {1}, NEW by \in {"sender_id", "receiver_id"},
         NEW doc \in Elements(GetDeliveries(gen, InOrder("insertion"), With(WholePage, by, u)))
  PROVE  DeliveryAgrees(gen, db, shipped[doc.id], doc)
<1> DEFINE e == InOrder("insertion")
           q == With(WholePage, by, u)
           S == DeliveriesOf(gen, e, by, q[by])
           page == PageOf(gen, e, S, q)
           answer == GetDeliveries(gen, e, q)
<1>1. gen \in {2, 3, 4, 6} /\ u \in Nat
  BY RowIds
<1>2. e.parcels = db.parcels /\ e.deliveries = db.deliveries
  BY InOrderIs
<1>3. Bounded(q) /\ DOMAIN q = {"from", "to", by} /\ q[by] \in Nat
  BY <1>1, WholePageBounded
<1> HIDE DEF e, q
<1>4. answer \in {DeliveriesPage(gen, e, page), Error(400), Error(500)}
  BY <1>1, <1>3, DeliveriesAnswer
<1>5. S \subseteq 1 .. Len(db.deliveries) /\ S \subseteq DOMAIN db.deliveries
  BY <1>2, RowIds DEF DeliveriesOf, Having
<1> HIDE DEF S
<1>6. \A i \in DOMAIN page : page[i] \in S
  BY <1>3, <1>5, RowIds, PageWithin
<1> HIDE DEF page, answer
<1>7. PICK i \in DOMAIN page : doc = ShownDelivery(gen, e, page[i])
  <2>1. doc \in Elements(answer)
    BY DEF answer, e, q
  <2>2. answer = DeliveriesPage(gen, e, page) /\ doc \in ToSet(answer.shown)
    BY <1>4, <2>1 DEF Elements, Error, Answer
  <2>3. answer.shown = [i \in DOMAIN page |-> ShownDelivery(gen, e, page[i])]
    BY <2>2 DEF DeliveriesPage, Answer
  <2> QED
    BY <2>2, <2>3 DEF ToSet
<1> DEFINE k == page[i]
<1>8. k \in DOMAIN db.deliveries
  BY <1>5, <1>6
<1> HIDE DEF k
<1>9. shipped[k] \in DeliveryBodies /\ DeliveryKept(gen, shipped[k], k, db.deliveries[k])
  BY <1>8 DEF IInv, Kept, DeliveriesKept
<1>10. doc = ShownDelivery(gen, db, k)
  <2>1. ShownDelivery(gen, e, k) = ShownDelivery(gen, db, k)
    BY <1>2 DEF ShownDelivery, DeliveryDto2, DeliveryDto3, DeliveryDto4, SenderOf2
  <2> QED
    BY <1>7, <2>1 DEF k
<1>11. doc.id = k /\ DeliveryAgrees(gen, db, shipped[k], doc)
  BY <1>1, <1>8, <1>9, <1>10, RowIds, SendersKnown, DeliveryAgreement
<1> QED
  BY <1>11

\* What a POST is answered with agrees with its body.
LEMMA ParcelAnswerAgrees ==
  ASSUME IInv, NEW json \in ParcelBodies, PostParcel(gen, db, json, "none").result.status = 201
  PROVE  Agrees(gen, json, PostParcel(gen, db, json, "none").result.shown)
<1> DEFINE o == PostParcel(gen, db, json, "none")
           k == Len(db.parcels) + 1
<1>1. ParcelOutcome(gen, json, db, o, "none")
  BY RowIds, PostParcelOutcome
<1> HIDE DEF o
<1>2. PICK row : ParcelKept(gen, json, row) /\ o.result.shown = ShownParcel(gen, k, row)
  BY <1>1 DEF ParcelOutcome, o
<1>3. Agrees(gen, json, ShownParcel(gen, k, row))
  BY <1>2, RowIds, ParcelAgrees
<1> QED
  BY <1>2, <1>3 DEF o

LEMMA DeliveryAnswerAgrees ==
  ASSUME IInv, gen # 5, NEW json \in DeliveryBodies,
         PostDelivery(gen, db, json, "none").result.status = 201
  PROVE  LET o == PostDelivery(gen, db, json, "none")
         IN  DeliveryAgrees(gen, o.db, json, o.result.shown)
<1> DEFINE o == PostDelivery(gen, db, json, "none")
           k == Len(db.deliveries) + 1
<1>1. gen \in {2, 3, 4, 6} /\ Good(db, gen)
  BY RowIds
<1>2. DeliveryOutcome(gen, json, db, o)
  BY <1>1, PostDeliveryOutcome
<1> HIDE DEF o
<1>3. Good(o.db, gen) /\ ParcelsFollow(db, o.db)
  BY <1>2 DEF DeliveryOutcome
<1>4. PICK row : /\ DeliveryKept(gen, json, k, row)
                 /\ o.db.deliveries = Append(db.deliveries, row)
                 /\ o.result.shown = ShownDelivery(gen, o.db, k)
  BY <1>2 DEF DeliveryOutcome, o
<1>5. k \in DOMAIN o.db.deliveries /\ o.db.deliveries[k] = row
  BY <1>1, <1>4, RowIds, TableAppend DEF Good
<1>6. HasSenders(o.db)
  <2>1. \A p \in DOMAIN db.parcels : "sender_id" \in DOMAIN db.parcels[p]
    BY <1>1 DEF Good, ParcelRow
  <2> QED
    BY <1>3, <2>1, SendersKnown DEF HasSenders, ParcelsFollow, ParcelFollows
<1> DEFINE e == o.db
<1> HIDE DEF e
<1>7. DeliveryAgrees(gen, e, json, ShownDelivery(gen, e, k))
  BY <1>1, <1>3, <1>4, <1>5, <1>6, DeliveryAgreement DEF e
<1> QED
  BY <1>4, <1>7 DEF o, e

\* Answers agree in every state with the invariant.
LEMMA AnswersInv == IInv => AnswersAgree
BY ParcelListsAgree, DeliveryListsAgree, ParcelAnswerAgrees, DeliveryAnswerAgrees
   DEF AnswersAgree

-----------------------------------------------------------------------------
(* A login and a tracking number are found.                                *)

\* Every account has its fields.
LEMMA AccountFields ==
  ASSUME IInv, gen # 4, NEW k \in DOMAIN db.users
  PROVE  \A f \in {"login", "name", "email"} :
           f \in DOMAIN db.users[k] /\ db.users[k][f] \notin {Null, Nothing}
<1>1. PICK l \in Logins : /\ db.users[k] = StoredUser(gen, UserBody[l])
                          /\ ~Incomplete(ParseUserRequest2(UserBody[l]))
  BY DEF IInv, Accounts, UsersStored
<1> DEFINE json == UserBody[l]
<1>2. ParseUserRequest2(json) # <<>>
  BY <1>1 DEF Incomplete
<1>3. \A f \in DOMAIN json : json[f] # Nothing
  BY BodiesAssumption
<1> HIDE DEF json
<1>4. \A f \in {"login", "name", "email"} : f \in DOMAIN json /\ json[f] # Null
  BY <1>2, ParsedUser
<1>5. \A f \in {"login", "name", "email"} : json[f] \notin {Null, Nothing}
  BY <1>3, <1>4
<1> QED
  BY <1>1, <1>2, <1>5, StoredFields DEF json

\* What the cache of a login is read as.
LEMMA CacheFinds ==
  ASSUME IInv, gen # 4, NEW l \in Logins
  PROVE  LET kept == IF gen = 5 THEN SearchUserByLogin5(cache[l]) ELSE <<>>
         IN  IF cache[l] = <<>> THEN kept = <<>>
             ELSE \E k, x : HasLogin(db, k, l) /\ kept = <<x>> /\ x.id = k
<1>1. Remembers(db, l, cache[l]) /\ (gen # 5 => cache[l] = <<>>)
  BY DEF IInv, Cached
<1>2. CASE cache[l] = <<>>
  BY <1>2 DEF SearchUserByLogin5
<1>3. CASE cache[l] # <<>>
  <2>1. PICK k : HasLogin(db, k, l) /\ cache[l] = <<ShownUser(db, k)>>
    BY <1>1, <1>3 DEF Remembers
  <2>2. k \in Nat /\ k \in DOMAIN db.users
    BY <2>1, RowIds DEF HasLogin
  <2>3. PICK x : SearchUserByLogin5(<<ShownUser(db, k)>>) = <<x>> /\ x.id = k
    BY <2>2, AccountFields, CacheReads
  <2>4. gen = 5 /\ SearchUserByLogin5(cache[l]) = <<x>>
    BY <1>1, <1>3, <2>1, <2>3
  <2> QED
    BY <1>3, <2>1, <2>3, <2>4
<1> QED
  BY <1>2, <1>3

\* A login is found, in the database or in the cache.
LEMMA LoginsFound ==
  ASSUME IInv, gen # 4, NEW l \in Logins, NEW from \in 1 .. 2
  PROVE  LET answer == GetUsers(gen, InOrder("insertion"), cache[l],
                                [login |-> l, from |-> from, to |-> 2])
             owners == {k \in DOMAIN db.users : db.users[k].login = l}
         IN  IF owners # {} /\ (from = 1 \/ gen = 2 \/ cache[l] # <<>>)
             THEN answer.status = 200 /\ owners = {doc.id : doc \in ToSet(answer.shown)}
             ELSE answer.status = 404
<1> DEFINE e == InOrder("insertion")
           b == [from |-> from, to |-> 2]
           owners == {k \in DOMAIN db.users : db.users[k].login = l}
           ids == Ascending(owners)
           page == IF gen = 2 THEN ids ELSE Window(ids, b)
           kept == IF gen = 5 THEN SearchUserByLogin5(cache[l]) ELSE <<>>
           row == IF page = <<>> THEN <<>> ELSE <<With(db.users[page[1]], "id", page[1])>>
           found == IF kept # <<>> THEN kept ELSE row
           answer == GetUsers(gen, e, cache[l], [login |-> l, from |-> from, to |-> 2])
           shows == owners # {} /\ (from = 1 \/ gen = 2 \/ cache[l] # <<>>)
<1>1. gen \in {2, 3, 5, 6} /\ from \in {1, 2}
  BY RowIds
<1>2. e.users = db.users
  BY InOrderIs
<1> HIDE DEF e
<1>3. answer = Each(OneOrNotFound(found), SerializeUserResponse2)
  <2>1. answer = Each(OneOrNotFound(FoundByLogin(gen, e, cache[l], l, from)), SerializeUserResponse2)
    BY <1>1, UsersAnswer
  <2>2. FoundByLogin(gen, e, cache[l], l, from) = FoundByLogin(gen, db, cache[l], l, from)
    BY <1>2 DEF FoundByLogin
  <2>3. FoundByLogin(gen, db, cache[l], l, from) = found
    BY DEF FoundByLogin
  <2> QED
    BY <2>1, <2>2, <2>3
<1>4. IF cache[l] = <<>> THEN kept = <<>>
      ELSE \E k, x : HasLogin(db, k, l) /\ kept = <<x>> /\ x.id = k
  BY CacheFinds
<1>5. OneEach(db) /\ Good(db, gen)
  BY RowIds DEF IInv, Accounts, ToldRows, OneEach
<1> HIDE DEF answer, kept
<1>6. CASE \E k : HasLogin(db, k, l)
  <2>1. PICK k : HasLogin(db, k, l)
    BY <1>6
  <2>2. owners = {k} /\ k # Nothing
    BY <1>5, <2>1, RowIds, NumberIsNotJunk DEF HasLogin, OneEach
  <2>3. ids = <<k>>
    BY <1>5, <2>1, WhereLogin
  <2>4. IF from = 1 \/ gen = 2 THEN page # <<>> /\ page[1] = k ELSE page = <<>>
    BY <1>1, <2>3, WindowOfOne
  <2>5. IF from = 1 \/ gen = 2 THEN \E x : row = <<x>> /\ x.id = k ELSE row = <<>>
    <3>1. With(db.users[k], "id", k).id = k
      BY DEF With
    <3> HIDE DEF page
    <3> QED
      BY <2>4, <3>1
  <2>6. cache[l] # <<>> => \E x : kept = <<x>> /\ x.id = k
    BY <1>4, <1>5, <2>1 DEF HasLogin, OneEach
  <2> HIDE DEF row, ids, owners
  <2>7. IF shows THEN \E x : found = <<x>> /\ x.id = k ELSE found = <<>>
    BY <1>4, <2>2, <2>5, <2>6
  <2> HIDE DEF found
  <2>8. CASE shows
    <3>1. PICK x : found = <<x>> /\ x.id = k
      BY <2>7, <2>8
    <3>2. answer.status = 200 /\ {doc.id : doc \in ToSet(answer.shown)} = {k}
      BY <1>3, <2>2, <3>1, OneUserShown
    <3> QED
      BY <2>2, <2>8, <3>2 DEF owners, answer, e
  <2>9. CASE ~shows
    <3>1. answer.status = 404
      BY <1>3, <2>7, <2>9, NobodyShown
    <3> QED
      BY <2>9, <3>1 DEF owners, answer, e
  <2> QED
    BY <2>8, <2>9
<1>7. CASE ~ \E k : HasLogin(db, k, l)
  <2>1. owners = {}
    BY <1>7 DEF HasLogin
  <2>2. ids = <<>>
    BY <2>1, AscendingNone
  <2>3. page = <<>>
    BY <1>1, <2>2, WindowOfNone
  <2>4. kept = <<>>
    BY <1>4, <1>7
  <2> HIDE DEF page, owners
  <2>5. found = <<>>
    BY <2>3, <2>4
  <2> HIDE DEF found
  <2> QED
    BY <1>3, <2>1, <2>5, NobodyShown DEF owners, answer, e
<1> QED
  BY <1>6, <1>7

\* A delivery is found by its tracking number.
LEMMA TrackingFound ==
  ASSUME IInv, gen # 5, NEW t \in Nat \ {0}
  PROVE  LET answer == GetDeliveries(gen, InOrder("insertion"), [tracking_number |-> t])
             owners == {k \in DOMAIN db.deliveries : db.deliveries[k].tracking_number = t}
         IN  IF owners # {}
             THEN answer.status = 200 /\ owners = {doc.id : doc \in ToSet(answer.shown)}
             ELSE answer.status = 404
<1> DEFINE e == InOrder("insertion")
           owners == {k \in DOMAIN db.deliveries : db.deliveries[k].tracking_number = t}
           ids == Ascending(owners)
           answer == GetDeliveries(gen, e, [tracking_number |-> t])
<1>1. gen \in {2, 3, 4, 6} /\ Good(db, gen)
  BY RowIds
<1>2. e.deliveries = db.deliveries /\ e.parcels = db.parcels
  BY InOrderIs
<1> HIDE DEF e
<1>3. answer = IF ids = <<>> THEN Error(404) ELSE DeliveriesPage(gen, e, <<ids[1]>>)
  <2>1. TrackedIds(e, t) = ids
    BY <1>2 DEF TrackedIds, Having
  <2> QED
    BY <1>1, <2>1, TrackingAnswer
<1>4. owners \subseteq {t}
  <2>1. ASSUME NEW k \in DOMAIN db.deliveries
        PROVE  k \in Nat /\ db.deliveries[k].tracking_number \in {k, Unnumbered(k)}
    <3>1. DeliveryKept(gen, shipped[k], k, db.deliveries[k])
      BY DEF IInv, Kept, DeliveriesKept
    <3> QED
      BY <3>1, RowIds DEF DeliveryKept
  <2> QED
    BY <2>1 DEF Unnumbered
<1> HIDE DEF answer
<1>5. CASE owners = {}
  <2>1. ids = <<>>
    BY <1>5, AscendingNone
  <2> HIDE DEF ids, owners
  <2> QED
    BY <1>3, <1>5, <2>1 DEF Error, Answer, owners, answer, e
<1>6. CASE owners = {t}
  <2>1. ids = <<t>>
    BY <1>6, AscendingOne
  <2>2. t \in DOMAIN db.deliveries
    BY <1>6
  <2>3. ShownDelivery(gen, db, t).id = t
    <3>1. shipped[t] \in DeliveryBodies /\ DeliveryKept(gen, shipped[t], t, db.deliveries[t])
      BY <2>2 DEF IInv, Kept, DeliveriesKept
    <3> QED
      BY <1>1, <2>2, <3>1, SendersKnown, DeliveryAgreement
  <2>4. ShownDelivery(gen, e, t) = ShownDelivery(gen, db, t)
    BY <1>1, <1>2 DEF ShownDelivery, DeliveryDto2, DeliveryDto3, DeliveryDto4, SenderOf2
  <2> DEFINE doc == ShownDelivery(gen, db, t)
             shown == [i \in DOMAIN <<t>> |-> ShownDelivery(gen, e, <<t>>[i])]
  <2>5. answer = Answer(200, shown)
    <3> HIDE DEF owners
    <3> QED
      BY <1>3, <2>1 DEF DeliveriesPage
  <2>6. DOMAIN shown = {1} /\ shown[1] = doc
    <3> HIDE DEF doc
    <3> QED
      BY <2>4 DEF doc
  <2> HIDE DEF doc, shown
  <2>7. ToSet(shown) = {doc}
    BY <2>6 DEF ToSet
  <2>8. answer.status = 200 /\ {t} = {x.id : x \in ToSet(answer.shown)}
    BY <2>3, <2>5, <2>7 DEF Answer, doc
  <2> HIDE DEF owners
  <2> QED
    BY <1>6, <2>8 DEF answer, e, owners
<1> QED
  BY <1>4, <1>5, <1>6

\* Look-ups find in every state with the invariant.
LEMMA LookupsInv == IInv => LookupsFind
<1> SUFFICES ASSUME IInv PROVE LookupsFind
  OBVIOUS
<1>1. \A t \in 1 .. MaxDeliveries + 1 : t \in Nat \ {0}
  OBVIOUS
<1> QED
  BY <1>1, LoginsFound, TrackingFound DEF LookupsFind

-----------------------------------------------------------------------------
(* The pages of a search tile it.                                          *)

\* The place in a list of element i of page p.
PlaceOf(size, p, i) == (p - 1) * size + i

\* A list of m elements is on n pages, and the last is not full.
Enough(n, size, m) == m < n * size

\* n pages of a list, size elements each, with the elements' ids.
Paged(pages, n, ids, size) ==
  /\ DOMAIN pages = 1 .. n
  /\ \A p \in 1 .. n :
       /\ pages[p].status = 200
       /\ DOMAIN pages[p].shown = {i \in 1 .. size : PlaceOf(size, p, i) <= Len(ids)}
       /\ \A i \in DOMAIN pages[p].shown : pages[p].shown[i].id = ids[PlaceOf(size, p, i)]

\* A place of a page is the place of one element of the list.
LEMMA OnePlace ==
  ASSUME NEW size \in Nat \ {0}, NEW p \in Nat \ {0}, NEW q \in Nat \ {0},
         NEW i \in 1 .. size, NEW j \in 1 .. size,
         PlaceOf(size, p, i) = PlaceOf(size, q, j)
  PROVE  p = q /\ i = j
<1>1. ASSUME NEW a \in Nat, NEW b \in Nat, a < b PROVE b * size >= a * size + size
  <2>1. b * size = a * size + (b - a) * size
    OBVIOUS
  <2>2. (b - a) * size >= size
    <3>1. b - a \in Nat \ {0}
      BY <1>1
    <3>2. \A c \in Nat \ {0} : c * size >= size
      OBVIOUS
    <3> QED
      BY <3>1, <3>2
  <2>3. b * size \in Int /\ a * size \in Int /\ (b - a) * size \in Int
    OBVIOUS
  <2> QED
    BY <2>1, <2>2, <2>3
<1> DEFINE a == p - 1
           b == q - 1
<1>2. a \in Nat /\ b \in Nat /\ a * size \in Int /\ b * size \in Int
  OBVIOUS
<1>3. a * size + i = b * size + j
  BY DEF PlaceOf
<1> HIDE DEF a, b
<1>4. ~(a < b) /\ ~(b < a)
  BY <1>1, <1>2, <1>3
<1>5. a = b
  BY <1>2, <1>4
<1>6. i = j
  BY <1>2, <1>3, <1>5
<1> QED
  BY <1>5, <1>6 DEF a, b

\* Every element of the list has a place on a page.
LEMMA SomePlace ==
  ASSUME NEW size \in Nat \ {0}, NEW n \in Nat, NEW m \in Nat, Enough(n, size, m), NEW j \in 1 .. m
  PROVE  \E p \in 1 .. n, i \in 1 .. size : PlaceOf(size, p, i) = j
<1> DEFINE P == {p \in Nat : j <= p * size}
<1>1. n \in P
  BY DEF P, Enough
<1>2. PICK p \in P : \A x \in P : p <= x
  BY <1>1, LeastNumber
<1>3. p # 0 /\ p \in Nat /\ p <= n
  BY <1>1, <1>2
<1>4. p - 1 \in Nat /\ ~(p - 1 >= p)
  BY <1>3
<1>5. p - 1 \notin P
  BY <1>2, <1>4
<1>6. (p - 1) * size < j /\ j <= p * size
  BY <1>2, <1>4, <1>5
<1>7. p * size = (p - 1) * size + size /\ (p - 1) * size \in Int
  BY <1>4
<1>8. j - (p - 1) * size \in 1 .. size
  BY <1>6, <1>7
<1>9. PlaceOf(size, p, j - (p - 1) * size) = j
  BY <1>7 DEF PlaceOf
<1> QED
  BY <1>3, <1>8, <1>9

\* Pages that are answered and hold each id of a set once and no other.
Tiled(S, pages) ==
  /\ \A p \in DOMAIN pages : pages[p].status = 200
  /\ {IdAt(pages, x) : x \in Places(pages)} = S
  /\ \A x, y \in Places(pages) : IdAt(pages, x) = IdAt(pages, y) => x = y

\* Pages of a list of ids, enough of them, hold each id once.
LEMMA Tiling ==
  ASSUME NEW S, NEW ids, Lists(S, ids), NEW size \in Nat \ {0}, NEW n \in Nat,
         Enough(n, size, Len(ids)), NEW pages, Paged(pages, n, ids, size)
  PROVE  Tiled(S, pages)
<1> DEFINE m == Len(ids)
           at(p, i) == PlaceOf(size, p, i)
<1>1. m \in Nat /\ ids \in Seq(S) /\ DOMAIN ids = 1 .. m
  BY LenProperties DEF Lists
<1>2. \A x \in Places(pages) : /\ x = <<x[1], x[2]>> /\ x[1] \in 1 .. n
                               /\ x[2] \in 1 .. size /\ at(x[1], x[2]) <= m
                               /\ IdAt(pages, x) = ids[at(x[1], x[2])]
  BY DEF Places, IdAt, Paged
<1>3. \A p \in 1 .. n, i \in 1 .. size :
        at(p, i) <= m => <<p, i>> \in Places(pages) /\ IdAt(pages, <<p, i>>) = ids[at(p, i)]
  BY DEF Places, IdAt, Paged
<1>4. \A p \in 1 .. n, i \in 1 .. size : at(p, i) \in Int /\ at(p, i) > 0
  <2>1. \A p \in 1 .. n : (p - 1) * size \in Nat
    OBVIOUS
  <2> QED
    BY <2>1 DEF PlaceOf
<1>5. \A x \in Places(pages) : at(x[1], x[2]) \in 1 .. m
  BY <1>1, <1>2, <1>4
<1>6. ASSUME NEW x \in Places(pages), NEW y \in Places(pages), IdAt(pages, x) = IdAt(pages, y)
      PROVE  x = y
  <2>1. at(x[1], x[2]) = at(y[1], y[2])
    BY <1>2, <1>5, <1>6 DEF Lists
  <2>2. /\ x[1] \in 1 .. n /\ y[1] \in 1 .. n
        /\ x[2] \in 1 .. size /\ y[2] \in 1 .. size
    BY <1>2
  <2>3. x[1] = y[1] /\ x[2] = y[2]
    BY <2>1, <2>2, OnePlace
  <2> QED
    BY <1>2, <2>3
<1>7. ASSUME NEW x \in Places(pages) PROVE IdAt(pages, x) \in S
  BY <1>1, <1>2, <1>5
<1>8. ASSUME NEW k \in S PROVE \E x \in Places(pages) : IdAt(pages, x) = k
  <2>1. PICK j \in 1 .. m : ids[j] = k
    BY DEF Lists
  <2>2. PICK p \in 1 .. n, i \in 1 .. size : at(p, i) = j
    <3>1. m \in Nat /\ Enough(n, size, m)
      BY <1>1
    <3> HIDE DEF m
    <3> QED
      BY <3>1, SomePlace
  <2>3. at(p, i) <= m /\ ids[at(p, i)] = k
    BY <1>1, <2>1, <2>2
  <2>4. <<p, i>> \in Places(pages) /\ IdAt(pages, <<p, i>>) = k
    BY <1>3, <2>3
  <2> QED
    BY <2>4
<1>9. \A p \in DOMAIN pages : pages[p].status = 200
  BY DEF Paged
<1> QED
  BY <1>6, <1>7, <1>8, <1>9 DEF Tiled

\* As many pages as PagesTile asks for are enough.
LEMMA LastPage ==
  ASSUME NEW size \in Nat \ {0}, NEW m \in Nat
  PROVE  m \div size + 1 \in Nat /\ Enough(m \div size + 1, size, m)
BY DEF Enough

\* A beginning, element by element.
LEMMA PrefixIs ==
  ASSUME NEW T, NEW p \in Seq(T), NEW s \in Seq(T)
  PROVE  IsPrefix(p, s) <=> Len(p) <= Len(s) /\ \A i \in 1 .. Len(p) : p[i] = s[i]
<1> DEFINE n == Len(p)
           a == SubSeq(p, 1, n)
           b == SubSeq(s, 1, n)
<1>1. n \in Nat /\ Len(s) \in Nat /\ DOMAIN p = 1 .. n /\ DOMAIN s = 1 .. Len(s)
  BY LenProperties
<1>2. a \in Seq(T) /\ Len(a) = n /\ \A i \in 1 .. n : a[i] = p[i]
  <2>1. \A i \in 1 .. n : p[i] \in T
    BY <1>1
  <2>2. /\ a \in Seq(T) /\ Len(a) = IF 1 <= n THEN n - 1 + 1 ELSE 0
        /\ \A i \in 1 .. n - 1 + 1 : a[i] = p[1 + i - 1]
    BY <1>1, <2>1, SubSeqProperties
  <2> HIDE DEF a, n
  <2> QED
    BY <1>1, <2>2
<1>3. n <= Len(s) => b \in Seq(T) /\ Len(b) = n /\ \A i \in 1 .. n : b[i] = s[i]
  <2> SUFFICES ASSUME n <= Len(s)
               PROVE  b \in Seq(T) /\ Len(b) = n /\ \A i \in 1 .. n : b[i] = s[i]
    OBVIOUS
  <2>1. \A i \in 1 .. n : s[i] \in T
    BY <1>1
  <2>2. /\ b \in Seq(T) /\ Len(b) = IF 1 <= n THEN n - 1 + 1 ELSE 0
        /\ \A i \in 1 .. n - 1 + 1 : b[i] = s[1 + i - 1]
    BY <1>1, <2>1, SubSeqProperties
  <2> HIDE DEF b, n
  <2> QED
    BY <1>1, <2>2
<1>4. IsPrefix(p, s) <=> n <= Len(s) /\ a = b
  BY DEF IsPrefix
<1> HIDE DEF a, b
<1>5. CASE n <= Len(s)
  <2>1. a = b <=> \A i \in 1 .. n : a[i] = b[i]
    BY <1>1, <1>2, <1>3, <1>5, SeqEqual
  <2> QED
    BY <1>2, <1>3, <1>4, <1>5, <2>1
<1> QED
  BY <1>4, <1>5

\* A text is like a beginning with a '%' if it begins with it.
LEMMA LikePrefix ==
  ASSUME NEW T, Percent \notin T, NEW text \in Seq(T), NEW p \in Seq(T),
         NEW pattern, Len(pattern) = Len(p) + 1, pattern[Len(p) + 1] = Percent,
         \A i \in 1 .. Len(p) : pattern[i] = p[i]
  PROVE  Like(text, pattern) <=> IsPrefix(p, text)
<1> DEFINE n == Len(p)
           m == Len(text)
           Fits(at) ==
             /\ at[1] = 1
             /\ at[Len(pattern) + 1] = Len(text) + 1
             /\ \A j \in 1 .. Len(pattern) :
                  \/ pattern[j] = Percent /\ at[j] <= at[j + 1]
                  \/ at[j] <= Len(text) /\ pattern[j] = text[at[j]] /\ at[j + 1] = at[j] + 1
<1>1. n \in Nat /\ m \in Nat /\ Len(pattern) = n + 1
      /\ (\A i \in 1 .. n : p[i] \in T) /\ (\A i \in 1 .. m : text[i] \in T)
  BY LenProperties
<1>2. ASSUME NEW at \in [1 .. n + 2 -> 1 .. m + 1], Fits(at) PROVE IsPrefix(p, text)
  <2>1. \A j \in 1 .. n + 1 : at[j] = j
    <3> DEFINE Bad == {j \in 1 .. n + 1 : at[j] # j}
    <3>1. SUFFICES ASSUME Bad # {} PROVE FALSE
      OBVIOUS
    <3>2. PICK j \in Bad : \A y \in Bad : j <= y
      <4>1. Bad \subseteq Nat
        OBVIOUS
      <4> HIDE DEF Bad
      <4> QED
        BY <3>1, <4>1, LeastNumber
    <3>3. j # 1 /\ j \in 1 .. n + 1
      BY <1>1, <1>2
    <3>4. j - 1 \in 1 .. n /\ ~(j - 1 >= j)
      BY <1>1, <3>3
    <3>5. at[j - 1] = j - 1
      BY <1>1, <3>2, <3>4
    <3>6. pattern[j - 1] # Percent
      BY <1>1, <3>4
    <3>7. at[(j - 1) + 1] = (j - 1) + 1
      BY <1>1, <1>2, <3>4, <3>5, <3>6
    <3>8. (j - 1) + 1 = j
      BY <3>3
    <3> QED
      BY <3>2, <3>7, <3>8
  <2>2. ASSUME NEW j \in 1 .. n PROVE j <= m /\ p[j] = text[j]
    <3>1. pattern[j] = p[j] /\ pattern[j] # Percent /\ j \in 1 .. n + 1
      BY <1>1
    <3> QED
      BY <1>1, <1>2, <2>1, <3>1
  <2>3. n <= m
    BY <1>1, <2>2
  <2> QED
    BY <2>2, <2>3, PrefixIs
<1>3. ASSUME IsPrefix(p, text) PROVE \E at \in [1 .. n + 2 -> 1 .. m + 1] : Fits(at)
  <2> DEFINE at == [j \in 1 .. n + 2 |-> IF j = n + 2 THEN m + 1 ELSE j]
  <2>1. n <= m /\ \A i \in 1 .. n : p[i] = text[i]
    BY <1>3, PrefixIs
  <2>2. at \in [1 .. n + 2 -> 1 .. m + 1] /\ at[1] = 1 /\ at[(n + 1) + 1] = m + 1
    BY <1>1, <2>1
  <2>3. ASSUME NEW j \in 1 .. n + 1
        PROVE  \/ pattern[j] = Percent /\ at[j] <= at[j + 1]
               \/ at[j] <= m /\ pattern[j] = text[at[j]] /\ at[j + 1] = at[j] + 1
    <3>1. CASE j = n + 1
      BY <1>1, <2>1, <3>1
    <3>2. CASE j \in 1 .. n
      BY <1>1, <2>1, <3>2
    <3> QED
      BY <1>1, <3>1, <3>2
  <2> HIDE DEF at
  <2>4. Fits(at)
    BY <1>1, <2>2, <2>3
  <2> QED
    BY <2>2, <2>4
<1>4. Like(text, pattern) <=> \E at \in [1 .. n + 2 -> 1 .. m + 1] : Fits(at)
  <2>1. (n + 1) + 1 = n + 2
    BY <1>1
  <2> QED
    BY <1>1, <2>1 DEF Like
<1> QED
  BY <1>2, <1>3, <1>4

\* An answer that shows the rows of a page, by their ids.
ShowsPage(answer, page) ==
  /\ answer.status = 200 /\ DOMAIN answer.shown = DOMAIN page
  /\ \A i \in DOMAIN page : answer.shown[i].id = page[i]

\* A page that can be asked for.
Askable(q) == Bounded(q) /\ q.from <= q.to /\ Reserved(q)

\* A search of parcels, or of deliveries, shows its page with status 200.
LEMMA ParcelsSearched ==
  ASSUME IInv, NEW plan,
         NEW by \in {"user_id"} \cup (IF gen = 4 THEN {"status"} ELSE {}),
         NEW q, DOMAIN q = {"from", "to", by}, Askable(q), by = "user_id" => q[by] \in Nat,
         NEW S, S = Having(db.parcels, IF by = "user_id" THEN "sender_id" ELSE "status", q[by]),
         gen = 3 => \A k \in S : db.parcels[k].description # Nothing
  PROVE  ShowsPage(GetParcels(gen, InOrder(plan), q), PageOf(gen, InOrder(plan), S, q))
<1> DEFINE e == InOrder(plan)
           page == PageOf(gen, e, S, q)
           answer == GetParcels(gen, e, q)
<1>1. gen \in 2 .. 6 /\ Bounded(q) /\ q.from <= q.to /\ Reserved(q)
  BY RowIds DEF Askable
<1>2. e.parcels = db.parcels
  BY InOrderIs
<1> HIDE DEF e
<1>3. S \subseteq 1 .. Len(db.parcels) /\ S \subseteq DOMAIN db.parcels
  BY RowIds DEF Having
<1>4. \A i \in DOMAIN page : page[i] \in S
  BY <1>1, <1>3, RowIds, PageWithin
<1>5. answer = ParcelsPage(gen, e, page)
  <2>1. CASE by = "user_id"
    <3>1. "user_id" \in DOMAIN q /\ q.user_id \in Nat
      BY <2>1
    <3>2. S = Having(e.parcels, "sender_id", q.user_id)
      BY <1>2, <2>1
    <3>3. gen = 3 => \A i \in DOMAIN page : e.parcels[page[i]].description # Nothing
      BY <1>2, <1>4
    <3>4. gen = 2 \/ gen = 3 \/ gen > 3
      BY <1>1
    <3> QED
      BY <1>1, <3>1, <3>2, <3>3, <3>4, ParcelsAnswer
  <2>2. CASE by = "status"
    <3>1. gen = 4
      BY <2>2
    <3>2. S = Having(e.parcels, "status", q.status)
      BY <1>2, <2>2
    <3> QED
      BY <1>1, <2>2, <3>1, <3>2, ParcelsOfStatus
  <2> QED
    BY <2>1, <2>2
<1> HIDE DEF page, answer
<1>6. ASSUME NEW i \in DOMAIN page
      PROVE  ShownParcel(gen, page[i], e.parcels[page[i]]).id = page[i]
  <2> DEFINE k == page[i]
  <2>1. k \in DOMAIN db.parcels /\ k \in Nat
    BY <1>3, <1>4, RowIds
  <2> HIDE DEF k
  <2>2. posted[k] \in ParcelBodies /\ ParcelKept(gen, posted[k], db.parcels[k])
    BY <2>1 DEF IInv, Kept, ParcelsKept
  <2>3. ShownParcel(gen, k, db.parcels[k]).id = k
    BY <1>1, <2>1, <2>2, ParcelAgrees
  <2> QED
    BY <1>2, <2>3 DEF k
<1>7. ShowsPage(answer, page)
  BY <1>5, <1>6 DEF ShowsPage, ParcelsPage, Answer
<1> QED
  BY <1>7 DEF answer, page, e

LEMMA DeliveriesSearched ==
  ASSUME IInv, gen # 5, NEW plan,
         NEW by \in {"sender_id", "receiver_id"} \cup (IF gen = 4 THEN {"status"} ELSE {}),
         NEW q, DOMAIN q = {"from", "to", by}, Askable(q), by # "status" => q[by] \in Nat,
         NEW S, S = DeliveriesOf(gen, db, by, q[by])
  PROVE  ShowsPage(GetDeliveries(gen, InOrder(plan), q), PageOf(gen, InOrder(plan), S, q))
<1> DEFINE e == InOrder(plan)
           page == PageOf(gen, e, S, q)
           answer == GetDeliveries(gen, e, q)
<1>1. gen \in {2, 3, 4, 6} /\ Good(db, gen) /\ Bounded(q) /\ q.from <= q.to /\ Reserved(q)
  BY RowIds DEF Askable
<1>2. e.parcels = db.parcels /\ e.deliveries = db.deliveries
  BY InOrderIs
<1> HIDE DEF e
<1>3. S \subseteq 1 .. Len(db.deliveries) /\ S \subseteq DOMAIN db.deliveries
  BY RowIds DEF Having, DeliveriesOf
<1>4. \A i \in DOMAIN page : page[i] \in S
  BY <1>1, <1>3, RowIds, PageWithin
<1>5. answer = DeliveriesPage(gen, e, page)
  <2>1. S = DeliveriesOf(gen, e, by, q[by])
    BY <1>2 DEF DeliveriesOf, Having, SenderOf2
  <2> QED
    BY <1>1, <2>1, DeliveriesAnswer
<1> HIDE DEF page, answer
<1>6. ASSUME NEW i \in DOMAIN page
      PROVE  ShownDelivery(gen, e, page[i]).id = page[i]
  <2> DEFINE k == page[i]
  <2>1. k \in DOMAIN db.deliveries
    BY <1>3, <1>4
  <2> HIDE DEF k
  <2>2. shipped[k] \in DeliveryBodies /\ DeliveryKept(gen, shipped[k], k, db.deliveries[k])
    BY <2>1 DEF IInv, Kept, DeliveriesKept
  <2>3. ShownDelivery(gen, db, k).id = k
    BY <1>1, <2>1, <2>2, SendersKnown, DeliveryAgreement
  <2>4. ShownDelivery(gen, e, k) = ShownDelivery(gen, db, k)
    BY <1>2 DEF ShownDelivery, DeliveryDto2, DeliveryDto3, DeliveryDto4, SenderOf2
  <2> QED
    BY <2>3, <2>4 DEF k
<1>7. ShowsPage(answer, page)
  BY <1>5, <1>6 DEF ShowsPage, DeliveriesPage, Answer
<1> QED
  BY <1>7 DEF answer, page, e

\* The elements of a page are elements of the list.
LEMMA WindowElements ==
  ASSUME NEW S, NEW ids \in Seq(S), NEW q, Bounded(q)
  PROVE  \A i \in DOMAIN Window(ids, q) :
           /\ Window(ids, q)[i] = ids[(q.from + i) - 1]
           /\ (q.from + i) - 1 \in 1 .. Len(ids) /\ Window(ids, q)[i] \in S
<1> DEFINE m == IF q.to < Len(ids) THEN q.to ELSE Len(ids)
           w == Window(ids, q)
<1>1. \A i \in DOMAIN w : w[i] = ids[(q.from + i) - 1] /\ (q.from + i) - 1 \in 1 .. m
  BY WindowOf
<1>2. 1 .. m \subseteq 1 .. Len(ids) /\ \A i \in 1 .. Len(ids) : ids[i] \in S
  BY LenProperties DEF Bounded
<1> HIDE DEF m, w
<1> QED
  BY <1>1, <1>2 DEF w

\* The mask of a beginning, and its pattern.
LEMMA MaskIs ==
  ASSUME NEW p \in Seq(Letters)
  PROVE  LET mask == Append(p, Star)
         IN  /\ mask # <<>> /\ Last(mask) = Star /\ Front(mask) = p
             /\ DOMAIN mask = 1 .. Len(p) + 1
             /\ mask[Len(p) + 1] = Star /\ \A i \in 1 .. Len(p) : mask[i] = p[i] /\ p[i] # Star
<1> DEFINE T == Letters \cup {Star}
           mask == Append(p, Star)
           n == Len(p)
           front == SubSeq(mask, 1, n)
<1>1. p \in Seq(T) /\ n \in Nat /\ DOMAIN p = 1 .. n /\ \A i \in 1 .. n : p[i] \in Letters
  BY SeqMonotonic, LenProperties
<1>2. /\ mask \in Seq(T) /\ mask # <<>> /\ Len(mask) = n + 1
      /\ mask[n + 1] = Star /\ \A i \in 1 .. n : mask[i] = p[i]
  BY <1>1, AppendProperties
<1>3. DOMAIN mask = 1 .. n + 1
  BY <1>2, LenProperties
<1>4. \A i \in 1 .. n : p[i] # Star
  BY <1>1, ValuesAssumption
<1> HIDE DEF mask
<1>5. front = p
  <2>1. \A i \in 1 .. n : mask[i] \in T
    BY <1>1, <1>2
  <2>2. /\ front \in Seq(T) /\ Len(front) = IF 1 <= n THEN n - 1 + 1 ELSE 0
        /\ \A i \in 1 .. n - 1 + 1 : front[i] = mask[1 + i - 1]
    BY <1>1, <1>2, <2>1, SubSeqProperties
  <2> HIDE DEF front, n
  <2>3. Len(front) = n /\ \A i \in 1 .. n : front[i] = p[i]
    BY <1>1, <1>2, <2>2
  <2> QED
    BY <1>1, <2>2, <2>3, SeqEqual DEF n
<1>6. (n + 1) - 1 = n
  BY <1>1
<1>7. Last(mask) = Star /\ Front(mask) = p
  BY <1>2, <1>5, <1>6 DEF Last, Front
<1> QED
  BY <1>2, <1>3, <1>4, <1>7 DEF mask

\* The users whose names have a part, or a beginning.
Named(g, d, p) ==
  {k \in DOMAIN d.users : IF g = 2 THEN Within(d.users[k].name, p) ELSE IsPrefix(p, d.users[k].name)}

UsersPage(g, e, S, q) ==
  IF g = 2 THEN Ascending(S) ELSE Window(InPlan(e, Ascending(S)), q)

\* lr-2 looks for what is before the '*'.
LEMMA UsersNamed2 ==
  ASSUME NEW e, NEW p \in Seq(Letters)
  PROVE  SearchUsersByNameMask2(e, Append(p, Star)) =
           [i \in DOMAIN Ascending(Named(2, e, p)) |-> UserDto2(e, Ascending(Named(2, e, p))[i])]
<1> DEFINE mask == Append(p, Star)
           part == IF mask # <<>> /\ Last(mask) = Star THEN Front(mask) ELSE mask
           ids == Ascending(Named(2, e, p))
<1>1. part = p
  BY MaskIs
<1> HIDE DEF part
<1>2. Where(e.users, LAMBDA u : Within(u.name, part)) = ids
  BY <1>1 DEF Where, Named
<1> HIDE DEF mask, ids
<1>3. SearchUsersByNameMask2(e, mask) = [i \in DOMAIN ids |-> UserDto2(e, ids[i])]
  BY <1>2 DEF SearchUsersByNameMask2, Show, part
<1> QED
  BY <1>3 DEF mask, ids

\* PostgreSQL looks for what is like the mask with '%' for '*'.
LEMMA UsersNamed3 ==
  ASSUME NEW e, NEW p \in Seq(Letters), NEW b,
         \A k \in DOMAIN e.users : e.users[k].name \in Seq(Letters)
  PROVE  LET page == Window(InPlan(e, Ascending(Named(3, e, p))), b)
         IN  SearchUsersByNameMask3(e, Append(p, Star), b) =
               [i \in DOMAIN page |-> UserDto3(e, page[i])]
<1> DEFINE mask == Append(p, Star)
           pattern == [i \in DOMAIN mask |-> IF mask[i] = Star THEN Percent ELSE mask[i]]
           n == Len(p)
           ids == Ascending(Named(3, e, p))
           page == Window(InPlan(e, ids), b)
<1>1. n \in Nat /\ DOMAIN mask = 1 .. n + 1 /\ mask[n + 1] = Star
      /\ \A i \in 1 .. n : mask[i] = p[i] /\ p[i] # Star
  BY MaskIs, LenProperties
<1>2. Percent \notin Letters
  BY ValuesAssumption
<1> HIDE DEF mask
<1>3. /\ Len(pattern) = n + 1 /\ pattern[n + 1] = Percent
      /\ \A i \in 1 .. n : pattern[i] = p[i]
  <2>1. /\ pattern = [i \in 1 .. n + 1 |-> pattern[i]]
        /\ pattern[n + 1] = Percent /\ \A i \in 1 .. n : pattern[i] = p[i]
    BY <1>1
  <2> HIDE DEF pattern
  <2>2. Len([i \in 1 .. n + 1 |-> pattern[i]]) = n + 1
    BY <1>1
  <2> QED
    BY <2>1, <2>2
<1> HIDE DEF pattern, n
<1>4. \A k \in DOMAIN e.users : Like(e.users[k].name, pattern) <=> IsPrefix(p, e.users[k].name)
  BY <1>2, <1>3, LikePrefix DEF n
<1>5. {k \in DOMAIN e.users : Like(e.users[k].name, pattern)} = Named(3, e, p)
  BY <1>4 DEF Named
<1>6. Where(e.users, LAMBDA u : Like(u.name, pattern)) = ids
  BY <1>5 DEF Where
<1> HIDE DEF ids
<1>7. SearchUsersByNameMask3(e, mask, b) = [i \in DOMAIN page |-> UserDto3(e, page[i])]
  BY <1>6 DEF SearchUsersByNameMask3, Show, pattern
<1> QED
  BY <1>7 DEF mask, ids

\* The generations with users list names in the same way.
LEMMA UsersSearched ==
  ASSUME IInv, gen # 4, NEW plan, NEW p \in Seq(Letters),
         NEW q, DOMAIN q = {"from", "to", "name_mask"}, Askable(q), q.name_mask = Append(p, Star)
  PROVE  ShowsPage(GetUsers(gen, InOrder(plan), <<>>, q),
                   UsersPage(gen, InOrder(plan), Named(gen, db, p), q))
<1> DEFINE e == InOrder(plan)
           b == [from |-> q.from, to |-> q.to]
           page == UsersPage(gen, e, Named(gen, db, p), q)
           rows == [i \in DOMAIN page |-> With(e.users[page[i]], "id", page[i])]
           answer == GetUsers(gen, e, <<>>, q)
<1>1. gen \in {2, 3, 5, 6} /\ Bounded(q) /\ q.from <= q.to
  BY RowIds DEF Askable
<1>2. e.users = db.users
  BY InOrderIs
<1>3. \A k \in DOMAIN e.users : e.users[k].name \in Seq(Letters)
  <2> SUFFICES ASSUME NEW k \in DOMAIN db.users PROVE db.users[k].name \in Seq(Letters)
    BY <1>2
  <2>1. PICK l \in Logins : /\ db.users[k] = StoredUser(gen, UserBody[l])
                            /\ ~Incomplete(ParseUserRequest2(UserBody[l]))
    BY DEF IInv, Accounts, UsersStored
  <2>2. db.users[k].name = UserBody[l].name /\ "name" \in DOMAIN UserBody[l]
    BY <2>1, StoredFields, ParsedUser DEF Incomplete
  <2>3. db.users[k].name # Null
    BY AccountFields
  <2> QED
    BY <2>2, <2>3, BodiesAssumption
<1>4. RequiredBounds(q) = b /\ ValidBounds(b) /\ \A ids : Window(ids, b) = Window(ids, q)
  BY <1>1, BoundsAreValid
<1> HIDE DEF e, b
<1>5. Named(gen, db, p) = Named(gen, e, p)
  BY <1>2 DEF Named
<1>6. answer = Each(Answer(200, rows), SerializeUserResponse2)
  <2>1. CASE gen = 2
    <3>1. page = Ascending(Named(2, e, p))
      BY <1>5, <2>1 DEF UsersPage
    <3> HIDE DEF page
    <3>2. SearchUsersByNameMask2(e, q.name_mask) = rows
      BY <3>1, UsersNamed2 DEF UserDto2
    <3> HIDE DEF rows
    <3>3. GetUsersHandler2(e, q) = Each(Answer(200, rows), SerializeUserResponse2)
      BY <3>2 DEF GetUsersHandler2
    <3> QED
      BY <2>1, <3>3 DEF GetUsers
  <2>2. CASE gen \in {3, 5, 6}
    <3>1. page = Window(InPlan(e, Ascending(Named(3, e, p))), b)
      <4>1. Named(gen, e, p) = Named(3, e, p)
        BY <2>2 DEF Named
      <4> QED
        BY <1>4, <1>5, <2>2, <4>1 DEF UsersPage
    <3> HIDE DEF page
    <3>2. SearchUsersByNameMask3(e, q.name_mask, b) = rows
      BY <1>3, <3>1, UsersNamed3 DEF UserDto3
    <3> HIDE DEF rows
    <3>3. answer \in {GetUsersHandler3(e, q), GetUsersHandler5(e, <<>>, q), GetUsersHandler6(e, q)}
      BY <2>2 DEF GetUsers
    <3>4. ~("login" \in DOMAIN q) /\ "name_mask" \in DOMAIN q
      OBVIOUS
    <3> HIDE DEF answer
    <3>5. /\ GetUsersHandler3(e, q) = Each(Answer(200, rows), SerializeUserResponse2)
          /\ GetUsersHandler5(e, <<>>, q) = Each(Answer(200, rows), SerializeUserResponse2)
          /\ GetUsersHandler6(e, q) = Each(Answer(200, rows), SerializeUserResponse2)
      BY <1>4, <3>2, <3>4 DEF GetUsersHandler3, GetUsersHandler5, GetUsersHandler6,
         SearchUsersByNameMask5, SearchUsersByNameMask6, SerializeUserResponse3,
         SerializeUserResponse5, SerializeUserResponse6, Each
    <3> QED
      BY <3>3, <3>5
  <2> QED
    BY <1>1, <2>1, <2>2
<1> HIDE DEF answer
<1>7. \A i \in DOMAIN page : page[i] \in Nat
  <2> DEFINE S == Named(gen, db, p)
             ids == InPlan(e, Ascending(S))
  <2>1. S \subseteq 1 .. Len(db.users)
    BY RowIds DEF Named
  <2> HIDE DEF S
  <2>2. Lists(S, Ascending(S)) /\ Lists(S, ids)
    BY <2>1, RowIds, AscendingLists, ReverseLists DEF InPlan
  <2> HIDE DEF ids
  <2>3. \A i \in DOMAIN page : page[i] \in S
    <3>1. CASE gen = 2
      <4>1. page = Ascending(S)
        BY <3>1 DEF UsersPage, S
      <4> HIDE DEF page
      <4> QED
        BY <2>2, <4>1 DEF Lists
    <3>2. CASE gen # 2
      <4>1. page = Window(ids, q)
        BY <3>2 DEF UsersPage, S, ids
      <4>2. ids \in Seq(S)
        BY <2>2 DEF Lists
      <4> HIDE DEF page
      <4> QED
        BY <1>1, <4>1, <4>2, WindowElements
    <3> QED
      BY <3>1, <3>2
  <2> HIDE DEF page
  <2>4. Len(db.users) \in Nat
    BY RowIds
  <2>5. S \subseteq Nat
    BY <2>1, <2>4
  <2> QED
    BY <2>3, <2>5
<1> HIDE DEF page
<1>8. ShowsPage(answer, page)
  <2>1. answer.status = 200 /\ answer.shown = [i \in DOMAIN page |-> SerializeUserResponse2(rows[i])]
    BY <1>6 DEF Each, Answer
  <2>2. ASSUME NEW i \in DOMAIN page PROVE SerializeUserResponse2(rows[i]).id = page[i]
    BY <1>7, ShownId
  <2> HIDE DEF rows
  <2> QED
    BY <2>1, <2>2 DEF ShowsPage
<1> QED
  BY <1>8 DEF answer, page, e

\* The ids a search lists, in order.
Listed(s, e) ==
  IF s.of = "users" /\ gen = 3 THEN InPlan(e, Ascending(Found(s)))
  ELSE Ordered(gen, e, Ascending(Found(s)))

\* Bounds a page can have.
Span(from, to) ==
  from \in Nat \ {0} /\ to \in Nat /\ from <= to /\ to - from + 1 <= MaxReserve

PageAsked(s, from, to) == With(With(Asked(s), "from", from), "to", to)

\* The searches there are.
LEMMA SearchCases ==
  ASSUME IInv, NEW s \in Searches
  PROVE  \/ /\ s.of = "parcels"
            /\ \/ s.by = "user_id" /\ s.value \in Nat
               \/ gen = 4 /\ s.by = "status"
         \/ /\ s.of = "deliveries"
            /\ \/ s.by \in {"sender_id", "receiver_id"} /\ s.value \in Nat
               \/ gen = 4 /\ s.by = "status"
         \/ s.of = "users" /\ gen # 4 /\ s.by = "name_mask" /\ s.value \in NamePrefixes
<1>1. DOMAIN db.users \cup {1} \subseteq Nat
  BY RowIds
<1>2. \/ s \in [of : {"parcels"}, by : {"user_id"}, value : DOMAIN db.users \cup {1}]
      \/ s \in [of : {"deliveries"}, by : {"sender_id", "receiver_id"},
                value : DOMAIN db.users \cup {1}]
      \/ gen = 4 /\ \/ s \in [of : {"parcels"}, by : {"status"}, value : ParcelStatuses]
                    \/ s \in [of : {"deliveries"}, by : {"status"}, value : DeliveryStatuses]
      \/ gen # 4 /\ s \in [of : {"users"}, by : {"name_mask"}, value : NamePrefixes]
  BY DEF Searches
<1>3. ASSUME s \in [of : {"parcels"}, by : {"user_id"}, value : DOMAIN db.users \cup {1}]
      PROVE  s.of = "parcels" /\ s.by = "user_id" /\ s.value \in Nat
  BY <1>1, <1>3
<1>4. ASSUME s \in [of : {"deliveries"}, by : {"sender_id", "receiver_id"},
                   value : DOMAIN db.users \cup {1}]
      PROVE  s.of = "deliveries" /\ s.by \in {"sender_id", "receiver_id"} /\ s.value \in Nat
  BY <1>1, <1>4
<1>5. ASSUME s \in [of : {"parcels"}, by : {"status"}, value : ParcelStatuses]
      PROVE  s.of = "parcels" /\ s.by = "status"
  BY <1>5
<1>6. ASSUME s \in [of : {"deliveries"}, by : {"status"}, value : DeliveryStatuses]
      PROVE  s.of = "deliveries" /\ s.by = "status"
  BY <1>6
<1>7. ASSUME s \in [of : {"users"}, by : {"name_mask"}, value : NamePrefixes]
      PROVE  s.of = "users" /\ s.by = "name_mask" /\ s.value \in NamePrefixes
  BY <1>7
<1> QED
  <2>1. CASE s \in [of : {"parcels"}, by : {"user_id"}, value : DOMAIN db.users \cup {1}]
    BY <1>3, <2>1
  <2>2. CASE s \in [of : {"deliveries"}, by : {"sender_id", "receiver_id"},
                    value : DOMAIN db.users \cup {1}]
    BY <1>4, <2>2
  <2>3. CASE gen = 4 /\ s \in [of : {"parcels"}, by : {"status"}, value : ParcelStatuses]
    BY <1>5, <2>3
  <2>4. CASE gen = 4 /\ s \in [of : {"deliveries"}, by : {"status"}, value : DeliveryStatuses]
    BY <1>6, <2>4
  <2>5. CASE gen # 4 /\ s \in [of : {"users"}, by : {"name_mask"}, value : NamePrefixes]
    BY <1>7, <2>5
  <2> QED
    BY <1>2, <2>1, <2>2, <2>3, <2>4, <2>5

\* The arguments of a page of a search.
LEMMA PageAskedIs ==
  ASSUME NEW s, s.by \notin {"from", "to"}, NEW from, NEW to, Span(from, to)
  PROVE  LET q == PageAsked(s, from, to)
         IN  /\ DOMAIN q = {"from", "to", s.by} /\ q.from = from /\ q.to = to /\ Askable(q)
             /\ q[s.by] = IF s.of = "users" THEN Append(s.value, Star) ELSE s.value
<1> DEFINE q == PageAsked(s, from, to)
           v == IF s.of = "users" THEN Append(s.value, Star) ELSE s.value
<1> HIDE DEF v
<1>1. Asked(s) = [f \in {s.by} |-> v]
  BY DEF Asked, v
<1>2. DOMAIN q = {"from", "to", s.by} /\ q.from = from /\ q.to = to /\ q[s.by] = v
  BY <1>1 DEF PageAsked, With
<1> HIDE DEF q
<1>3. Askable(q)
  BY <1>2 DEF Askable, Bounded, Reserved, Span
<1> QED
  BY <1>2, <1>3 DEF q, v

\* What a search has to find, as the handlers' lemmas name it.
LEMMA FoundIds ==
  ASSUME IInv, NEW s \in Searches
  PROVE  /\ \E n \in Nat : Found(s) \in SUBSET (1 .. n)
         /\ s.of = "parcels" =>
              Found(s) = Having(db.parcels, IF s.by = "user_id" THEN "sender_id" ELSE "status", s.value)
         /\ s.of = "deliveries" => Found(s) = DeliveriesOf(gen, db, s.by, s.value)
         /\ s.of = "users" => Found(s) = Named(gen, db, s.value)
<1>1. CASE s.of = "parcels"
  <2>1. s.by \in {"user_id", "status"}
    BY <1>1, SearchCases
  <2>2. Found(s) = Having(db.parcels, IF s.by = "user_id" THEN "sender_id" ELSE "status", s.value)
    BY <1>1, <2>1 DEF Found, Having
  <2>3. Found(s) \in SUBSET (1 .. Len(db.parcels))
    BY <2>2, RowIds DEF Having
  <2> QED
    BY <1>1, <2>2, <2>3, RowIds
<1>2. CASE s.of = "deliveries"
  <2>1. s.by \in {"sender_id", "receiver_id", "status"}
    BY <1>2, SearchCases
  <2>2. \A k \in DOMAIN db.deliveries : db.deliveries[k].parcel_id \in DOMAIN db.parcels
    BY RowIds DEF Good, DeliveryRow
  <2>3. Found(s) = DeliveriesOf(gen, db, s.by, s.value)
    <3>1. CASE s.by = "status"
      BY <1>2, <3>1 DEF Found, DeliveriesOf, Having
    <3>2. CASE s.by = "receiver_id"
      BY <1>2, <3>2 DEF Found, DeliveriesOf, Having
    <3>3. CASE s.by = "sender_id" /\ gen = 2
      BY <1>2, <2>2, <3>3 DEF Found, DeliveriesOf, SenderOf2
    <3>4. CASE s.by = "sender_id" /\ gen # 2
      BY <1>2, <3>4 DEF Found, DeliveriesOf, Having
    <3> QED
      BY <2>1, <3>1, <3>2, <3>3, <3>4
  <2>4. Found(s) \in SUBSET (1 .. Len(db.deliveries))
    BY <2>3, RowIds DEF DeliveriesOf, Having
  <2> QED
    BY <1>2, <2>3, <2>4, RowIds
<1>3. CASE s.of = "users"
  <2>1. Found(s) = Named(gen, db, s.value)
    BY <1>3 DEF Found, Named
  <2>2. Found(s) \in SUBSET (1 .. Len(db.users))
    BY <2>1, RowIds DEF Named
  <2> QED
    BY <1>3, <2>1, <2>2, RowIds
<1> QED
  BY <1>1, <1>2, <1>3, SearchCases

\* The list of a search has each id it has to find once.
LEMMA ListedIds ==
  ASSUME IInv, NEW s \in Searches, NEW e
  PROVE  Lists(Found(s), Listed(s, e))
<1>1. PICK n \in Nat : Found(s) \in SUBSET (1 .. n)
  BY FoundIds
<1>2. Lists(Found(s), Ascending(Found(s)))
  BY <1>1, AscendingLists
<1> QED
  BY <1>2, ReverseLists DEF Listed, Ordered, InPlan

\* A page of a search is the page of that list.
LEMMA SearchShows ==
  ASSUME IInv, NEW s \in Searches, gen # 5 \/ s.of # "deliveries", ~Unlisted(s), NEW plan,
         NEW from, NEW to, Span(from, to)
  PROVE  LET q == PageAsked(s, from, to)
             ids == Listed(s, InOrder(plan))
         IN  ShowsPage(Get(s, InOrder(plan), q), IF gen = 2 THEN ids ELSE Window(ids, q))
<1> DEFINE q == PageAsked(s, from, to)
           e == InOrder(plan)
           S == Found(s)
           ids == Listed(s, e)
           page == IF gen = 2 THEN ids ELSE Window(ids, q)
           answer == Get(s, e, q)
<1>1. s.by \notin {"from", "to"}
  BY SearchCases
<1>2. /\ DOMAIN q = {"from", "to", s.by} /\ Askable(q)
      /\ q[s.by] = IF s.of = "users" THEN Append(s.value, Star) ELSE s.value
  BY <1>1, PageAskedIs
<1> HIDE DEF q
<1>3. PageOf(gen, e, S, q) = IF gen = 2 THEN Ordered(gen, e, Ascending(S))
                             ELSE Window(Ordered(gen, e, Ascending(S)), q)
  BY DEF PageOf, Ordered
<1>4. CASE s.of = "parcels"
  <2>1. s.by \in {"user_id"} \cup (IF gen = 4 THEN {"status"} ELSE {})
        /\ (s.by = "user_id" => q[s.by] \in Nat)
    BY <1>2, <1>4, SearchCases
  <2>2. S = Having(db.parcels, IF s.by = "user_id" THEN "sender_id" ELSE "status", q[s.by])
    BY <1>2, <1>4, FoundIds
  <2>3. gen = 3 => \A k \in S : db.parcels[k].description # Nothing
    BY <1>4 DEF Unlisted
  <2> HIDE DEF S
  <2>4. ShowsPage(GetParcels(gen, e, q), PageOf(gen, e, S, q))
    BY <1>2, <2>1, <2>2, <2>3, ParcelsSearched
  <2> QED
    BY <1>3, <1>4, <2>4 DEF Get, Listed, q, S
<1>5. CASE s.of = "deliveries"
  <2>1. s.by \in {"sender_id", "receiver_id"} \cup (IF gen = 4 THEN {"status"} ELSE {})
        /\ (s.by # "status" => q[s.by] \in Nat)
    BY <1>2, <1>5, SearchCases
  <2>2. S = DeliveriesOf(gen, db, s.by, q[s.by])
    BY <1>2, <1>5, FoundIds
  <2> HIDE DEF S
  <2>3. ShowsPage(GetDeliveries(gen, e, q), PageOf(gen, e, S, q))
    BY <1>2, <1>5, <2>1, <2>2, DeliveriesSearched
  <2> QED
    BY <1>3, <1>5, <2>3 DEF Get, Listed, q, S
<1>6. CASE s.of = "users"
  <2>1. gen # 4 /\ s.by = "name_mask" /\ s.value \in Seq(Letters)
    BY <1>6, SearchCases, BodiesAssumption
  <2>2. S = Named(gen, db, s.value)
    BY <1>6, FoundIds
  <2>3. ShowsPage(GetUsers(gen, e, <<>>, q), UsersPage(gen, e, S, q))
    BY <1>2, <1>6, <2>1, <2>2, UsersSearched
  <2>4. UsersPage(gen, e, S, q) = page
    BY <1>6, <2>1, RowIds DEF UsersPage, Listed, Ordered
  <2> QED
    BY <1>6, <2>3, <2>4 DEF Get, q
<1> QED
  BY <1>4, <1>5, <1>6, SearchCases DEF q

\* The page of size rows after the first a.
LEMMA WindowPage ==
  ASSUME NEW S, NEW ids, Lists(S, ids), NEW a \in Nat, NEW size \in Nat \ {0}, NEW q,
         {"from", "to"} \subseteq DOMAIN q, q.from = a + 1, q.to = a + size, NEW answer, ShowsPage(answer, Window(ids, q))
  PROVE  /\ answer.status = 200
         /\ DOMAIN answer.shown = {i \in 1 .. size : a + i <= Len(ids)}
         /\ \A i \in DOMAIN answer.shown : answer.shown[i].id = ids[a + i]
<1> DEFINE n == Len(ids)
           m == IF q.to < n THEN q.to ELSE n
           w == Window(ids, q)
<1>1. n \in Nat /\ ids \in Seq(S) /\ Bounded(q)
  <2>1. n \in Nat /\ ids \in Seq(S)
    BY DEF Lists
  <2>2. Bounded(q)
    BY DEF Bounded
  <2> QED
    BY <2>1, <2>2
<1>2. /\ DOMAIN w = 1 .. (m - q.from) + 1
      /\ \A i \in DOMAIN w : w[i] = ids[(q.from + i) - 1]
  BY <1>1, WindowOf
<1> HIDE DEF w
<1>3. DOMAIN w = {i \in 1 .. size : a + i <= n}
  <2>1. m = IF a + size < n THEN a + size ELSE n
    OBVIOUS
  <2>2. DOMAIN w = 1 .. m - a
    BY <1>1, <1>2, <2>1
  <2> HIDE DEF n
  <2>3. \A i : i \in 1 .. m - a <=> i \in 1 .. size /\ a + i <= n
    BY <1>1, <2>1
  <2> QED
    BY <2>2, <2>3
<1>4. \A i \in DOMAIN w : (q.from + i) - 1 = a + i
  BY <1>3
<1> QED
  BY <1>2, <1>3, <1>4 DEF ShowsPage, w

\* The pages of a search are those of its list.
LEMMA PagesOfList ==
  ASSUME IInv, gen # 2, NEW s \in Searches, gen # 5 \/ s.of # "deliveries", ~Unlisted(s),
         NEW plan, NEW size \in 1 .. MaxReserve, NEW n \in Nat
  PROVE  Paged(Pages(s, plan, size, n), n, Listed(s, InOrder(plan)), size)
<1> DEFINE pages == Pages(s, plan, size, n)
           ids == Listed(s, InOrder(plan))
<1>1. Lists(Found(s), ids)
  BY ListedIds
<1>2. DOMAIN pages = 1 .. n
  BY DEF Pages
<1>3. ASSUME NEW p \in 1 .. n
      PROVE  /\ pages[p].status = 200
             /\ DOMAIN pages[p].shown = {i \in 1 .. size : PlaceOf(size, p, i) <= Len(ids)}
             /\ \A i \in DOMAIN pages[p].shown :
                  pages[p].shown[i].id = ids[PlaceOf(size, p, i)]
  <2> DEFINE a == (p - 1) * size
             from == a + 1
             to == a + size
             q == PageAsked(s, from, to)
             answer == Get(s, InOrder(plan), q)
  <2>1. a \in Nat /\ p * size = a + size /\ size \in Nat \ {0}
    <3>1. p - 1 \in Nat /\ size \in Nat
      OBVIOUS
    <3> QED
      BY <3>1
  <2>2. pages[p] = answer
    BY <2>1 DEF Pages, PageAsked
  <2>3. \A i : PlaceOf(size, p, i) = a + i
    BY DEF PlaceOf
  <2> HIDE DEF a, pages, ids
  <2>4. Span(from, to)
    BY <2>1 DEF Span
  <2>5. s.by \notin {"from", "to"}
    BY SearchCases
  <2> HIDE DEF answer, from, to
  <2>6. DOMAIN q = {"from", "to", s.by} /\ q.from = from /\ q.to = to
    BY <2>4, <2>5, PageAskedIs
  <2>7. ShowsPage(answer, Window(ids, q))
    BY <2>4, SearchShows DEF ids, answer
  <2> HIDE DEF q
  <2>8. /\ answer.status = 200
        /\ DOMAIN answer.shown = {i \in 1 .. size : a + i <= Len(ids)}
        /\ \A i \in DOMAIN answer.shown : answer.shown[i].id = ids[a + i]
    BY <1>1, <2>1, <2>6, <2>7, WindowPage DEF from, to
  <2> QED
    BY <2>2, <2>3, <2>8
<1> QED
  BY <1>2, <1>3 DEF Paged

\* In lr-2 the one page is the whole list.
LEMMA WholeList ==
  ASSUME IInv, gen = 2, NEW s \in Searches, ~Unlisted(s), NEW plan, NEW size \in 1 .. MaxReserve
  PROVE  LET ids == Listed(s, InOrder(plan))
         IN  Paged(Pages(s, plan, size, 1), 1, ids, Len(ids) + 1)
<1> DEFINE pages == Pages(s, plan, size, 1)
           ids == Listed(s, InOrder(plan))
           m == Len(ids)
           q == PageAsked(s, 1, size)
           answer == Get(s, InOrder(plan), q)
<1>1. m \in Nat /\ DOMAIN ids = 1 .. m
  BY ListedIds DEF Lists
<1>2. DOMAIN pages = 1 .. 1 /\ pages[1] = answer
  <2>1. (1 - 1) * size + 1 = 1 /\ 1 * size = size
    OBVIOUS
  <2> QED
    BY <2>1 DEF Pages, PageAsked
<1>3. Span(1, size)
  BY DEF Span
<1>4. ShowsPage(answer, ids)
  BY <1>3, SearchShows
<1> HIDE DEF pages, ids, answer
<1>5. \A i \in 1 .. m + 1 : PlaceOf(m + 1, 1, i) = i
  BY <1>1 DEF PlaceOf
<1>6. {i \in 1 .. m + 1 : PlaceOf(m + 1, 1, i) <= m} = 1 .. m
  BY <1>1, <1>5
<1>7. /\ answer.status = 200 /\ DOMAIN answer.shown = 1 .. m
      /\ \A i \in 1 .. m : answer.shown[i].id = ids[PlaceOf(m + 1, 1, i)]
  BY <1>1, <1>4, <1>5 DEF ShowsPage
<1>8. Paged(pages, 1, ids, m + 1)
  BY <1>2, <1>6, <1>7 DEF Paged
<1> QED
  BY <1>8 DEF pages, ids

\* Pages tile in every state with the invariant.
LEMMA PagesInv == IInv => PagesTile
<1> SUFFICES ASSUME IInv, NEW s \in Searches, gen # 5 \/ s.of # "deliveries", ~Unlisted(s)
             PROVE  \A plan \in PlansOf(Found(s)), size \in 1 .. MaxReserve :
                      Tiled(Found(s), Pages(s, plan, size,
                                            IF gen = 2 THEN 1
                                            ELSE Cardinality(Found(s)) \div size + 1))
  BY DEF PagesTile, Tiled
<1> TAKE plan \in PlansOf(Found(s)), size \in 1 .. MaxReserve
<1> DEFINE found == Found(s)
           ids == Listed(s, InOrder(plan))
           m == Len(ids)
<1>1. Lists(found, ids) /\ m \in Nat /\ m = Cardinality(found)
  BY ListedIds DEF Lists
<1>2. CASE gen = 2
  <2> DEFINE pages == Pages(s, plan, size, 1)
  <2>1. Paged(pages, 1, ids, m + 1)
    BY <1>2, WholeList
  <2>2. m + 1 \in Nat \ {0} /\ Enough(1, m + 1, m)
    BY <1>1 DEF Enough
  <2> HIDE DEF pages, ids, found
  <2>3. Tiled(found, pages)
    BY <1>1, <2>1, <2>2, Tiling
  <2> QED
    BY <1>2, <2>3 DEF pages, found
<1>3. CASE gen # 2
  <2> DEFINE n == m \div size + 1
             pages == Pages(s, plan, size, n)
  <2>1. size \in Nat \ {0}
    OBVIOUS
  <2>2. n \in Nat /\ Enough(n, size, m)
    BY <1>1, <2>1, LastPage
  <2> HIDE DEF n
  <2>3. Paged(pages, n, ids, size)
    BY <1>3, <2>2, PagesOfList
  <2> HIDE DEF pages, ids, found
  <2>4. Tiled(found, pages)
    BY <1>1, <2>1, <2>2, <2>3, Tiling
  <2>5. n = Cardinality(found) \div size + 1
    BY <1>1 DEF n
  <2> QED
    BY <1>3, <2>4, <2>5 DEF pages, found
<1> QED
  BY <1>2, <1>3

-----------------------------------------------------------------------------
(* The theorems.                                                           *)

\* In every reachable state of every generation the rows are as the schema
\* wants, the histories run along them, the ids told are as the accounts, rows
\* have what was posted, and the cache keeps accounts as they are.
THEOREM Invariance == Spec => []IInv
<1>1. Init => IInv
  BY InitIInv
<1>2. IInv /\ [Next]_vars => IInv'
  BY NextIInv
<1> QED
  BY <1>1, <1>2, PTL DEF Spec

\* Every write of every handler and storage keeps the statuses that the CHECKs
\* list, the references to parcels, and the foreign keys of lr-2 and lr-3.
THEOREM TypeCorrect == Spec => []TypeOK
<1>1. IInv => TypeOK
  BY DEF IInv, Rows, Accounts, Good, ParcelRow, DeliveryRow, TypeOK
<1> QED
  BY <1>1, Invariance, PTL

\* Before a restart, the id that POST /users told a client is told to no other
\* client by POST /users, nor one of lr-4's POST /login by POST /login; without
\* lr-4's counters a client is told one id.
THEOREM IdsAreExplained == Spec => []IdsExplained
<1>1. IInv => IdsExplained
  BY DEF IInv, Rows, Accounts, ToldRows, Counted, IdsExplained
<1> QED
  BY <1>1, Invariance, PTL

\* A client that was told 201 logs in with its password and gets the id it was
\* told, nobody logs in with another password, and a 409 means that the login or
\* the e-mail is taken: a registration whose answer was lost is still an account.
THEOREM AccountsDoWork == Spec => []AccountsWork
BY AccountsInv, Invariance, PTL

\* Every parcel and delivery that GET lists, and everything that POST answers 201
\* with, agrees with the body it was made from: Parse, the row or document, and
\* Serialize lose nothing but what Dropped names and mix up no two fields.
THEOREM AnswersDoAgree == Spec => []AnswersAgree
BY AnswersInv, Invariance, PTL

\* A login is found by its name and a delivery by its tracking number, and nothing
\* else is; a page after the first finds a login in lr-2 and in the cache of lr-5.
THEOREM LookupsDoFind == Spec => []LookupsFind
BY LookupsInv, Invariance, PTL

\* The pages of a search in one plan are answered and hold every row that
\* matches once and nothing else, whatever their size up to what a vector can
\* reserve; a page is full but the last, which may be empty.
THEOREM PagesDoTile == Spec => []PagesTile
BY PagesInv, Invariance, PTL

\* A parcel is there for every 201 and every request whose answer was lost
\* after the insert, and for nothing else: a refusal without a fault made none.
THEOREM ParcelsAccounted == Spec => []ParcelsAreAccountedFor
<1>1. IInv => ParcelsAreAccountedFor
  BY DEF IInv, Rows, ParcelsAreAccountedFor
<1> QED
  BY <1>1, Invariance, PTL
=============================================================================
