------------------------------ MODULE Commands ------------------------------
(***************************************************************************)
(* What POST does in the generations lr-2 to lr-6, and the operations of   *)
(* the storages that change a row.  A command takes the database and the   *)
(* body of the request and returns an outcome: the database it leaves and  *)
(* the answer (of a handler) or the result (of a storage).                 *)
(*                                                                         *)
(* fault is what the calls of one request meet: "refused", the write does  *)
(* not reach the database; "lost", it is made and its answer is lost;      *)
(* "unmarked", the update of the parcel that follows it fails; "unread",   *)
(* reading back what was made fails; or "none".  Rows only ever gain, so   *)
(* the calls of a handler are one step here; their interleavings are the   *)
(* business of InMemoryStorage, PostgresStorage and MongoStorage.          *)
(***************************************************************************)
EXTENDS Queries

CONSTANT ShortLogins  \* logins shorter than the schema's CHECK allows

Faults == {"none", "refused", "lost", "unmarked", "unread"}

\* UNIQUE_VIOLATION and DATA_VIOLATION are the same number.
UniqueViolation == -1
ConstraintViolation == -2
DataViolation == -1

\* What a call of the storage throws that is no violation.
OtherException == -3

Outcome(db, result) == [db |-> db, result |-> result]

\* The storage's outcome of a write that appended a row, if its answer arrives.
Made(db, fault, id, otherwise) == Outcome(db, IF fault = "lost" THEN otherwise ELSE id)

\* 201 with what is read back by the id.
ReadBack(db, fault, json) == Outcome(db, IF fault = "unread" THEN Error(500) ELSE Answer(201, json))

Refused(db, status) == Outcome(db, Error(status))

HashPassword(password) == <<"sha256", password>>

\* A user or login request that is malformed or has an empty field.
Incomplete(parsed) ==
  parsed = <<>> \/ parsed[1].login = Empty \/ parsed[1].password = Empty

-----------------------------------------------------------------------------
(* Users.                                                                  *)

\* lr-2 stores the request as it is; the hash that its handler computes is
\* not stored.
CreateUser2(db, dto) ==
  IF \E k \in DOMAIN db.users : db.users[k].login = dto.login
  THEN Outcome(db, UniqueViolation)
  ELSE Outcome([db EXCEPT !.users = Append(@, dto)], Len(db.users) + 1)

CreateUserHandler2(db, json) ==
  LET parsed == ParseUserRequest2(json)
      dto == parsed[1]
      made == CreateUser2(db, dto)
  IN  IF Incomplete(parsed) THEN Refused(db, 400)
      ELSE IF made.result = UniqueViolation THEN Refused(db, 409)
      ELSE ReadBack(made.db, "none", SerializeUserResponse2(GetUserById2(made.db, made.result)[1]))

\* Mutant of UserRow: the password itself is stored.
UserRowPlain(dto, hash) == dto

\* The row of a user; the CHECKs come before the unique indexes.
UserRow(dto, hash) == [dto EXCEPT !.password = hash]

RegisterUser3(db, dto, hash, fault) ==
  IF fault = "refused" THEN Outcome(db, OtherException)
  ELSE IF dto.login \in ShortLogins THEN Outcome(db, ConstraintViolation)
  ELSE IF \E k \in DOMAIN db.users : \/ db.users[k].login = dto.login
                                     \/ db.users[k].email = dto.email
  THEN Outcome(db, UniqueViolation)
  ELSE Made([db EXCEPT !.users = Append(@, UserRow(dto, hash))], fault,
            Len(db.users) + 1, OtherException)

RegisterUser5(db, dto, hash, fault) == RegisterUser3(db, dto, hash, fault)
RegisterUser6(db, dto, hash, fault) == RegisterUser3(db, dto, hash, fault)

\* An exception that is no violation passes the storage and the handler.
CreateUserHandler3(db, json, fault) ==
  LET parsed == ParseUserRequest3(json)
      dto == parsed[1]
      made == RegisterUser3(db, dto, HashPassword(dto.password), fault)
  IN  IF Incomplete(parsed) THEN Refused(db, 400)
      ELSE IF made.result = OtherException THEN Refused(made.db, 500)
      ELSE IF made.result = UniqueViolation THEN Refused(db, 409)
      ELSE IF made.result = ConstraintViolation THEN Refused(db, 422)
      ELSE ReadBack(made.db, fault, SerializeUserResponse3(GetUserById3(made.db, made.result)[1]))

\* Mutant of CreateUserHandler4: the counter is read and not counted.
CreateUserHandler4Same(next, json) ==
  LET parsed == ParseUserRequest4(json)
      dto == parsed[1]
  IN  IF Incomplete(parsed) THEN [next |-> next, result |-> Error(400)]
      ELSE [next |-> next,
            result |-> Answer(201, SerializeUserResponse4(With(dto, "id", next)))]

\* lr-4 stores nothing: next is its counter of registrations.
CreateUserHandler4(next, json) ==
  LET parsed == ParseUserRequest4(json)
      dto == parsed[1]
  IN  IF Incomplete(parsed) THEN [next |-> next, result |-> Error(400)]
      ELSE [next |-> next + 1,
            result |-> Answer(201, SerializeUserResponse4(With(dto, "id", next)))]

CreateUserHandler5(db, json, fault) ==
  LET parsed == ParseUserRequest5(json)
      dto == parsed[1]
      made == RegisterUser5(db, dto, HashPassword(dto.password), fault)
  IN  IF Incomplete(parsed) THEN Refused(db, 400)
      ELSE IF made.result = OtherException THEN Refused(made.db, 500)
      ELSE IF made.result = UniqueViolation THEN Refused(db, 409)
      ELSE IF made.result = ConstraintViolation THEN Refused(db, 422)
      ELSE ReadBack(made.db, fault, SerializeUserResponse5(GetUserById5(made.db, made.result)[1]))

\* The event that lr-6 would publish after the write is commented out.
CreateUserHandler6(db, json, fault) ==
  LET parsed == ParseUserRequest6(json)
      dto == parsed[1]
      made == RegisterUser6(db, dto, HashPassword(dto.password), fault)
  IN  IF Incomplete(parsed) THEN Refused(db, 400)
      ELSE IF made.result = OtherException THEN Refused(made.db, 500)
      ELSE IF made.result = UniqueViolation THEN Refused(db, 409)
      ELSE IF made.result = ConstraintViolation THEN Refused(db, 422)
      ELSE ReadBack(made.db, fault, SerializeUserResponse6(GetUserById6(made.db, made.result)[1]))

\* The id of the first user with the login, if the password is that user's.
VerifyCredentials2(db, login, password) ==
  LET found == Where(db.users, LAMBDA u : u.login = login)
  IN  IF found # <<>> /\ db.users[found[1]].password = password THEN <<found[1]>> ELSE <<>>

VerifyCredentials3(db, login, hash) == VerifyCredentials2(db, login, hash)
VerifyCredentials5(db, login, hash) == VerifyCredentials2(db, login, hash)
VerifyCredentials6(db, login, hash) == VerifyCredentials2(db, login, hash)

\* The answer to a login that verified has the id and the login of the user.
LoginAnswer(id, user) ==
  IF id = <<>> THEN Error(401)
  ELSE IF user = <<>> THEN Error(500)
  ELSE Answer(200, SerializeAuthResponse([user_id |-> user[1].id, login |-> user[1].login]))

LoginHandler2(db, json) ==
  LET parsed == ParseLoginRequest(json)
      dto == parsed[1]
      id == VerifyCredentials2(db, dto.login, dto.password)
  IN  IF Incomplete(parsed) THEN Error(400) ELSE LoginAnswer(id, GetUserById2(db, id[1]))

LoginHandler3(db, json) ==
  LET parsed == ParseLoginRequest(json)
      dto == parsed[1]
      id == VerifyCredentials3(db, dto.login, HashPassword(dto.password))
  IN  IF Incomplete(parsed) THEN Error(400) ELSE LoginAnswer(id, GetUserById3(db, id[1]))

\* Any login is good; next is a counter of logins of its own.
LoginHandler4(next, json) ==
  LET parsed == ParseLoginRequest(json)
      dto == parsed[1]
  IN  IF Incomplete(parsed) THEN [next |-> next, result |-> Error(400)]
      ELSE [next |-> next + 1,
            result |-> Answer(200, SerializeAuthResponse([user_id |-> next, login |-> dto.login]))]

LoginHandler5(db, json) ==
  LET parsed == ParseLoginRequest(json)
      dto == parsed[1]
      id == VerifyCredentials5(db, dto.login, HashPassword(dto.password))
  IN  IF Incomplete(parsed) THEN Error(400) ELSE LoginAnswer(id, GetUserById5(db, id[1]))

LoginHandler6(db, json) ==
  LET parsed == ParseLoginRequest(json)
      dto == parsed[1]
      id == VerifyCredentials6(db, dto.login, HashPassword(dto.password))
  IN  IF Incomplete(parsed) THEN Error(400) ELSE LoginAnswer(id, GetUserById6(db, id[1]))

-----------------------------------------------------------------------------
(* Parcels.                                                                *)

AddParcel(db, row) == [db EXCEPT !.parcels = Append(@, row)]

CreateParcel2(db, dto) ==
  IF dto.sender_id \notin DOMAIN db.users THEN Outcome(db, DataViolation)
  ELSE Outcome(AddParcel(db, With(dto, "status", "created")), Len(db.parcels) + 1)

CreateParcelHandler2(db, json) ==
  LET parsed == ParseParcelRequest2(json)
      dto == parsed[1]
      made == CreateParcel2(db, dto)
  IN  IF parsed = <<>> THEN Refused(db, 400)
      ELSE IF made.result = DataViolation THEN Refused(db, 404)
      ELSE ReadBack(made.db, "none",
                    SerializeParcelResponse2(GetParcelById2(made.db, made.result)[1]))

\* A CHECK comes before the foreign key; every other exception is DATA_VIOLATION.
CreateParcel3(db, dto, fault) ==
  IF fault = "refused" THEN Outcome(db, DataViolation)
  ELSE IF dto.size = "unfit" THEN Outcome(db, ConstraintViolation)
  ELSE IF dto.sender_id \notin DOMAIN db.users THEN Outcome(db, DataViolation)
  ELSE Made(AddParcel(db, With(dto, "status", "created")), fault,
            Len(db.parcels) + 1, DataViolation)

CreateParcelHandler3(db, json, fault) ==
  LET parsed == ParseParcelRequest3(json)
      dto == parsed[1]
      made == CreateParcel3(db, dto, fault)
  IN  IF parsed = <<>> THEN Refused(db, 400)
      ELSE IF made.result = DataViolation THEN Refused(made.db, 404)
      ELSE IF made.result = ConstraintViolation THEN Refused(db, 422)
      ELSE ReadBack(made.db, fault, SerializeParcelResponse3(GetParcelById3(made.db, made.result)[1]))

\* lr-4's validator wants an array of features.  Whether there is such a sender
\* is not asked.
ValidParcel4(doc) == doc.size = "fits" /\ doc.features # Null
ValidParcel6(doc) == doc.size = "fits"

CreateParcel4(db, dto, fault) ==
  LET doc == MapParcelToBson4(dto)
  IN  IF fault = "refused" \/ ~ValidParcel4(doc) THEN Outcome(db, ConstraintViolation)
      ELSE Made(AddParcel(db, doc), fault, Len(db.parcels) + 1, ConstraintViolation)

\* Mutant of CreateParcelHandler4: the sender_id is looked at after the insert.
CreateParcelHandler4Late(db, json, fault) ==
  LET parsed == ParseParcelRequest4(json)
      dto == parsed[1]
      made == CreateParcel4(db, dto, fault)
  IN  IF parsed = <<>> THEN Refused(db, 400)
      ELSE IF dto.sender_id <= 0 THEN Refused(made.db, 400)
      ELSE IF made.result = ConstraintViolation THEN Refused(made.db, 422)
      ELSE ReadBack(made.db, fault, SerializeParcelResponse4(GetParcelById4(made.db, made.result)[1]))

CreateParcelHandler4(db, json, fault) ==
  LET parsed == ParseParcelRequest4(json)
      dto == parsed[1]
      made == CreateParcel4(db, dto, fault)
  IN  IF parsed = <<>> THEN Refused(db, 400)
      ELSE IF dto.sender_id <= 0 THEN Refused(db, 400)
      ELSE IF made.result = ConstraintViolation THEN Refused(made.db, 422)
      ELSE ReadBack(made.db, fault, SerializeParcelResponse4(GetParcelById4(made.db, made.result)[1]))

\* lr-5 has no validator on its collections.
CreateParcel5(db, dto, fault) ==
  IF fault = "refused" THEN Outcome(db, ConstraintViolation)
  ELSE Made(AddParcel(db, MapParcelToBson6(dto)), fault, Len(db.parcels) + 1, ConstraintViolation)

CreateParcelHandler5(db, json, fault) ==
  LET parsed == ParseParcelRequest6(json)
      dto == parsed[1]
      made == CreateParcel5(db, dto, fault)
  IN  IF parsed = <<>> THEN Refused(db, 400)
      ELSE IF dto.sender_id <= 0 THEN Refused(db, 400)
      ELSE IF made.result = ConstraintViolation THEN Refused(made.db, 422)
      ELSE ReadBack(made.db, fault, SerializeParcelResponse6(GetParcelById6(made.db, made.result)[1]))

CreateParcel6(db, dto, fault) ==
  LET doc == MapParcelToBson6(dto)
  IN  IF fault = "refused" \/ ~ValidParcel6(doc) THEN Outcome(db, ConstraintViolation)
      ELSE Made(AddParcel(db, doc), fault, Len(db.parcels) + 1, ConstraintViolation)

CreateParcelHandler6(db, json, fault) ==
  LET parsed == ParseParcelRequest6(json)
      dto == parsed[1]
      made == CreateParcel6(db, dto, fault)
  IN  IF parsed = <<>> THEN Refused(db, 400)
      ELSE IF dto.sender_id <= 0 THEN Refused(db, 400)
      ELSE IF made.result = ConstraintViolation THEN Refused(made.db, 422)
      ELSE ReadBack(made.db, fault, SerializeParcelResponse6(GetParcelById6(made.db, made.result)[1]))

\* A parcel that is not there is left alone.
SetParcelStatus(db, id, status) ==
  IF id \in DOMAIN db.parcels THEN [db EXCEPT !.parcels[id].status = status] ELSE db

UpdateParcelStatus2(db, id, status) == SetParcelStatus(db, id, status)
UpdateParcelStatus3(db, id, status) == SetParcelStatus(db, id, status)
UpdateParcelStatus4(db, id, status) == SetParcelStatus(db, id, status)
UpdateParcelStatus6(db, id, status) == SetParcelStatus(db, id, status)

\* $addToSet; it fails on features that are no array.
AddFeatureToParcel4(db, id, feature) ==
  IF \/ id \notin DOMAIN db.parcels
     \/ db.parcels[id].features = Null
     \/ \E k \in DOMAIN db.parcels[id].features : db.parcels[id].features[k] = feature
  THEN db
  ELSE [db EXCEPT !.parcels[id].features = Append(@, feature)]

-----------------------------------------------------------------------------
(* Deliveries.  A tracking number is named by the number in it.            *)

AddDelivery(db, row) == [db EXCEPT !.deliveries = Append(@, row)]

\* The tracking number that lr-3 inserts, to be replaced by the one with the id.
Unnumbered(k) == 0 - k

CreateDelivery2(db, dto) ==
  LET k == Len(db.deliveries) + 1
      row == [parcel_id |-> dto.parcel_id, receiver_id |-> dto.receiver_id,
              from_address |-> dto.from_address, to_address |-> dto.to_address,
              scheduled_pickup_time |-> dto.scheduled_pickup_time,
              tracking_number |-> k, status |-> "pending", delivered_at |-> Nothing]
  IN  IF dto.parcel_id \notin DOMAIN db.parcels THEN Outcome(db, -1)
      ELSE IF dto.receiver_id \notin DOMAIN db.users THEN Outcome(db, -2)
      ELSE Outcome(UpdateParcelStatus2(AddDelivery(db, row), dto.parcel_id, "assigned"), k)

CreateDeliveryHandler2(db, json) ==
  LET parsed == ParseDeliveryRequest2(json)
      dto == parsed[1]
      made == CreateDelivery2(db, dto)
  IN  IF parsed = <<>> THEN Refused(db, 400)
      ELSE IF made.result \in {-1, -2} THEN Refused(db, 404)
      ELSE ReadBack(made.db, "none",
                    SerializeDeliveryResponse2(GetDeliveryById2(made.db, made.result)[1]))

\* Three statements: the row, its tracking number, the parcel's status.
CreateDelivery3(db, dto, fault) ==
  LET k == Len(db.deliveries) + 1
      row == [parcel_id |-> dto.parcel_id, sender_id |-> dto.sender_id,
              receiver_id |-> dto.receiver_id, status |-> "pending",
              tracking_number |-> IF fault = "lost" THEN Unnumbered(k) ELSE k,
              from_address |-> dto.from_address, to_address |-> dto.to_address,
              delivered_at |-> Nothing]
      added == AddDelivery(db, row)
  IN  IF \/ fault = "refused"
         \/ dto.parcel_id \notin DOMAIN db.parcels
         \/ ~({dto.sender_id, dto.receiver_id} \subseteq DOMAIN db.users)
      THEN Outcome(db, DataViolation)
      ELSE IF fault \in {"lost", "unmarked"} THEN Outcome(added, DataViolation)
      ELSE Outcome(UpdateParcelStatus3(added, dto.parcel_id, "assigned"), k)

CreateDeliveryHandler3(db, json, fault) ==
  LET parsed == ParseDeliveryRequest3(json)
      dto == parsed[1]
      made == CreateDelivery3(db, dto, fault)
  IN  IF parsed = <<>> THEN Refused(db, 400)
      ELSE IF made.result = DataViolation THEN Refused(made.db, 404)
      ELSE ReadBack(made.db, fault,
                    SerializeDeliveryResponse3(GetDeliveryById3(made.db, made.result)[1]))

ValidDelivery(doc) == doc.from_address.long /\ doc.to_address.long

\* A failure of UpdateParcelStatus is not noticed.
CreateDelivery4(db, dto, fault) ==
  LET k == Len(db.deliveries) + 1
      doc == MapDeliveryToBson4(k, dto)
      added == AddDelivery(db, doc)
  IN  IF fault = "refused" THEN Outcome(db, ConstraintViolation)
      ELSE IF dto.parcel_id \notin DOMAIN db.parcels THEN Outcome(db, DataViolation)
      ELSE IF ~ValidDelivery(doc) THEN Outcome(db, ConstraintViolation)
      ELSE IF fault = "lost" THEN Outcome(added, ConstraintViolation)
      ELSE IF fault = "unmarked" THEN Outcome(added, k)
      ELSE Outcome(UpdateParcelStatus4(added, dto.parcel_id, "assigned"), k)

CreateDeliveryHandler4(db, json, fault) ==
  LET parsed == ParseDeliveryRequest4(json)
      dto == parsed[1]
      made == CreateDelivery4(db, dto, fault)
  IN  IF parsed = <<>> THEN Refused(db, 400)
      ELSE IF made.result = DataViolation THEN Refused(db, 404)
      ELSE IF made.result = ConstraintViolation THEN Refused(made.db, 422)
      ELSE ReadBack(made.db, fault,
                    SerializeDeliveryResponse4(GetDeliveryById4(made.db, made.result)[1]))

CreateDelivery6(db, dto, fault) ==
  LET k == Len(db.deliveries) + 1
      doc == MapDeliveryToBson6(k, dto)
      added == AddDelivery(db, doc)
  IN  IF fault = "refused" THEN Outcome(db, ConstraintViolation)
      ELSE IF dto.parcel_id \notin DOMAIN db.parcels THEN Outcome(db, DataViolation)
      ELSE IF ~ValidDelivery(doc) THEN Outcome(db, ConstraintViolation)
      ELSE IF fault = "lost" THEN Outcome(added, ConstraintViolation)
      ELSE IF fault = "unmarked" THEN Outcome(added, k)
      ELSE Outcome(UpdateParcelStatus6(added, dto.parcel_id, "assigned"), k)

CreateDeliveryHandler6(db, json, fault) ==
  LET parsed == ParseDeliveryRequest6(json)
      dto == parsed[1]
      made == CreateDelivery6(db, dto, fault)
  IN  IF parsed = <<>> THEN Refused(db, 400)
      ELSE IF made.result = DataViolation THEN Refused(db, 404)
      ELSE IF made.result = ConstraintViolation THEN Refused(made.db, 422)
      ELSE ReadBack(made.db, fault,
                    SerializeDeliveryResponse6(GetDeliveryById6(made.db, made.result)[1]))

\* The status, and the time of a delivery.
SetStatus(row, status) ==
  [row EXCEPT !.status = status,
              !.delivered_at = IF status = "delivered" THEN "now" ELSE @]

UpdateDeliveryStatus2(db, id, status) ==
  IF id \in DOMAIN db.deliveries
  THEN [db EXCEPT !.deliveries[id] = SetStatus(@, status)] ELSE db

UpdateDeliveryStatus3(db, id, status) == UpdateDeliveryStatus2(db, id, status)

Event(status, location, comment) ==
  [status |-> status, location |-> location, comment |-> comment]

\* $push into the events; it does not set the status.
AddDeliveryEvent4(db, id, status, location, comment) ==
  IF id \in DOMAIN db.deliveries
  THEN [db EXCEPT !.deliveries[id].events = Append(@, Event(status, location, comment))]
  ELSE db

\* Mutant of UpdateDeliveryStatus4: the parcel gets the delivery's status.
UpdateDeliveryStatus4Same(db, id, status, location, comment) ==
  LET pushed == AddDeliveryEvent4(UpdateDeliveryStatus2(db, id, status),
                                  id, status, location, comment)
  IN  IF id \notin DOMAIN db.deliveries \/ status \notin {"delivered", "cancelled"} THEN pushed
      ELSE UpdateParcelStatus4(pushed, db.deliveries[id].parcel_id, status)

\* The parcel follows a delivery that has arrived or is cancelled.
UpdateDeliveryStatus4(db, id, status, location, comment) ==
  LET pushed == AddDeliveryEvent4(UpdateDeliveryStatus2(db, id, status),
                                  id, status, location, comment)
  IN  IF id \notin DOMAIN db.deliveries \/ status \notin {"delivered", "cancelled"} THEN pushed
      ELSE UpdateParcelStatus4(pushed, db.deliveries[id].parcel_id,
                               IF status = "delivered" THEN "delivered" ELSE "created")

UpdateDeliveryStatus6(db, id, status, location, comment) ==
  UpdateDeliveryStatus4(db, id, status, location, comment)
=============================================================================
