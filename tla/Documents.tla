----------------------------- MODULE Documents -----------------------------
(***************************************************************************)
(* What the generations lr-2 to lr-6 read from JSON and write to JSON and  *)
(* BSON.  A JSON object is a function from the names of its members to     *)
(* their values; an absent member is not in its domain, a null one has the *)
(* value Null.  A DTO has all its fields, an empty optional is Nothing.    *)
(* A call that may throw, or may find nothing, returns a list: of its one  *)
(* value, or of none.                                                      *)
(*                                                                         *)
(* The numeric fields of a parcel (weight, dimensions, declared_value) are *)
(* one field "size", and first_name and last_name are one field "name";    *)
(* created_at and timestamps are left to the position in the store.  The   *)
(* digit in a name is the generation; a definition that is another one has *)
(* the same text in both.  lr-5 has the documents of lr-6.                 *)
(***************************************************************************)
EXTENDS Integers, SequencesExt

CONSTANTS
  Null,       \* null of JSON and of BSON
  Nothing,    \* an optional field that is std::nullopt
  Empty       \* the string ""

\* As<T>() of a member that is absent or null throws; an optional member is
\* read if HasMember, so null is not the same as absent.
Parse(json, required, optional) ==
  IF \/ ~(required \subseteq DOMAIN json)
     \/ \E f \in (required \cup optional) \cap DOMAIN json : json[f] = Null
  THEN <<>>
  ELSE <<[f \in required \cup optional |-> IF f \in DOMAIN json THEN json[f] ELSE Nothing]>>

\* A ValueBuilder to which every field but an empty optional is added.
Serialize(dto, fields) == [f \in {g \in fields : dto[g] # Nothing} |-> dto[f]]

\* A loop over a member that is null has no rounds; a builder that nothing was
\* pushed to extracts as null.
ListOf(value) == IF value = Null THEN <<>> ELSE value
ValueOf(list) == IF list = <<>> THEN Null ELSE list

\* The record with one more field.
With(record, f, value) ==
  [g \in DOMAIN record \cup {f} |-> IF g = f THEN value ELSE record[g]]

-----------------------------------------------------------------------------
(* Users and logins.                                                       *)

ParseUserRequest2(json) == Parse(json, {"login", "password", "name", "email"}, {})
ParseUserRequest3(json) == ParseUserRequest2(json)
ParseUserRequest4(json) == ParseUserRequest2(json)
ParseUserRequest5(json) == ParseUserRequest2(json)
ParseUserRequest6(json) == ParseUserRequest2(json)

SerializeUserResponse2(user) == Serialize(user, {"id", "login", "name", "email"})
SerializeUserResponse3(user) == SerializeUserResponse2(user)
SerializeUserResponse4(user) == SerializeUserResponse2(user)
SerializeUserResponse5(user) == SerializeUserResponse2(user)
SerializeUserResponse6(user) == SerializeUserResponse2(user)

\* What the cache of lr-5 makes of the JSON it keeps.
ParseUserResponse5(json) == Parse(json, {"id", "login", "name", "email"}, {})

ParseLoginRequest(json) == Parse(json, {"login", "password"}, {})

SerializeAuthResponse(auth) == Serialize(auth, {"user_id", "login"})

-----------------------------------------------------------------------------
(* Parcels.                                                                *)

ParseParcelRequest2(json) == Parse(json, {"sender_id", "size"}, {"description"})
ParseParcelRequest3(json) == Parse(json, {"sender_id", "size"}, {"description"})

ParseParcelRequest4(json) ==
  LET parsed == Parse(json, {"sender_id", "size"}, {"description"})
  IN  IF parsed = <<>> THEN <<>>
      ELSE <<With(parsed[1], "features",
                  IF "features" \in DOMAIN json THEN ListOf(json.features) ELSE Nothing)>>

ParseParcelRequest6(json) == ParseParcelRequest4(json)

ParcelFields == {"id", "sender_id", "size", "description", "status"}

SerializeParcelResponse2(parcel) == Serialize(parcel, ParcelFields)
SerializeParcelResponse3(parcel) == Serialize(parcel, ParcelFields)
SerializeParcelResponse4(parcel) ==
  Serialize([parcel EXCEPT !.features = ValueOf(@)], ParcelFields \cup {"features"})

SerializeParcelResponse6(parcel) == SerializeParcelResponse4(parcel)

\* The document that lr-4 inserts: an absent description becomes "", and
\* features that are absent or empty become null.
MapParcelToBson4(dto) ==
  [sender_id |-> dto.sender_id, size |-> dto.size,
   description |-> IF dto.description = Nothing THEN Empty ELSE dto.description,
   status |-> "created",
   features |-> ValueOf(IF dto.features = Nothing THEN <<>> ELSE dto.features)]

\* Mutant of MapParcelToBson6: the description is left out with the features.
MapParcelToBson6Short(dto) ==
  [sender_id |-> dto.sender_id, size |-> dto.size,
   description |-> Empty, status |-> "created"]

\* lr-5 and lr-6 do not store the features.
MapParcelToBson6(dto) ==
  [sender_id |-> dto.sender_id, size |-> dto.size,
   description |-> IF dto.description = Nothing THEN Empty ELSE dto.description,
   status |-> "created"]

\* A description that is "" is read as none.
MapBsonToParcel4(id, doc) ==
  [id |-> id, sender_id |-> doc.sender_id, size |-> doc.size,
   description |-> IF doc.description = Empty THEN Nothing ELSE doc.description,
   status |-> doc.status, features |-> ListOf(doc.features)]

MapBsonToParcel6(id, doc) ==
  [id |-> id, sender_id |-> doc.sender_id, size |-> doc.size,
   description |-> IF doc.description = Empty THEN Nothing ELSE doc.description,
   status |-> doc.status, features |-> Nothing]

-----------------------------------------------------------------------------
(* Deliveries.  An address has the city before its first comma and is of   *)
(* five characters or more, or not.                                        *)

\* The sender is not in the request: it is the sender of the parcel.
ParseDeliveryRequest2(json) ==
  Parse(json, {"parcel_id", "receiver_id", "from_address", "to_address"},
        {"scheduled_pickup_time"})
ParseDeliveryRequest3(json) ==
  Parse(json, {"parcel_id", "sender_id", "receiver_id", "from_address", "to_address"},
        {"scheduled_pickup_time"})
ParseDeliveryRequest4(json) ==
  Parse(json, {"parcel_id", "sender_id", "receiver_id", "from_address", "to_address"},
        {"scheduled_pickup_time"})

ParseDeliveryRequest6(json) == ParseDeliveryRequest4(json)

DeliveryFields ==
  {"id", "parcel_id", "sender_id", "receiver_id", "tracking_number", "status",
   "from_address", "to_address", "delivered_at"}

SerializeDeliveryResponse2(delivery) == Serialize(delivery, DeliveryFields)
SerializeDeliveryResponse3(delivery) == Serialize(delivery, DeliveryFields)

SerializeDeliveryEvent4(event) == Serialize(event, {"status", "location", "comment"})

SerializeDeliveryResponse4(delivery) ==
  With(Serialize(delivery, DeliveryFields), "events",
       ValueOf([k \in DOMAIN delivery.events |-> SerializeDeliveryEvent4(delivery.events[k])]))

\* The document of a new delivery; scheduled_pickup_time is not stored.
MapDeliveryToBson4(tracking, dto) ==
  [parcel_id |-> dto.parcel_id, sender_id |-> dto.sender_id,
   receiver_id |-> dto.receiver_id, tracking_number |-> tracking, status |-> "pending",
   from_address |-> dto.from_address, to_address |-> dto.to_address,
   delivered_at |-> Null,
   events |-> <<[status |-> "pending", location |-> dto.from_address.city]>>]

\* An event of the document has a comment or not.
MapBsonToDelivery4(id, doc) ==
  [id |-> id, parcel_id |-> doc.parcel_id, sender_id |-> doc.sender_id,
   receiver_id |-> doc.receiver_id, tracking_number |-> doc.tracking_number,
   status |-> doc.status, from_address |-> doc.from_address, to_address |-> doc.to_address,
   delivered_at |-> IF doc.delivered_at = Null THEN Nothing ELSE doc.delivered_at,
   events |-> [k \in DOMAIN doc.events |->
                 Parse(doc.events[k], {"status", "location"}, {"comment"})[1]]]

SerializeDeliveryEvent6(event) == SerializeDeliveryEvent4(event)
SerializeDeliveryResponse6(delivery) == SerializeDeliveryResponse4(delivery)
MapDeliveryToBson6(tracking, dto) == MapDeliveryToBson4(tracking, dto)
MapBsonToDelivery6(id, doc) == MapBsonToDelivery4(id, doc)
=============================================================================
