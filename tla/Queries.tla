------------------------------ MODULE Queries ------------------------------
(***************************************************************************)
(* What GET answers in the generations lr-2 to lr-6: the handlers'         *)
(* reading of the arguments, the storages' selection, order and page, and  *)
(* the DTO that is shown.  Everything is an operator on a database db:     *)
(* users, parcels and deliveries are sequences of rows (lr-2: entries,     *)
(* lr-4 to lr-6: documents) in order of insertion, the id of a row is its  *)
(* place, and plan is the order in which a query without ORDER BY gets the *)
(* rows: that of insertion, or the reverse when an index on created_at     *)
(* serves it.  Rows of ORDER BY created_at have distinct stamps.           *)
(*                                                                         *)
(* The digit in a name is the generation.  An argument that is a number is *)
(* that number, or Junk when std::stoi and std::stoll throw.               *)
(***************************************************************************)
EXTENDS Documents

CONSTANTS
  Junk,        \* an argument that is not a number
  Star,        \* the character '*'
  Percent,     \* the character '%'
  MaxReserve   \* elements a std::vector can reserve memory for

\* An answer: the status and what is shown; an error shows Nothing.
Answer(status, shown) == [status |-> status, shown |-> shown]
Error(status) == Answer(status, Nothing)

\* What was found in a list of its own, or 404.
OneOrNotFound(found) == IF found = <<>> THEN Error(404) ELSE Answer(200, found)

\* What a call returned, or the status for what it threw.
Returned(result, status) == IF result = <<>> THEN Error(status) ELSE Answer(200, result[1])

\* Serialize of every element of a list.
Each(answer, Json(_)) ==
  IF answer.status # 200 THEN answer
  ELSE [answer EXCEPT !.shown = [k \in DOMAIN @ |-> Json(@[k])]]

\* q is a function from the arguments of the request to their values; an
\* absent argument is the empty string, which is no number.
Arg(q, name) == IF name \in DOMAIN q THEN q[name] ELSE Junk

RequiredBounds(q) == [from |-> Arg(q, "from"), to |-> Arg(q, "to")]

\* Mutant of DefaultBounds: the first place is 0.
DefaultBoundsZero(q) ==
  [from |-> IF "from" \in DOMAIN q THEN q.from ELSE 0,
   to   |-> IF "to" \in DOMAIN q THEN q.to ELSE 10]

DefaultBounds(q) ==
  [from |-> IF "from" \in DOMAIN q THEN q.from ELSE 1,
   to   |-> IF "to" \in DOMAIN q THEN q.to ELSE 10]

ValidBounds(b) == b.from # Junk /\ b.to # Junk /\ b.from > 0 /\ b.to >= b.from

\* Mutant of Window: OFFSET from instead of from - 1.
WindowLate(ids, b) ==
  SubSeq(ids, b.from + 1, IF b.to < Len(ids) THEN b.to ELSE Len(ids))

\* LIMIT to - from + 1 OFFSET from - 1.
Window(ids, b) == SubSeq(ids, b.from, IF b.to < Len(ids) THEN b.to ELSE Len(ids))

\* A set of numbers as a list, the least one first.
Ascending(ids) == CHOOSE s \in SetToSeqs(ids) : \A i, j \in DOMAIN s : i < j => s[i] < s[j]

\* The ids of the rows a condition holds of, in order of insertion.
Where(rows, Test(_)) == Ascending({k \in DOMAIN rows : Test(rows[k])})

\* The first of a list of ids, if there is one, and the row with an id.
First(ids, Dto(_)) == IF ids = <<>> THEN <<>> ELSE <<Dto(ids[1])>>
ById(rows, id, Dto(_)) == IF id \in DOMAIN rows THEN <<Dto(id)>> ELSE <<>>

InPlan(db, ids) == IF db.plan = "insertion" THEN ids ELSE Reverse(ids)

Show(ids, Dto(_)) == [k \in DOMAIN ids |-> Dto(ids[k])]

Within(text, part) == \E i \in 1 .. Len(text) + 1 : IsPrefix(part, SubSeq(text, i, Len(text)))

\* LIKE: a '%' stands for any text, another character for itself.  at[j] is the
\* place of the text from which the rest of the pattern fits.
Like(text, pattern) ==
  \E at \in [1 .. Len(pattern) + 1 -> 1 .. Len(text) + 1] :
    /\ at[1] = 1
    /\ at[Len(pattern) + 1] = Len(text) + 1
    /\ \A j \in 1 .. Len(pattern) :
         \/ pattern[j] = Percent /\ at[j] <= at[j + 1]
         \/ at[j] <= Len(text) /\ pattern[j] = text[at[j]] /\ at[j + 1] = at[j] + 1

-----------------------------------------------------------------------------
(* lr-2.  The maps are ordered by id and nothing has pages.                *)

UserDto2(db, k) == With(db.users[k], "id", k)

GetUserByLogin2(db, login) ==
  First(Where(db.users, LAMBDA u : u.login = login),
        LAMBDA k : UserDto2(db, k))

GetUserById2(db, id) == ById(db.users, id, LAMBDA k : UserDto2(db, k))

\* One trailing '*' is dropped, the rest is looked for anywhere in the name.
SearchUsersByNameMask2(db, mask) ==
  LET part == IF mask # <<>> /\ Last(mask) = Star THEN Front(mask) ELSE mask
  IN  Show(Where(db.users, LAMBDA u : Within(u.name, part)), LAMBDA k : UserDto2(db, k))

ParcelDto2(db, k) == With(db.parcels[k], "id", k)

GetParcelById2(db, id) == ById(db.parcels, id, LAMBDA k : ParcelDto2(db, k))

GetUserParcels2(db, user) ==
  Show(Where(db.parcels, LAMBDA p : p.sender_id = user), LAMBDA k : ParcelDto2(db, k))

SenderOf2(db, row) ==
  IF row.parcel_id \in DOMAIN db.parcels THEN db.parcels[row.parcel_id].sender_id ELSE 0

\* The sender is the parcel's.
DeliveryDto2(db, k) ==
  With(With(db.deliveries[k], "id", k), "sender_id", SenderOf2(db, db.deliveries[k]))

GetDeliveryById2(db, id) ==
  ById(db.deliveries, id, LAMBDA k : DeliveryDto2(db, k))

GetDeliveriesBySender2(db, sender) ==
  Show(Where(db.deliveries, LAMBDA d : /\ d.parcel_id \in DOMAIN db.parcels
                                       /\ SenderOf2(db, d) = sender),
       LAMBDA k : DeliveryDto2(db, k))

GetDeliveriesByReceiver2(db, receiver) ==
  Show(Where(db.deliveries, LAMBDA d : d.receiver_id = receiver),
       LAMBDA k : DeliveryDto2(db, k))

GetDeliveryByTrackingNumber2(db, tracking) ==
  First(Where(db.deliveries, LAMBDA d : d.tracking_number = tracking),
        LAMBDA k : DeliveryDto2(db, k))

GetUsersHandler2(db, q) ==
  Each(IF "login" \in DOMAIN q THEN OneOrNotFound(GetUserByLogin2(db, q.login))
       ELSE IF "name_mask" \in DOMAIN q THEN Answer(200, SearchUsersByNameMask2(db, q.name_mask))
       ELSE Error(400),
       SerializeUserResponse2)

GetParcelsHandler2(db, q) ==
  IF Arg(q, "user_id") = Junk THEN Error(400)
  ELSE Each(Answer(200, GetUserParcels2(db, q.user_id)), SerializeParcelResponse2)

GetDeliveriesHandler2(db, q) ==
  Each(IF "tracking_number" \in DOMAIN q
       THEN OneOrNotFound(GetDeliveryByTrackingNumber2(db, q.tracking_number))
       ELSE IF "sender_id" \in DOMAIN q
       THEN IF q.sender_id = Junk THEN Error(400)
            ELSE Answer(200, GetDeliveriesBySender2(db, q.sender_id))
       ELSE IF Arg(q, "receiver_id") = Junk THEN Error(400)
            ELSE Answer(200, GetDeliveriesByReceiver2(db, q.receiver_id)),
       SerializeDeliveryResponse2)

-----------------------------------------------------------------------------
(* PostgreSQL: lr-3, and the users of lr-5 and lr-6.                       *)

UserDto3(db, k) == With(db.users[k], "id", k)

\* The page is applied to the one row there can be.
GetUserByLogin3(db, login, b) ==
  First(Window(Where(db.users, LAMBDA u : u.login = login), b),
        LAMBDA k : UserDto3(db, k))

GetUserById3(db, id) == ById(db.users, id, LAMBDA k : UserDto3(db, k))

\* Every '*' becomes a '%'; there is no ORDER BY.
SearchUsersByNameMask3(db, mask, b) ==
  LET pattern == [i \in DOMAIN mask |-> IF mask[i] = Star THEN Percent ELSE mask[i]]
  IN  Show(Window(InPlan(db, Where(db.users, LAMBDA u : Like(u.name, pattern))), b),
           LAMBDA k : UserDto3(db, k))

ParcelDto3(db, k) == With(db.parcels[k], "id", k)

GetParcelById3(db, id) == ById(db.parcels, id, LAMBDA k : ParcelDto3(db, k))

\* Newest first.  As<std::string>() of a description that is NULL throws.
GetUserParcels3(db, user, b) ==
  LET page == Window(Reverse(Where(db.parcels, LAMBDA p : p.sender_id = user)), b)
  IN  IF \E k \in DOMAIN page : db.parcels[page[k]].description = Nothing
      THEN <<>>
      ELSE <<Show(page, LAMBDA k : ParcelDto3(db, k))>>

DeliveryDto3(db, k) == With(db.deliveries[k], "id", k)

GetDeliveryById3(db, id) ==
  ById(db.deliveries, id, LAMBDA k : DeliveryDto3(db, k))

\* Newest first; the row is joined with its parcel, which is there.
GetDeliveriesBySender3(db, sender, b) ==
  Show(Window(Reverse(Where(db.deliveries, LAMBDA d : d.sender_id = sender)), b),
       LAMBDA k : DeliveryDto3(db, k))

GetDeliveriesByReceiver3(db, receiver, b) ==
  Show(Window(Reverse(Where(db.deliveries, LAMBDA d : d.receiver_id = receiver)), b),
       LAMBDA k : DeliveryDto3(db, k))

GetDeliveryByTrackingNumber3(db, tracking) ==
  First(Where(db.deliveries, LAMBDA d : d.tracking_number = tracking),
        LAMBDA k : DeliveryDto3(db, k))

GetUsersHandler3(db, q) ==
  LET b == RequiredBounds(q)
  IN  IF ~ValidBounds(b) THEN Error(400)
      ELSE IF "login" \in DOMAIN q
      THEN Each(OneOrNotFound(GetUserByLogin3(db, q.login, b)), SerializeUserResponse3)
      ELSE IF "name_mask" \in DOMAIN q
      THEN Each(Answer(200, SearchUsersByNameMask3(db, q.name_mask, b)), SerializeUserResponse3)
      ELSE Error(400)

GetParcelsHandler3(db, q) ==
  LET b == RequiredBounds(q)
  IN  IF ~ValidBounds(b) \/ Arg(q, "user_id") = Junk THEN Error(400)
      ELSE Each(Returned(GetUserParcels3(db, q.user_id, b), 400), SerializeParcelResponse3)

GetDeliveriesHandler3(db, q) ==
  LET b == DefaultBounds(q)
  IN  IF ~ValidBounds(b) THEN Error(400)
      ELSE Each(IF "tracking_number" \in DOMAIN q
                THEN OneOrNotFound(GetDeliveryByTrackingNumber3(db, q.tracking_number))
                ELSE IF "sender_id" \in DOMAIN q
                THEN IF q.sender_id = Junk THEN Error(400)
                     ELSE Answer(200, GetDeliveriesBySender3(db, q.sender_id, b))
                ELSE IF Arg(q, "receiver_id") = Junk THEN Error(400)
                     ELSE Answer(200, GetDeliveriesByReceiver3(db, q.receiver_id, b)),
                SerializeDeliveryResponse3)

\* lr-5 looks into the cache first: cached is what Redis keeps for the login,
\* in a list of its own.  What is found there is answered whatever the page asked for.
SearchUserByLogin5(cached) == IF cached = <<>> THEN <<>> ELSE ParseUserResponse5(cached[1])

GetUserByLogin5(db, login, b) == GetUserByLogin3(db, login, b)
GetUserById5(db, id) == GetUserById3(db, id)
SearchUsersByNameMask5(db, mask, b) == SearchUsersByNameMask3(db, mask, b)

\* What the cache of a login is after the look-up of q.
SaveUserByLogin5(db, cached, q) ==
  LET b == RequiredBounds(q)
  IN  IF ~ValidBounds(b) \/ SearchUserByLogin5(cached) # <<>>
         \/ GetUserByLogin5(db, q.login, b) = <<>>
      THEN cached
      ELSE <<SerializeUserResponse5(GetUserByLogin5(db, q.login, b)[1])>>

GetUsersHandler5(db, cached, q) ==
  LET b == RequiredBounds(q)
  IN  IF ~ValidBounds(b) THEN Error(400)
      ELSE IF "login" \in DOMAIN q
      THEN Each(OneOrNotFound(IF SearchUserByLogin5(cached) # <<>>
                              THEN SearchUserByLogin5(cached)
                              ELSE GetUserByLogin5(db, q.login, b)),
                SerializeUserResponse5)
      ELSE IF "name_mask" \in DOMAIN q
      THEN Each(Answer(200, SearchUsersByNameMask5(db, q.name_mask, b)), SerializeUserResponse5)
      ELSE Error(400)

GetUserByLogin6(db, login, b) == GetUserByLogin3(db, login, b)
GetUserById6(db, id) == GetUserById3(db, id)
SearchUsersByNameMask6(db, mask, b) == SearchUsersByNameMask3(db, mask, b)

GetUsersHandler6(db, q) ==
  LET b == RequiredBounds(q)
  IN  IF ~ValidBounds(b) THEN Error(400)
      ELSE IF "login" \in DOMAIN q
      THEN Each(OneOrNotFound(GetUserByLogin6(db, q.login, b)), SerializeUserResponse6)
      ELSE IF "name_mask" \in DOMAIN q
      THEN Each(Answer(200, SearchUsersByNameMask6(db, q.name_mask, b)), SerializeUserResponse6)
      ELSE Error(400)

-----------------------------------------------------------------------------
(* MongoDB: lr-4 to lr-6.  There is no sort in any query.                  *)

\* The vector is reserved for the page that was asked for, not for what there is.
Find(db, rows, Test(_), b, Dto(_)) ==
  IF b.to - b.from + 1 > MaxReserve THEN <<>>
  ELSE <<Show(Window(InPlan(db, Where(rows, Test)), b), Dto)>>

ParcelDto4(db, k) == MapBsonToParcel4(k, db.parcels[k])
DeliveryDto4(db, k) == MapBsonToDelivery4(k, db.deliveries[k])

GetParcelById4(db, id) == ById(db.parcels, id, LAMBDA k : ParcelDto4(db, k))

GetParcelsBySender4(db, sender, b) ==
  Find(db, db.parcels, LAMBDA p : p.sender_id = sender, b, LAMBDA k : ParcelDto4(db, k))

GetParcelsByStatus4(db, status, b) ==
  Find(db, db.parcels, LAMBDA p : p.status = status, b, LAMBDA k : ParcelDto4(db, k))

GetDeliveryById4(db, id) ==
  ById(db.deliveries, id, LAMBDA k : DeliveryDto4(db, k))

GetDeliveryByTrackingNumber4(db, tracking) ==
  First(Where(db.deliveries, LAMBDA d : d.tracking_number = tracking),
        LAMBDA k : DeliveryDto4(db, k))

GetDeliveriesBySender4(db, sender, b) ==
  Find(db, db.deliveries, LAMBDA d : d.sender_id = sender, b, LAMBDA k : DeliveryDto4(db, k))

GetDeliveriesByReceiver4(db, receiver, b) ==
  Find(db, db.deliveries, LAMBDA d : d.receiver_id = receiver, b, LAMBDA k : DeliveryDto4(db, k))

GetDeliveriesByStatus4(db, status, b) ==
  Find(db, db.deliveries, LAMBDA d : d.status = status, b, LAMBDA k : DeliveryDto4(db, k))

\* lr-4 keeps no users: the list is empty.
GetUsersHandler4(q) ==
  IF {"login", "name_mask"} \cap DOMAIN q = {} THEN Error(400) ELSE Answer(200, <<>>)

\* An exception is 400 for a user's list, and passes the handler for a status's.
GetParcelsHandler4(db, q) ==
  LET b == RequiredBounds(q)
  IN  IF ~ValidBounds(b) THEN Error(400)
      ELSE Each(IF "user_id" \in DOMAIN q
                THEN IF q.user_id = Junk THEN Error(400)
                     ELSE Returned(GetParcelsBySender4(db, q.user_id, b), 400)
                ELSE IF "status" \in DOMAIN q
                THEN Returned(GetParcelsByStatus4(db, q.status, b), 500)
                ELSE Error(400),
                SerializeParcelResponse4)

\* The bounds are read for the lists only.
GetDeliveriesHandler4(db, q) ==
  LET b == DefaultBounds(q)
  IN  Each(IF "tracking_number" \in DOMAIN q
           THEN OneOrNotFound(GetDeliveryByTrackingNumber4(db, q.tracking_number))
           ELSE IF ~ValidBounds(b) THEN Error(400)
           ELSE IF "sender_id" \in DOMAIN q
           THEN IF q.sender_id = Junk THEN Error(400)
                ELSE Returned(GetDeliveriesBySender4(db, q.sender_id, b), 400)
           ELSE IF "receiver_id" \in DOMAIN q
           THEN IF q.receiver_id = Junk THEN Error(400)
                ELSE Returned(GetDeliveriesByReceiver4(db, q.receiver_id, b), 400)
           ELSE IF "status" \in DOMAIN q
           THEN Returned(GetDeliveriesByStatus4(db, q.status, b), 500)
           ELSE Error(400),
           SerializeDeliveryResponse4)

\* lr-5 and lr-6: the same queries, but none by status.
ParcelDto6(db, k) == MapBsonToParcel6(k, db.parcels[k])
DeliveryDto6(db, k) == MapBsonToDelivery6(k, db.deliveries[k])

GetParcelById6(db, id) == ById(db.parcels, id, LAMBDA k : ParcelDto6(db, k))

GetParcelsBySender6(db, sender, b) ==
  Find(db, db.parcels, LAMBDA p : p.sender_id = sender, b, LAMBDA k : ParcelDto6(db, k))

GetDeliveryById6(db, id) ==
  ById(db.deliveries, id, LAMBDA k : DeliveryDto6(db, k))

GetDeliveryByTrackingNumber6(db, tracking) ==
  First(Where(db.deliveries, LAMBDA d : d.tracking_number = tracking),
        LAMBDA k : DeliveryDto6(db, k))

GetDeliveriesBySender6(db, sender, b) ==
  Find(db, db.deliveries, LAMBDA d : d.sender_id = sender, b, LAMBDA k : DeliveryDto6(db, k))

GetDeliveriesByReceiver6(db, receiver, b) ==
  Find(db, db.deliveries, LAMBDA d : d.receiver_id = receiver, b, LAMBDA k : DeliveryDto6(db, k))

GetParcelsHandler6(db, q) ==
  LET b == RequiredBounds(q)
  IN  IF ~ValidBounds(b) \/ Arg(q, "user_id") = Junk THEN Error(400)
      ELSE Each(Returned(GetParcelsBySender6(db, q.user_id, b), 400), SerializeParcelResponse6)

\* lr-6, of a request the rate limiter lets through.
GetDeliveriesHandler6(db, q) ==
  LET b == DefaultBounds(q)
  IN  IF ~ValidBounds(b) THEN Error(400)
      ELSE Each(IF "tracking_number" \in DOMAIN q
                THEN OneOrNotFound(GetDeliveryByTrackingNumber6(db, q.tracking_number))
                ELSE IF "sender_id" \in DOMAIN q
                THEN IF q.sender_id = Junk THEN Error(400)
                     ELSE Returned(GetDeliveriesBySender6(db, q.sender_id, b), 400)
                ELSE IF Arg(q, "receiver_id") = Junk THEN Error(400)
                     ELSE Returned(GetDeliveriesByReceiver6(db, q.receiver_id, b), 400),
                SerializeDeliveryResponse6)
=============================================================================
