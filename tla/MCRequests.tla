----------------------------- MODULE MCRequests -----------------------------
(* Requests for TLC.  A name is letters and a blank.                        *)
EXTENDS Requests

CONSTANTS ann, anna, al, bo, secret, hidden, mail1, mail2, a, n, fragile, express

TheLogins == {ann, anna, al, bo}

\* al has the e-mail of ann.
TheUserBody ==
  [l \in TheLogins |->
     [login |-> l,
      password |-> IF l = anna THEN hidden ELSE secret,
      name |-> IF l = anna THEN <<n, a>> ELSE <<a, n>>,
      email |-> IF l = anna THEN mail2 ELSE mail1]]

TheLetters == {a, n}
TheFeatures == {fragile, express}
TheNamePrefixes == {<<>>, <<a>>, <<n>>}

Parcel == [sender_id |-> 1, size |-> "fits"]

TheParcelBodies ==
  { Parcel,
    Parcel @@ [description |-> Empty, features |-> <<fragile>>],
    [Parcel EXCEPT !.size = "unfit"] @@ [description |-> "lead", features |-> <<fragile>>],
    [sender_id |-> 0, size |-> "fits", description |-> "none's", features |-> <<fragile>>],
    [sender_id |-> 2, size |-> "fits", description |-> Null],
    [sender_id |-> 1] }

Near == [city |-> "Moscow", long |-> TRUE]
Far == [city |-> "Omsk", long |-> TRUE]
Short == [city |-> "Ufa", long |-> FALSE]

Delivery == [parcel_id |-> 1, sender_id |-> 2, receiver_id |-> 1]

TheDeliveryBodies ==
  { Delivery @@ [from_address |-> Near, to_address |-> Far],
    Delivery @@ [from_address |-> Near, to_address |-> Short, scheduled_pickup_time |-> "noon"],
    [Delivery EXCEPT !.parcel_id = 2] @@ [from_address |-> Near] }
=============================================================================
