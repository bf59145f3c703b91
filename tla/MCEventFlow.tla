----------------------------- MODULE MCEventFlow -----------------------------
(* EventFlow for TLC: two users, two parcels of a sender, two deliveries.   *)
EXTENDS EventFlow

CONSTANTS p1, p2, d1, d2, track1, track2, ann, bob, a, b

TheUsers == {1, 2}
TheLetters == {a, b}
TheLogins == {ann, bob}
TheParcels == {p1, p2}
TheDeliveries == {d1, d2}
TheTrackings == {track1, track2}

TheUserOf == [u \in TheUsers |-> [login |-> IF u = 1 THEN ann ELSE bob, name |-> <<a, b>>]]
TheSenderOf == [p \in TheParcels |-> ann]
TheDeliveryOf ==
  [d \in TheDeliveries |->
     [sender_id |-> ann, receiver_id |-> bob,
      tracking_number |-> IF d = d1 THEN track1 ELSE track2]]
=============================================================================
