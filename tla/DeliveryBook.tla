----------------------------- MODULE DeliveryBook -----------------------------
(***************************************************************************)
(* What the service promises a client, whatever it stores its data in:     *)
(* logins are registered once, parcels are handed in by a registered user, *)
(* a delivery ships an existing parcel to a registered user, and shipping  *)
(* a parcel and marking it "assigned" are one step.  InMemoryStorage is    *)
(* shown to implement this.  The storages over databases make several      *)
(* steps of the last one and do not; their own modules say what becomes of *)
(* it when they are interleaved or break off.                              *)
(***************************************************************************)
CONSTANTS
  Logins,      \* logins of users
  Parcels,     \* ids of parcels
  Deliveries,  \* ids of deliveries
  None         \* no login, no parcel

VARIABLES
  accounts,  \* the logins registered
  owner,     \* owner[p]: the login that handed p in, or None
  book,      \* book[d]: the shipment d stands for, or NoShipment
  assigned   \* the parcels marked "assigned"

vars == <<accounts, owner, book, assigned>>

Shipment(p, l) == [parcel |-> p, receiver |-> l]
NoShipment == Shipment(None, None)

Init ==
  /\ accounts = {}
  /\ owner = [p \in Parcels |-> None]
  /\ book = [d \in Deliveries |-> NoShipment]
  /\ assigned = {}

Register(l) ==
  /\ l \notin accounts
  /\ accounts' = accounts \cup {l}
  /\ UNCHANGED <<owner, book, assigned>>

HandIn(p, l) ==
  /\ l \in accounts
  /\ owner[p] = None
  /\ owner' = [owner EXCEPT ![p] = l]
  /\ UNCHANGED <<accounts, book, assigned>>

Ship(d, p, l) ==
  /\ book[d] = NoShipment
  /\ owner[p] # None
  /\ l \in accounts
  /\ book' = [book EXCEPT ![d] = Shipment(p, l)]
  /\ assigned' = assigned \cup {p}
  /\ UNCHANGED <<accounts, owner>>

Next ==
  \/ \E l \in Logins : Register(l)
  \/ \E p \in Parcels, l \in Logins : HandIn(p, l)
  \/ \E d \in Deliveries, p \in Parcels, l \in Logins : Ship(d, p, l)

Spec == Init /\ [][Next]_vars

=============================================================================
