--------------------------- MODULE MCDeliveryCache ---------------------------
(* DeliveryCache for TLC: two deliveries of one sender to two receivers.   *)
EXTENDS DeliveryCache, TLC

CONSTANTS u1, u2, u3, d1, d2, t1, t2

MCUsers == {u1, u2, u3}
MCDeliveries == {d1, d2}
MCSender == [d \in MCDeliveries |-> u1]
MCReceiver == (d1 :> u2) @@ (d2 :> u3)
MCPages == {<<1, 10>>, <<1, 1>>, <<2, 2>>}

\* The first place of the sender's list, one receiver's whole list and a tracking
\* number.
MCAsked == {[kind |-> "sender", owner |-> u1, page |-> <<1, 1>>],
            [kind |-> "receiver", owner |-> u2, page |-> <<1, 10>>],
            [kind |-> "tracking", owner |-> d1, page |-> <<1, 1>>]}

MCTasks == {t1, t2}
=============================================================================
