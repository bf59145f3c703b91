---------------------------- MODULE MongoStorage ----------------------------
(***************************************************************************)
(* The storage of parcels and deliveries of the fourth generation: two     *)
(* MongoDB collections and no transactions.  Creating a delivery and       *)
(* ending one each change a document of one collection and then, by a call *)
(* of their own whose failure is only logged, the status of the parcel in  *)
(* the other.  Threads interleave between the calls, calls fail, or are    *)
(* executed and their answer lost, and the server may be restarted.        *)
(*                                                                         *)
(* Tracking numbers come from a counter of the process that is incremented *)
(* without synchronization and starts again at 1 with the process.         *)
(*                                                                         *)
(* The actions are the operations of the component.  Its readers change    *)
(* nothing and are left out, and so are the features of a parcel and the   *)
(* events of a delivery, which no operation looks at.  The later           *)
(* generations keep the operations but DeleteParcel.                       *)
(***************************************************************************)
EXTENDS Naturals, FiniteSets

CONSTANTS
  Parcels,     \* UUIDs of parcels
  Deliveries,  \* UUIDs of deliveries
  Suffixes,    \* random parts of tracking numbers
  Threads,     \* threads that call the component
  MaxCount,    \* bound: the last value of the counter a number is made of
  MaxLife,     \* bound: restarts of the server
  None         \* nothing

ASSUME BoundAssumption == MaxCount \in Nat \ {0} /\ MaxLife \in Nat

ASSUME NoneAssumption == None \notin Parcels \cup Deliveries

VARIABLES
  parcels,     \* parcels[p]: its status, or "unused", or "deleted"
  deliveries,  \* deliveries[d]: the document, or NoDelivery
  counter,     \* the static counter of GenerateTrackingNumber
  pc,          \* pc[t]: the call thread t makes next
  job,         \* job[t]: what t carries to that call
  life,        \* history: restarts so far
  lost,        \* history: an increment was lost since the last restart
  intent,      \* history: the status the last operation on a parcel means it to have
  muddled      \* history: parcels on which operations overlapped or broke off

vars == <<parcels, deliveries, counter, pc, job, life, lost, intent, muddled>>

-----------------------------------------------------------------------------
ParcelStatus == {"created", "assigned", "delivered"}
DeliveryStatus == {"pending", "in_transit", "delivered", "cancelled"}

Number(count, s) == [count |-> count, suffix |-> s]

\* A delivery as its document has it; born is history, the life of its number.
Delivery(p, n, s, l) == [parcel |-> p, number |-> n, status |-> s, born |-> l]
NoDelivery == Delivery(None, Number(0, None), "none", 0)

Job(p, d, s, c) == [parcel |-> p, delivery |-> d, status |-> s, count |-> c]
NoJob == Job(None, None, "none", 0)

Exists(p) == parcels[p] \in ParcelStatus
Stored(d) == deliveries[d] # NoDelivery

Init ==
  /\ parcels = [p \in Parcels |-> "unused"]
  /\ deliveries = [d \in Deliveries |-> NoDelivery]
  /\ counter = 1
  /\ pc = [t \in Threads |-> "idle"]
  /\ job = [t \in Threads |-> NoJob]
  /\ life = 0
  /\ lost = FALSE
  /\ intent = [p \in Parcels |-> "none"]
  /\ muddled = {}

\* Thread t has still to set the status of parcel p.
Owes(t, p) ==
  \/ pc[t] = "mark" /\ job[t].parcel = p
  \/ pc[t] = "fetch" /\ deliveries[job[t].delivery].parcel = p

\* An operation that means parcel p to have status s has made its first change.
Intend(p, s) ==
  /\ intent' = [intent EXCEPT ![p] = s]
  /\ muddled' = muddled \cup (IF \E t \in Threads : Owes(t, p) THEN {p} ELSE {})

\* The same, and its thread will not come to the parcel.
IntendAndBreak(p, s) ==
  /\ intent' = [intent EXCEPT ![p] = s]
  /\ muddled' = muddled \cup {p}

Goto(t, step, j) ==
  /\ pc' = [pc EXCEPT ![t] = step]
  /\ job' = [job EXCEPT ![t] = j]

Return(t) == Goto(t, "idle", NoJob)

-----------------------------------------------------------------------------
(* Parcels.                                                                *)

\* InsertOne of a document with a new UUID, answered or not.
CreateParcel(p) ==
  /\ parcels[p] = "unused"
  /\ parcels' = [parcels EXCEPT ![p] = "created"]
  /\ intent' = [intent EXCEPT ![p] = "created"]
  /\ UNCHANGED <<deliveries, counter, pc, job, life, lost, muddled>>

\* DeleteOne, which does not ask for deliveries.
DeleteParcel(p) ==
  /\ Exists(p)
  /\ parcels' = [parcels EXCEPT ![p] = "deleted"]
  /\ UNCHANGED <<deliveries, counter, pc, job, life, lost, intent, muddled>>

-----------------------------------------------------------------------------
(* CreateDelivery.                                                         *)

\* Threads on their way to the counter; they will not take it past MaxCount.
Counting == {u \in Threads : pc[u] \in {"count", "bump"}}

\* FindOne finds the parcel; or it is not there, which is answered 404, or the
\* call throws: 422.
FindParcel(t, p) ==
  /\ pc[t] = "idle"
  /\ \/ /\ Exists(p)
        /\ counter + Cardinality(Counting) <= MaxCount
        /\ Goto(t, "count", Job(p, None, "assigned", 0))
     \/ UNCHANGED <<pc, job>>
  /\ UNCHANGED <<parcels, deliveries, counter, life, lost, intent, muddled>>

\* counter++ is a read and a write: t has read the counter.
ReadCounter(t) ==
  /\ pc[t] = "count"
  /\ Goto(t, "bump", [job[t] EXCEPT !.count = counter])
  /\ UNCHANGED <<parcels, deliveries, counter, life, lost, intent, muddled>>

\* Mutant of WriteCounter: the counter is used and not incremented.
WriteCounterUnchanged(t) ==
  /\ pc[t] = "bump"
  /\ Goto(t, "insert", job[t])
  /\ UNCHANGED <<parcels, deliveries, counter, life, lost, intent, muddled>>

\* ... and writes it, and so undoes what others wrote in between.
WriteCounter(t) ==
  /\ pc[t] = "bump"
  /\ counter' = job[t].count + 1
  /\ lost' = (lost \/ counter # job[t].count)
  /\ Goto(t, "insert", job[t])
  /\ UNCHANGED <<parcels, deliveries, life, intent, muddled>>

\* The unique index on tracking_number.
Taken(n) == \E d \in Deliveries : Stored(d) /\ deliveries[d].number = n

\* Mutant of InsertDelivery: the parcel is left to somebody else.
InsertDeliveryAndStop(t, d, s) ==
  LET p == job[t].parcel
      n == Number(job[t].count, s)
  IN /\ pc[t] = "insert"
     /\ ~Stored(d)
     /\ ~Taken(n)
     /\ deliveries' = [deliveries EXCEPT ![d] = Delivery(p, n, "pending", life)]
     /\ Return(t) /\ Intend(p, "assigned")
     /\ UNCHANGED <<parcels, counter, life, lost>>

\* InsertOne with a random suffix.  If its answer is lost the request is
\* answered 422 and the parcel not touched.
InsertDelivery(t, d, s) ==
  LET p == job[t].parcel
      n == Number(job[t].count, s)
  IN /\ pc[t] = "insert"
     /\ ~Stored(d)
     /\ ~Taken(n)
     /\ deliveries' = [deliveries EXCEPT ![d] = Delivery(p, n, "pending", life)]
     /\ \/ Goto(t, "mark", Job(p, d, "assigned", 0)) /\ Intend(p, "assigned")
        \/ Return(t) /\ IntendAndBreak(p, "assigned")
     /\ UNCHANGED <<parcels, counter, life, lost>>

\* InsertOne fails, or the index refuses the number: 422 and nothing stored.
InsertFails(t) ==
  /\ pc[t] = "insert"
  /\ Return(t)
  /\ UNCHANGED <<parcels, deliveries, counter, life, lost, intent, muddled>>

-----------------------------------------------------------------------------
(* UpdateDeliveryStatus.  Any status may follow any other.                 *)

\* Mutant of ParcelStatusAfter: the parcel of a cancelled delivery is given the
\* status of the delivery.
ParcelStatusAfterSame(s) == s

ParcelStatusAfter(s) == IF s = "delivered" THEN "delivered" ELSE "created"

\* UpdateOne of a delivery on its way touches nothing else.
Proceed(t, d, s) ==
  /\ pc[t] = "idle"
  /\ Stored(d)
  /\ s \in {"pending", "in_transit"}
  /\ deliveries' = [deliveries EXCEPT ![d].status = s]
  /\ UNCHANGED <<parcels, counter, pc, job, life, lost, intent, muddled>>

\* UpdateOne of a delivery that ends; the parcel comes next, unless the answer
\* is lost.
EndDelivery(t, d, s) ==
  LET p == deliveries[d].parcel
      after == ParcelStatusAfter(s)
  IN /\ pc[t] = "idle"
     /\ Stored(d)
     /\ s \in {"delivered", "cancelled"}
     /\ deliveries' = [deliveries EXCEPT ![d].status = s]
     /\ \/ Goto(t, "fetch", Job(None, d, after, 0)) /\ Intend(p, after)
        \/ UNCHANGED <<pc, job>> /\ IntendAndBreak(p, after)
     /\ UNCHANGED <<parcels, counter, life, lost>>

\* GetDeliveryById, for the id of the parcel.
FetchDelivery(t) ==
  /\ pc[t] = "fetch"
  /\ Goto(t, "mark", [job[t] EXCEPT !.parcel = deliveries[job[t].delivery].parcel])
  /\ UNCHANGED <<parcels, deliveries, counter, life, lost, intent, muddled>>

\* It throws, and UpdateDeliveryStatus returns false.
FetchFails(t) ==
  /\ pc[t] = "fetch"
  /\ muddled' = muddled \cup {deliveries[job[t].delivery].parcel}
  /\ Return(t)
  /\ UNCHANGED <<parcels, deliveries, counter, life, lost, intent>>

-----------------------------------------------------------------------------
(* UpdateParcelStatus, the last call of both.                              *)

\* UpdateOne matches the parcel unless it was deleted.
MarkParcel(t) ==
  LET p == job[t].parcel
  IN /\ pc[t] = "mark"
     /\ parcels' = IF Exists(p) THEN [parcels EXCEPT ![p] = job[t].status] ELSE parcels
     /\ Return(t)
     /\ UNCHANGED <<deliveries, counter, life, lost, intent, muddled>>

\* It throws; the caller does not look at the result.
MarkFails(t) ==
  /\ pc[t] = "mark"
  /\ muddled' = muddled \cup {job[t].parcel}
  /\ Return(t)
  /\ UNCHANGED <<parcels, deliveries, counter, life, lost, intent>>

-----------------------------------------------------------------------------
\* The server dies and is started again; the collections stay.
Restart ==
  /\ life < MaxLife
  /\ life' = life + 1
  /\ lost' = FALSE
  /\ counter' = 1
  /\ pc' = [t \in Threads |-> "idle"]
  /\ job' = [t \in Threads |-> NoJob]
  /\ muddled' = muddled \cup {p \in Parcels : \E t \in Threads : Owes(t, p)}
  /\ UNCHANGED <<parcels, deliveries, intent>>

Step(t) ==
  \/ \E p \in Parcels : FindParcel(t, p)
  \/ ReadCounter(t)
  \/ WriteCounter(t)
  \/ \E d \in Deliveries, s \in Suffixes : InsertDelivery(t, d, s)
  \/ InsertFails(t)
  \/ \E d \in Deliveries, s \in DeliveryStatus : Proceed(t, d, s) \/ EndDelivery(t, d, s)
  \/ FetchDelivery(t)
  \/ FetchFails(t)
  \/ MarkParcel(t)
  \/ MarkFails(t)

Next ==
  \/ \E p \in Parcels : CreateParcel(p) \/ DeleteParcel(p)
  \/ \E t \in Threads : Step(t)
  \/ Restart

Spec == Init /\ [][Next]_vars

-----------------------------------------------------------------------------
(* Properties                                                              *)

Documents ==
  [parcel : Parcels, number : [count : Nat, suffix : Suffixes],
   status : DeliveryStatus, born : 0..MaxLife]

Jobs ==
  [parcel : Parcels \cup {None}, delivery : Deliveries \cup {None},
   status : ParcelStatus \cup {"none"}, count : Nat]

TypeOK ==
  /\ parcels \in [Parcels -> ParcelStatus \cup {"unused", "deleted"}]
  /\ deliveries \in [Deliveries -> Documents \cup {NoDelivery}]
  /\ counter \in Nat
  /\ pc \in [Threads -> {"idle", "count", "bump", "insert", "fetch", "mark"}]
  /\ job \in [Threads -> Jobs]
  /\ life \in 0..MaxLife
  /\ lost \in BOOLEAN
  /\ intent \in [Parcels -> ParcelStatus \cup {"none"}]
  /\ muddled \subseteq Parcels

\* A parcel has the status that the last operation on it means it to have, or
\* that operation is about to set it; the collections disagree for good only
\* after a call broke off or two operations on the parcel overlapped, and a
\* parcel that was left alone is never touched by those of others.
\* (CreateDelivery, UpdateDeliveryStatus)
AgreementExplained ==
  \A p \in Parcels \ muddled :
    Exists(p) => \/ parcels[p] = intent[p]
                 \/ \E t \in Threads : Owes(t, p) /\ job[t].status = intent[p]

\* The index refuses a number only if it was given out before a restart, or if
\* this process has lost an increment; otherwise a create with 422 has failed
\* for another reason.  (GenerateTrackingNumber, validation.js 191)
CollisionExplained ==
  \A t \in Threads, d \in Deliveries :
    pc[t] = "insert" /\ Stored(d) /\ deliveries[d].number.count = job[t].count
      => lost \/ deliveries[d].born # life

=============================================================================
