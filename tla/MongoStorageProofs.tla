------------------------- MODULE MongoStorageProofs -------------------------
(***************************************************************************)
(* Proofs about MongoStorage: typing, when a parcel may disagree with its  *)
(* deliveries, and when two tracking numbers may share their count.        *)
(***************************************************************************)
EXTENDS MongoStorage, TLAPS

\* What a thread carries to its next call.
JobFits(t) ==
  /\ pc[t] \in {"count", "bump", "insert", "mark"} =>
       job[t].parcel \in Parcels /\ parcels[job[t].parcel] # "unused"
  /\ pc[t] = "fetch" => job[t].delivery \in Deliveries /\ Stored(job[t].delivery)
  /\ pc[t] \in {"fetch", "mark"} => job[t].status \in ParcelStatus

JobInv == \A t \in Threads : JobFits(t)

\* A delivery ships a parcel that was there once; its number is of this life or
\* an earlier one.
DocInv ==
  \A d \in Deliveries : Stored(d) =>
    /\ deliveries[d].parcel \in Parcels
    /\ parcels[deliveries[d].parcel] # "unused"
    /\ deliveries[d].born <= life

\* On a parcel that is not muddled at most one thread is at work, and it will
\* set the status that is meant.
AgreeOn(p) ==
  /\ \A t, u \in Threads : Owes(t, p) /\ Owes(u, p) => t = u
  /\ \A t \in Threads : Owes(t, p) => job[t].status = intent[p]
  /\ Exists(p) => parcels[p] = intent[p] \/ \E t \in Threads : Owes(t, p)

AgreeInv == \A p \in Parcels \ muddled : AgreeOn(p)

\* While no increment is lost, the counts given out in this life are below the
\* counter, each to one thread or delivery.
CountInv ==
  \/ lost
  \/ /\ \A t \in Threads : pc[t] = "bump" => job[t].count <= counter
     /\ \A t \in Threads : pc[t] = "insert" => job[t].count < counter
     /\ \A t, u \in Threads :
          pc[t] = "insert" /\ pc[u] = "insert" /\ job[t].count = job[u].count => t = u
     /\ \A d \in Deliveries :
          Stored(d) /\ deliveries[d].born = life => deliveries[d].number.count < counter
     /\ \A t \in Threads, d \in Deliveries :
          pc[t] = "insert" /\ Stored(d) /\ deliveries[d].born = life
            => deliveries[d].number.count # job[t].count

IInv ==
  /\ TypeOK
  /\ JobInv
  /\ DocInv
  /\ AgreeInv
  /\ CountInv

USE BoundAssumption, NoneAssumption

LEMMA NoJobTypes == NoJob \in Jobs
  BY DEF NoJob, Job, Jobs

LEMMA InitIInv == Init => IInv
<1> SUFFICES ASSUME Init PROVE IInv
  OBVIOUS
<1>1. TypeOK
  <2>1. lost \in BOOLEAN
    BY DEF Init
  <2>2. counter \in Nat /\ life \in 0..MaxLife
    BY DEF Init
  <2> QED
    BY <2>1, <2>2, NoJobTypes DEF Init, TypeOK
<1>2. JobInv /\ DocInv
  BY DEF Init, JobInv, JobFits, DocInv, Stored
<1>3. AgreeInv
  BY DEF Init, AgreeInv, AgreeOn, Owes, Exists, ParcelStatus
<1>4. CountInv
  BY DEF Init, CountInv, Stored
<1> QED
  BY <1>1, <1>2, <1>3, <1>4 DEF IInv

LEMMA GotoChanges ==
  ASSUME TypeOK, NEW t \in Threads, NEW step, NEW j, Goto(t, step, j)
  PROVE  /\ pc'[t] = step /\ job'[t] = j
         /\ \A v \in Threads : v # t => pc'[v] = pc[v] /\ job'[v] = job[v]
  BY DEF TypeOK, Goto

LEMMA GotoTypes ==
  ASSUME TypeOK, NEW t \in Threads, NEW j \in Jobs,
         NEW step \in {"idle", "count", "bump", "insert", "fetch", "mark"}, Goto(t, step, j)
  PROVE  /\ pc' \in [Threads -> {"idle", "count", "bump", "insert", "fetch", "mark"}]
         /\ job' \in [Threads -> Jobs]
  BY DEF TypeOK, Goto

\* What a thread owes does not depend on the steps of others.
LEMMA OthersOwe ==
  ASSUME IInv, NEW v \in Threads, NEW p \in Parcels, pc'[v] = pc[v], job'[v] = job[v],
         \A d \in Deliveries : Stored(d) => deliveries'[d].parcel = deliveries[d].parcel
  PROVE  Owes(v, p)' <=> Owes(v, p)
  BY DEF IInv, JobInv, JobFits, Owes

\* A thread owes nothing to a parcel that was never there.
LEMMA UnusedUnowed ==
  ASSUME IInv, NEW v \in Threads, NEW p \in Parcels, parcels[p] = "unused"
  PROVE  ~Owes(v, p)
  BY DEF IInv, JobInv, JobFits, DocInv, Owes

-----------------------------------------------------------------------------
(* Parcels.                                                                *)

LEMMA CreateParcelIInv ==
  ASSUME IInv, NEW p \in Parcels, CreateParcel(p)
  PROVE  IInv'
<1>1. /\ parcels[p] = "unused"
      /\ parcels' = [parcels EXCEPT ![p] = "created"]
      /\ intent' = [intent EXCEPT ![p] = "created"]
      /\ UNCHANGED <<deliveries, counter, pc, job, life, lost, muddled>>
  BY DEF CreateParcel
<1>2. TypeOK'
  BY <1>1 DEF IInv, TypeOK, ParcelStatus
<1>3. JobInv' /\ DocInv'
  BY <1>1 DEF IInv, TypeOK, JobInv, JobFits, DocInv, Stored
<1>4. AgreeInv'
  <2> SUFFICES ASSUME NEW q \in Parcels \ muddled
               PROVE  AgreeOn(q)'
    BY <1>1 DEF AgreeInv
  <2>1. \A v \in Threads : Owes(v, q)' <=> Owes(v, q)
    BY <1>1 DEF Owes
  <2>2. AgreeOn(q)
    BY DEF IInv, AgreeInv
  <2>3. CASE q = p
    BY <1>1, <2>1, <2>3, UnusedUnowed DEF IInv, TypeOK, AgreeOn
  <2>4. CASE q # p
    BY <1>1, <2>1, <2>2, <2>4 DEF IInv, TypeOK, AgreeOn, Exists
  <2> QED BY <2>3, <2>4
<1>5. CountInv'
  BY <1>1 DEF IInv, CountInv, Stored
<1> QED
  BY <1>2, <1>3, <1>4, <1>5 DEF IInv

LEMMA DeleteParcelIInv ==
  ASSUME IInv, NEW p \in Parcels, DeleteParcel(p)
  PROVE  IInv'
<1>1. /\ parcels' = [parcels EXCEPT ![p] = "deleted"]
      /\ UNCHANGED <<deliveries, counter, pc, job, life, lost, intent, muddled>>
  BY DEF DeleteParcel
<1>2. TypeOK'
  BY <1>1 DEF IInv, TypeOK
<1>3. JobInv' /\ DocInv'
  BY <1>1 DEF IInv, TypeOK, JobInv, JobFits, DocInv, Stored
<1>4. AgreeInv'
  BY <1>1 DEF IInv, TypeOK, AgreeInv, AgreeOn, Owes, Exists, ParcelStatus
<1>5. CountInv'
  BY <1>1 DEF IInv, CountInv, Stored
<1> QED
  BY <1>2, <1>3, <1>4, <1>5 DEF IInv

-----------------------------------------------------------------------------
(* CreateDelivery.                                                         *)

\* Before its InsertOne a create touches no document and owes nothing.
LEMMA QuietKeepsAgreement ==
  ASSUME IInv, NEW t \in Threads, UNCHANGED <<parcels, deliveries, intent, muddled>>,
         pc[t] \notin {"mark", "fetch"}, pc'[t] \notin {"mark", "fetch"},
         \A v \in Threads : v # t => pc'[v] = pc[v] /\ job'[v] = job[v]
  PROVE  AgreeInv'
<1> SUFFICES ASSUME NEW q \in Parcels \ muddled
             PROVE  AgreeOn(q)'
  BY DEF AgreeInv
<1>1. \A v \in Threads : Owes(v, q)' <=> Owes(v, q)
  BY OthersOwe DEF Owes
<1>2. \A v \in Threads : Owes(v, q) => job'[v] = job[v]
  BY DEF Owes
<1> QED
  BY <1>1, <1>2 DEF IInv, AgreeInv, AgreeOn, Exists

LEMMA FindParcelIInv ==
  ASSUME IInv, NEW t \in Threads, NEW p \in Parcels, FindParcel(t, p)
  PROVE  IInv'
<1>1. /\ pc[t] = "idle"
      /\ UNCHANGED <<parcels, deliveries, counter, life, lost, intent, muddled>>
  BY DEF FindParcel
<1>2. CASE UNCHANGED <<pc, job>>
  BY <1>1, <1>2 DEF IInv, TypeOK, JobInv, JobFits, DocInv, AgreeInv, AgreeOn, Owes, Exists,
                    CountInv, Stored
<1>3. CASE Exists(p) /\ Goto(t, "count", Job(p, None, "assigned", 0))
  <2>1. Job(p, None, "assigned", 0) \in Jobs
    BY DEF Job, Jobs, ParcelStatus
  <2>2. /\ pc'[t] = "count" /\ job'[t].parcel = p
        /\ \A v \in Threads : v # t => pc'[v] = pc[v] /\ job'[v] = job[v]
    BY <1>3, GotoChanges DEF IInv, Job
  <2>3. TypeOK'
    BY <1>1, <1>3, <2>1, GotoTypes DEF IInv, TypeOK
  <2>4. JobInv' /\ DocInv'
    BY <1>1, <1>3, <2>2 DEF IInv, JobInv, JobFits, DocInv, Stored, Exists, ParcelStatus
  <2>5. AgreeInv'
    BY <1>1, <2>2, QuietKeepsAgreement
  <2>6. CountInv'
    BY <1>1, <2>2 DEF IInv, CountInv, Stored
  <2> QED
    BY <2>3, <2>4, <2>5, <2>6 DEF IInv
<1> QED
  BY <1>2, <1>3 DEF FindParcel

LEMMA ReadCounterIInv ==
  ASSUME IInv, NEW t \in Threads, ReadCounter(t)
  PROVE  IInv'
<1> DEFINE j == [job[t] EXCEPT !.count = counter]
<1>1. /\ pc[t] = "count" /\ Goto(t, "bump", j)
      /\ UNCHANGED <<parcels, deliveries, counter, life, lost, intent, muddled>>
  BY DEF ReadCounter
<1>2. j \in Jobs /\ j.parcel = job[t].parcel /\ j.count = counter /\ counter \in Nat
  BY DEF IInv, TypeOK, Jobs
<1> HIDE DEF j
<1>3. /\ pc'[t] = "bump" /\ job'[t] = j
      /\ \A v \in Threads : v # t => pc'[v] = pc[v] /\ job'[v] = job[v]
  BY <1>1, GotoChanges DEF IInv
<1>4. TypeOK'
  BY <1>1, <1>2, GotoTypes DEF IInv, TypeOK
<1>5. JobInv' /\ DocInv'
  BY <1>1, <1>2, <1>3 DEF IInv, JobInv, JobFits, DocInv, Stored
<1>6. AgreeInv'
  BY <1>1, <1>3, QuietKeepsAgreement
<1>7. CountInv'
  BY <1>1, <1>2, <1>3 DEF IInv, CountInv, Stored
<1> QED
  BY <1>4, <1>5, <1>6, <1>7 DEF IInv

LEMMA WriteCounterIInv ==
  ASSUME IInv, NEW t \in Threads, WriteCounter(t)
  PROVE  IInv'
<1>1. /\ pc[t] = "bump" /\ Goto(t, "insert", job[t])
      /\ counter' = job[t].count + 1
      /\ lost' = (lost \/ counter # job[t].count)
      /\ UNCHANGED <<parcels, deliveries, life, intent, muddled>>
  BY DEF WriteCounter
<1>2. job[t] \in Jobs /\ job[t].count \in Nat
  BY DEF IInv, TypeOK, Jobs
<1>3. /\ pc'[t] = "insert" /\ job'[t] = job[t]
      /\ \A v \in Threads : v # t => pc'[v] = pc[v] /\ job'[v] = job[v]
  BY <1>1, GotoChanges DEF IInv
<1>4. TypeOK'
  BY <1>1, <1>2, GotoTypes DEF IInv, TypeOK
<1>5. JobInv' /\ DocInv'
  BY <1>1, <1>3 DEF IInv, JobInv, JobFits, DocInv, Stored
<1>6. AgreeInv'
  BY <1>1, <1>3, QuietKeepsAgreement
<1>7. CountInv'
  <2> SUFFICES ASSUME ~lost, counter = job[t].count
               PROVE  CountInv'
    BY <1>1 DEF CountInv
  <2>1. counter' = counter + 1 /\ counter \in Nat
    BY <1>1 DEF IInv, TypeOK
  <2>2. \A v \in Threads : job'[v] = job[v] /\ job[v].count \in Nat
    BY <1>3 DEF IInv, TypeOK, Jobs
  <2>3. \A d \in Deliveries : Stored(d) => deliveries[d].number.count \in Nat
    BY DEF IInv, TypeOK, Stored, Documents
  <2> QED
    BY <1>1, <1>3, <2>1, <2>2, <2>3 DEF IInv, CountInv, Stored
<1> QED
  BY <1>4, <1>5, <1>6, <1>7 DEF IInv

\* A thread that gives up, or never began, leaves its debt to the muddled ones.
LEMMA GiveUpIInv ==
  ASSUME IInv, NEW t \in Threads, Return(t), UNCHANGED <<parcels, deliveries, counter, life, lost, intent>>,
         muddled' \subseteq Parcels, muddled \subseteq muddled',
         \A p \in Parcels : Owes(t, p) => p \in muddled'
  PROVE  IInv'
<1>1. /\ pc'[t] = "idle" /\ job'[t] = NoJob
      /\ \A v \in Threads : v # t => pc'[v] = pc[v] /\ job'[v] = job[v]
  BY GotoChanges DEF IInv, Return
<1>2. TypeOK'
  BY NoJobTypes, GotoTypes DEF IInv, TypeOK, Return
<1>3. JobInv' /\ DocInv'
  BY <1>1 DEF IInv, JobInv, JobFits, DocInv, Stored
<1>4. AgreeInv'
  <2> SUFFICES ASSUME NEW q \in Parcels, q \notin muddled'
               PROVE  AgreeOn(q)'
    BY DEF AgreeInv
  <2>1. ~Owes(t, q) /\ ~Owes(t, q)' /\ q \notin muddled
    BY <1>1 DEF Owes
  <2>2. \A v \in Threads : Owes(v, q)' <=> Owes(v, q)
    BY <1>1, <2>1, OthersOwe
  <2>3. \A v \in Threads : Owes(v, q) => job'[v] = job[v]
    BY <1>1, <2>1
  <2> QED
    BY <2>1, <2>2, <2>3 DEF IInv, AgreeInv, AgreeOn, Exists
<1>5. CountInv'
  BY <1>1 DEF IInv, CountInv, Stored
<1> QED
  BY <1>2, <1>3, <1>4, <1>5 DEF IInv

\* An operation that means parcel p to have status s muddles p or is the only
\* one at work on it; other parcels do not notice.
LEMMA IntendKeepsAgreement ==
  ASSUME IInv, NEW t \in Threads, NEW p \in Parcels, NEW s \in ParcelStatus,
         UNCHANGED parcels,
         \A d \in Deliveries : Stored(d) => deliveries'[d].parcel = deliveries[d].parcel,
         pc[t] \notin {"mark", "fetch"},
         \A v \in Threads : v # t => pc'[v] = pc[v] /\ job'[v] = job[v],
         \A q \in Parcels : q # p => ~Owes(t, q)',
         \/ Intend(p, s) /\ Owes(t, p)' /\ job'[t].status = s
         \/ IntendAndBreak(p, s)
  PROVE  AgreeInv'
<1>1. intent' = [intent EXCEPT ![p] = s] /\ muddled \subseteq muddled'
  BY DEF Intend, IntendAndBreak
<1>2. SUFFICES ASSUME NEW q \in Parcels, q \notin muddled'
               PROVE  AgreeOn(q)'
  BY DEF AgreeInv
<1>3. AgreeOn(q)
  BY <1>1, <1>2 DEF IInv, AgreeInv
<1>4. ~Owes(t, q) /\ \A v \in Threads : v # t => (Owes(v, q)' <=> Owes(v, q))
  BY OthersOwe DEF Owes
<1>5. CASE q = p
  <2>1. /\ \A v \in Threads : ~Owes(v, p)
        /\ Owes(t, p)' /\ job'[t].status = s
    BY <1>2, <1>5 DEF Intend, IntendAndBreak
  <2>2. intent'[p] = s
    BY <1>1 DEF IInv, TypeOK
  <2> QED
    BY <1>4, <1>5, <2>1, <2>2 DEF AgreeOn
<1>6. CASE q # p
  <2>1. intent'[q] = intent[q]
    BY <1>1, <1>6 DEF IInv, TypeOK
  <2>2. \A v \in Threads : (Owes(v, q)' <=> Owes(v, q)) /\ (Owes(v, q) => job'[v] = job[v])
    BY <1>4, <1>6
  <2> QED
    BY <1>3, <2>1, <2>2 DEF AgreeOn, Exists
<1> QED
  BY <1>5, <1>6

LEMMA InsertDeliveryIInv ==
  ASSUME IInv, NEW t \in Threads, NEW d \in Deliveries, NEW s \in Suffixes,
         InsertDelivery(t, d, s)
  PROVE  IInv'
<1> DEFINE count == job[t].count
           new == Delivery(job[t].parcel, Number(count, s), "pending", life)
<1>1. PICK p \in Parcels : p = job[t].parcel /\ parcels[p] # "unused"
  BY DEF IInv, JobInv, JobFits, InsertDelivery
<1>2. /\ pc[t] = "insert"
      /\ ~Stored(d)
      /\ deliveries' = [deliveries EXCEPT ![d] = new]
      /\ \/ Goto(t, "mark", Job(p, d, "assigned", 0)) /\ Intend(p, "assigned")
         \/ Return(t) /\ IntendAndBreak(p, "assigned")
      /\ UNCHANGED <<parcels, counter, life, lost>>
  BY <1>1 DEF InsertDelivery
<1>3. count \in Nat /\ life \in 0..MaxLife
  BY DEF IInv, TypeOK, Jobs
<1>4. /\ new \in Documents
      /\ new.parcel = p
      /\ new.number.count = count
      /\ new.born = life
  BY <1>1, <1>3 DEF Documents, Delivery, Number, DeliveryStatus
<1>5. new # NoDelivery
  <2>1. NoDelivery.parcel = None
    BY DEF NoDelivery, Delivery
  <2> QED BY <1>4, <2>1
<1> HIDE DEF new, count
<1>6. /\ deliveries'[d] = new /\ Stored(d)'
      /\ \A e \in Deliveries : e # d => deliveries'[e] = deliveries[e] /\ (Stored(e)' <=> Stored(e))
  BY <1>2, <1>5 DEF IInv, TypeOK, Stored
<1>7. /\ Job(p, d, "assigned", 0) \in Jobs
      /\ Job(p, d, "assigned", 0).parcel = p
      /\ Job(p, d, "assigned", 0).status = "assigned"
      /\ "assigned" \in ParcelStatus
  BY DEF Jobs, Job, ParcelStatus
<1>8. /\ \A v \in Threads : v # t => pc'[v] = pc[v] /\ job'[v] = job[v]
      /\ \/ pc'[t] = "mark" /\ job'[t] = Job(p, d, "assigned", 0) /\ Intend(p, "assigned")
         \/ pc'[t] = "idle" /\ IntendAndBreak(p, "assigned")
  BY <1>2, GotoChanges DEF IInv, Return
<1>9. TypeOK'
  <2>1. /\ pc' \in [Threads -> {"idle", "count", "bump", "insert", "fetch", "mark"}]
        /\ job' \in [Threads -> Jobs]
    BY <1>2, <1>7, NoJobTypes, GotoTypes DEF IInv, Return
  <2>2. (deliveries \in [Deliveries -> Documents \cup {NoDelivery}])'
    BY <1>2, <1>4 DEF IInv, TypeOK
  <2>3. intent' \in [Parcels -> ParcelStatus \cup {"none"}] /\ muddled' \subseteq Parcels
    BY <1>7, <1>8 DEF IInv, TypeOK, Intend, IntendAndBreak
  <2> QED
    BY <1>2, <2>1, <2>2, <2>3 DEF IInv, TypeOK
<1>10. JobInv'
  BY <1>1, <1>2, <1>6, <1>7, <1>8 DEF IInv, JobInv, JobFits
<1>11. DocInv'
  BY <1>1, <1>2, <1>3, <1>4, <1>6 DEF IInv, DocInv
<1>12. AgreeInv'
  <2>1. \A e \in Deliveries : Stored(e) => deliveries'[e].parcel = deliveries[e].parcel
    BY <1>2, <1>6
  <2>2. \A q \in Parcels : q # p => ~Owes(t, q)'
    BY <1>7, <1>8 DEF Owes
  <2>3. \/ Intend(p, "assigned") /\ Owes(t, p)' /\ job'[t].status = "assigned"
        \/ IntendAndBreak(p, "assigned")
    BY <1>7, <1>8 DEF Owes
  <2> QED
    BY <1>2, <1>7, <1>8, <2>1, <2>2, <2>3, IntendKeepsAgreement
<1>13. CountInv'
  BY <1>2, <1>4, <1>6, <1>8 DEF IInv, CountInv, count
<1> QED
  BY <1>9, <1>10, <1>11, <1>12, <1>13 DEF IInv

-----------------------------------------------------------------------------
(* UpdateDeliveryStatus and UpdateParcelStatus.                            *)

\* A new status leaves everything else of the document as it was.
LEMMA NewStatus ==
  ASSUME IInv, NEW d \in Deliveries, NEW s \in DeliveryStatus, Stored(d),
         deliveries' = [deliveries EXCEPT ![d].status = s]
  PROVE  /\ deliveries' \in [Deliveries -> Documents \cup {NoDelivery}]
         /\ \A e \in Deliveries : Stored(e) =>
              /\ deliveries'[e].parcel = deliveries[e].parcel
              /\ deliveries'[e].number = deliveries[e].number
              /\ deliveries'[e].born = deliveries[e].born
         /\ \A e \in Deliveries : Stored(e)' <=> Stored(e)
<1> DEFINE new == [deliveries[d] EXCEPT !.status = s]
<1>1. deliveries[d] \in Documents
  BY DEF IInv, TypeOK, Stored
<1>2. /\ new \in Documents
      /\ new.parcel = deliveries[d].parcel
      /\ new.number = deliveries[d].number
      /\ new.born = deliveries[d].born
  BY <1>1 DEF Documents
<1>3. new # NoDelivery
  <2>1. new.parcel \in Parcels /\ NoDelivery.parcel = None
    BY <1>2 DEF Documents, NoDelivery, Delivery
  <2> QED BY <2>1
<1>4. deliveries' = [deliveries EXCEPT ![d] = new]
  OBVIOUS
<1> HIDE DEF new
<1> QED
  BY <1>2, <1>3, <1>4 DEF IInv, TypeOK, Stored

LEMMA ProceedIInv ==
  ASSUME IInv, NEW t \in Threads, NEW d \in Deliveries, NEW s \in DeliveryStatus,
         Proceed(t, d, s)
  PROVE  IInv'
<1>1. /\ Stored(d) /\ deliveries' = [deliveries EXCEPT ![d].status = s]
      /\ UNCHANGED <<parcels, counter, pc, job, life, lost, intent, muddled>>
  BY DEF Proceed
<1>2. /\ deliveries' \in [Deliveries -> Documents \cup {NoDelivery}]
      /\ \A e \in Deliveries : Stored(e) =>
           /\ deliveries'[e].parcel = deliveries[e].parcel
           /\ deliveries'[e].number = deliveries[e].number
           /\ deliveries'[e].born = deliveries[e].born
      /\ \A e \in Deliveries : Stored(e)' <=> Stored(e)
  BY <1>1, NewStatus
<1>3. TypeOK'
  BY <1>1, <1>2 DEF IInv, TypeOK
<1>4. JobInv' /\ DocInv'
  BY <1>1, <1>2 DEF IInv, JobInv, JobFits, DocInv
<1>5. AgreeInv'
  <2>1. \A v \in Threads, q \in Parcels : Owes(v, q)' <=> Owes(v, q)
    BY <1>1, <1>2, OthersOwe
  <2> QED
    BY <1>1, <2>1 DEF IInv, AgreeInv, AgreeOn, Exists
<1>6. CountInv'
  BY <1>1, <1>2 DEF IInv, CountInv
<1> QED
  BY <1>3, <1>4, <1>5, <1>6 DEF IInv

LEMMA EndDeliveryIInv ==
  ASSUME IInv, NEW t \in Threads, NEW d \in Deliveries, NEW s \in DeliveryStatus,
         EndDelivery(t, d, s)
  PROVE  IInv'
<1>1. PICK after \in ParcelStatus : after = ParcelStatusAfter(s)
  BY DEF ParcelStatusAfter, ParcelStatus
<1>2. PICK p \in Parcels : p = deliveries[d].parcel
  BY DEF EndDelivery, IInv, DocInv
<1>3. /\ pc[t] = "idle" /\ Stored(d)
      /\ deliveries' = [deliveries EXCEPT ![d].status = s]
      /\ \/ Goto(t, "fetch", Job(None, d, after, 0)) /\ Intend(p, after)
         \/ UNCHANGED <<pc, job>> /\ IntendAndBreak(p, after)
      /\ UNCHANGED <<parcels, counter, life, lost>>
  BY <1>1, <1>2 DEF EndDelivery
<1>4. /\ deliveries' \in [Deliveries -> Documents \cup {NoDelivery}]
      /\ \A e \in Deliveries : Stored(e) =>
           /\ deliveries'[e].parcel = deliveries[e].parcel
           /\ deliveries'[e].number = deliveries[e].number
           /\ deliveries'[e].born = deliveries[e].born
      /\ \A e \in Deliveries : Stored(e)' <=> Stored(e)
  BY <1>3, NewStatus
<1>5. /\ Job(None, d, after, 0) \in Jobs
      /\ Job(None, d, after, 0).delivery = d
      /\ Job(None, d, after, 0).status = after
  BY DEF Jobs, Job
<1>6. /\ \A v \in Threads : v # t => pc'[v] = pc[v] /\ job'[v] = job[v]
      /\ \/ pc'[t] = "fetch" /\ job'[t] = Job(None, d, after, 0) /\ Intend(p, after)
         \/ pc'[t] = "idle" /\ IntendAndBreak(p, after)
  BY <1>3, GotoChanges DEF IInv
<1>7. TypeOK'
  <2>1. /\ pc' \in [Threads -> {"idle", "count", "bump", "insert", "fetch", "mark"}]
        /\ job' \in [Threads -> Jobs]
    BY <1>3, <1>5, GotoTypes DEF IInv, TypeOK
  <2>2. intent' \in [Parcels -> ParcelStatus \cup {"none"}] /\ muddled' \subseteq Parcels
    BY <1>6 DEF IInv, TypeOK, Intend, IntendAndBreak
  <2> QED
    BY <1>3, <1>4, <2>1, <2>2 DEF IInv, TypeOK
<1>8. JobInv' /\ DocInv'
  BY <1>3, <1>4, <1>5, <1>6 DEF IInv, JobInv, JobFits, DocInv
<1>9. AgreeInv'
  <2>1. deliveries'[d].parcel = p
    BY <1>2, <1>3, <1>4
  <2>2. \A q \in Parcels : q # p => ~Owes(t, q)'
    BY <1>5, <1>6, <2>1 DEF Owes
  <2>3. \/ Intend(p, after) /\ Owes(t, p)' /\ job'[t].status = after
        \/ IntendAndBreak(p, after)
    BY <1>5, <1>6, <2>1 DEF Owes
  <2> QED
    BY <1>3, <1>4, <1>6, <2>2, <2>3, IntendKeepsAgreement
<1>10. CountInv'
  BY <1>3, <1>4, <1>6 DEF IInv, CountInv
<1> QED
  BY <1>7, <1>8, <1>9, <1>10 DEF IInv

LEMMA FetchDeliveryIInv ==
  ASSUME IInv, NEW t \in Threads, FetchDelivery(t)
  PROVE  IInv'
<1>1. PICK p \in Parcels : p = deliveries[job[t].delivery].parcel /\ parcels[p] # "unused"
  BY DEF FetchDelivery, IInv, JobInv, JobFits, DocInv
<1> DEFINE j == [job[t] EXCEPT !.parcel = p]
<1>2. /\ pc[t] = "fetch" /\ Goto(t, "mark", j)
      /\ UNCHANGED <<parcels, deliveries, counter, life, lost, intent, muddled>>
  BY <1>1 DEF FetchDelivery
<1>3. j \in Jobs /\ j.parcel = p /\ j.status = job[t].status
  BY DEF IInv, TypeOK, Jobs
<1> HIDE DEF j
<1>4. /\ pc'[t] = "mark" /\ job'[t] = j
      /\ \A v \in Threads : v # t => pc'[v] = pc[v] /\ job'[v] = job[v]
  BY <1>2, GotoChanges DEF IInv
<1>5. TypeOK'
  BY <1>2, <1>3, GotoTypes DEF IInv, TypeOK
<1>6. JobInv' /\ DocInv'
  BY <1>1, <1>2, <1>3, <1>4 DEF IInv, JobInv, JobFits, DocInv, Stored
<1>7. AgreeInv'
  <2>1. \A q \in Parcels : Owes(t, q)' <=> Owes(t, q)
    BY <1>1, <1>2, <1>3, <1>4 DEF Owes
  <2>2. \A v \in Threads, q \in Parcels : Owes(v, q)' <=> Owes(v, q)
    BY <1>2, <1>4, <2>1, OthersOwe
  <2>3. \A v \in Threads : job'[v].status = job[v].status
    BY <1>3, <1>4
  <2> QED
    BY <1>2, <2>2, <2>3 DEF IInv, AgreeInv, AgreeOn, Exists
<1>8. CountInv'
  BY <1>2, <1>4 DEF IInv, CountInv, Stored
<1> QED
  BY <1>5, <1>6, <1>7, <1>8 DEF IInv

LEMMA MarkParcelIInv ==
  ASSUME IInv, NEW t \in Threads, MarkParcel(t)
  PROVE  IInv'
<1>1. PICK p \in Parcels : p = job[t].parcel /\ job[t].status \in ParcelStatus
  BY DEF MarkParcel, IInv, JobInv, JobFits
<1>2. PICK s \in ParcelStatus : s = job[t].status
  BY <1>1
<1>3. /\ pc[t] = "mark" /\ Return(t)
      /\ parcels' = IF Exists(p) THEN [parcels EXCEPT ![p] = s] ELSE parcels
      /\ UNCHANGED <<deliveries, counter, life, lost, intent, muddled>>
  BY <1>1, <1>2 DEF MarkParcel
<1>4. /\ pc'[t] = "idle" /\ job'[t] = NoJob
      /\ \A v \in Threads : v # t => pc'[v] = pc[v] /\ job'[v] = job[v]
  BY <1>3, GotoChanges DEF IInv, Return
<1>5. /\ \A q \in Parcels : q # p => parcels'[q] = parcels[q]
      /\ Exists(p) => parcels'[p] = s
      /\ ~Exists(p) => parcels'[p] = parcels[p]
      /\ \A q \in Parcels : parcels[q] # "unused" => parcels'[q] # "unused"
  BY <1>3 DEF IInv, TypeOK, ParcelStatus
<1>6. TypeOK'
  BY <1>3, NoJobTypes, GotoTypes DEF IInv, TypeOK, Return
<1>7. JobInv' /\ DocInv'
  BY <1>3, <1>4, <1>5 DEF IInv, JobInv, JobFits, DocInv, Stored
<1>8. AgreeInv'
  <2> SUFFICES ASSUME NEW q \in Parcels \ muddled
               PROVE  AgreeOn(q)'
    BY <1>3 DEF AgreeInv
  <2>1. AgreeOn(q)
    BY DEF IInv, AgreeInv
  <2>2. /\ ~Owes(t, q)'
        /\ \A v \in Threads : v # t => (Owes(v, q)' <=> Owes(v, q)) /\ job'[v] = job[v]
    BY <1>3, <1>4, OthersOwe DEF Owes
  <2>3. CASE q = p
    BY <1>1, <1>2, <1>3, <1>5, <2>1, <2>2, <2>3 DEF AgreeOn, Exists, Owes
  <2>4. CASE q # p
    <3>1. ~Owes(t, q)
      BY <1>1, <1>3, <2>4 DEF Owes
    <3> QED
      BY <1>3, <1>5, <2>1, <2>2, <2>4, <3>1 DEF AgreeOn, Exists
  <2> QED BY <2>3, <2>4
<1>9. CountInv'
  BY <1>3, <1>4 DEF IInv, CountInv, Stored
<1> QED
  BY <1>6, <1>7, <1>8, <1>9 DEF IInv

-----------------------------------------------------------------------------
LEMMA RestartIInv ==
  ASSUME IInv, Restart
  PROVE  IInv'
<1>1. /\ \A t \in Threads : pc'[t] = "idle" /\ job'[t] = NoJob
      /\ life' = life + 1 /\ life < MaxLife
      /\ muddled' = muddled \cup {p \in Parcels : \E t \in Threads : Owes(t, p)}
      /\ UNCHANGED <<parcels, deliveries, intent>>
  BY DEF Restart
<1>2. TypeOK'
  <2>1. lost' \in BOOLEAN
    BY DEF Restart
  <2>2. counter' \in Nat /\ life' \in 0..MaxLife
    BY DEF Restart, IInv, TypeOK
  <2> QED
    BY <2>1, <2>2, NoJobTypes DEF Restart, IInv, TypeOK
<1>3. JobInv'
  BY <1>1 DEF JobInv, JobFits
<1>4. /\ DocInv'
      /\ \A d \in Deliveries : Stored(d) => deliveries[d].born # life'
  <2>1. life \in Nat /\ \A d \in Deliveries : Stored(d) => deliveries[d].born \in Nat
    BY DEF IInv, TypeOK, Stored, Documents
  <2> QED
    BY <1>1, <2>1 DEF IInv, DocInv, Stored
<1>5. AgreeInv'
  <2> SUFFICES ASSUME NEW q \in Parcels, q \notin muddled'
               PROVE  AgreeOn(q)'
    BY DEF AgreeInv
  <2>1. \A t \in Threads : ~Owes(t, q) /\ ~Owes(t, q)'
    BY <1>1 DEF Owes
  <2> QED
    BY <1>1, <2>1 DEF IInv, AgreeInv, AgreeOn, Exists
<1>6. CountInv'
  BY <1>1, <1>4 DEF CountInv, Stored
<1> QED
  BY <1>2, <1>3, <1>4, <1>5, <1>6 DEF IInv

LEMMA NextIInv == IInv /\ [Next]_vars => IInv'
<1> SUFFICES ASSUME IInv, [Next]_vars PROVE IInv'
  OBVIOUS
<1>1. CASE UNCHANGED vars
  BY <1>1 DEF vars, IInv, TypeOK, JobInv, JobFits, DocInv, AgreeInv, AgreeOn, Owes, Exists,
              CountInv, Stored
<1>2. ASSUME NEW t \in Threads, InsertFails(t)
      PROVE  IInv'
  <2>1. \A p \in Parcels : ~Owes(t, p)
    BY <1>2 DEF InsertFails, Owes
  <2> QED
    BY <1>2, <2>1, GiveUpIInv DEF InsertFails, IInv, TypeOK
<1>3. ASSUME NEW t \in Threads, FetchFails(t)
      PROVE  IInv'
  <2>1. deliveries[job[t].delivery].parcel \in Parcels
    BY <1>3 DEF FetchFails, IInv, JobInv, JobFits, DocInv
  <2>2. \A p \in Parcels : Owes(t, p) => p = deliveries[job[t].delivery].parcel
    BY <1>3 DEF FetchFails, Owes
  <2> QED
    BY <1>3, <2>1, <2>2, GiveUpIInv DEF FetchFails, IInv, TypeOK
<1>4. ASSUME NEW t \in Threads, MarkFails(t)
      PROVE  IInv'
  <2>1. job[t].parcel \in Parcels
    BY <1>4 DEF MarkFails, IInv, JobInv, JobFits
  <2>2. \A p \in Parcels : Owes(t, p) => p = job[t].parcel
    BY <1>4 DEF MarkFails, Owes
  <2> QED
    BY <1>4, <2>1, <2>2, GiveUpIInv DEF MarkFails, IInv, TypeOK
<1>5. ASSUME NEW t \in Threads, Step(t)
      PROVE  IInv'
  BY <1>2, <1>3, <1>4, <1>5, FindParcelIInv, ReadCounterIInv, WriteCounterIInv,
     InsertDeliveryIInv, ProceedIInv, EndDeliveryIInv, FetchDeliveryIInv, MarkParcelIInv
     DEF Step
<1> QED
  BY <1>1, <1>5, CreateParcelIInv, DeleteParcelIInv, RestartIInv DEF Next

LEMMA Invariance == Spec => []IInv
  BY InitIInv, NextIInv, PTL DEF Spec

LEMMA IInvAgreement == IInv => AgreementExplained
  BY DEF IInv, AgreeInv, AgreeOn, AgreementExplained

LEMMA IInvCollision == IInv => CollisionExplained
  BY DEF IInv, CountInv, CollisionExplained

\* Every reachable state is well typed; in particular a thread that has ended a
\* delivery gives the parcel a status a parcel can have.
\* (mongo_storage_component.cpp 47-319)
THEOREM TypeCorrect == Spec => []TypeOK
  BY Invariance, PTL DEF IInv

\* For any number of parcels, deliveries and threads, a parcel disagrees with
\* what was last done to it only because calls broke off or overlapped.
\* (mongo_storage_component.cpp 180-206, 280-319)
THEOREM AgreementSafety == Spec => []AgreementExplained
  BY Invariance, IInvAgreement, PTL

\* For any number of threads, two numbers of one life share their count only if
\* an increment was lost.  (mongo_storage_component.cpp 47-62)
THEOREM CollisionSafety == Spec => []CollisionExplained
  BY Invariance, IInvCollision, PTL
=============================================================================
