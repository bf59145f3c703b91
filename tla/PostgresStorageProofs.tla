------------------------ MODULE PostgresStorageProofs ------------------------
(***************************************************************************)
(* Proofs about PostgresStorage: typing, what half a delivery comes from,  *)
(* that tracking numbers never collide, and that turning pages misses no   *)
(* row.  The invariant adds what a thread knows of the row it is           *)
(* completing: the row is there, of the parcel of its job, and nobody      *)
(* else's; and how many rows are newer than one a reader has yet to see.   *)
(***************************************************************************)
EXTENDS PostgresStorage, FiniteSetTheorems, TLAPS

\* A thread past its INSERT works on a row that is there; before it, on none.
JobFits(t) ==
  /\ pc[t] = "idle" => job[t] = NoJob
  /\ pc[t] = "insert" =>
       /\ job[t].id = None
       /\ job[t].parcel \in Parcels
       /\ job[t].sender \in Users
       /\ job[t].receiver \in Users
       /\ job[t].suffix \in Suffixes
  /\ pc[t] \in {"number", "assign", "read"} =>
       /\ job[t].id \in Deliveries
       /\ HasRow(job[t].id)
       /\ rows[job[t].id].parcel = job[t].parcel
  /\ pc[t] \in {"assign", "read"} => rows[job[t].id].number.id # None
  /\ pc[t] = "read" => parcels[job[t].parcel].status = "assigned"

JobInv == \A t \in Threads : JobFits(t)

\* No row is completed by two threads.
JobsDisjoint ==
  \A t, u \in Threads : job[t].id # None /\ job[t].id = job[u].id => t = u

\* A row ships a parcel that is there, and a final number has the row's own id.
RowInv ==
  \A d \in Deliveries : HasRow(d) =>
    /\ rows[d].parcel \in Parcels
    /\ HasParcel(rows[d].parcel)
    /\ rows[d].number.id \in {None, d}

IInv ==
  /\ TypeOK
  /\ JobInv
  /\ JobsDisjoint
  /\ RowInv
  /\ TrackingUnique
  /\ OrphanExplained

USE NumberAssumption, NoneAssumption

LEMMA InitIInv == Init => IInv
<1> SUFFICES ASSUME Init PROVE IInv
  OBVIOUS
<1>1. TypeOK
  BY DEF Init, TypeOK, Jobs, NoJob, Job
<1>2. JobInv /\ JobsDisjoint
  BY DEF Init, JobInv, JobFits, JobsDisjoint, NoJob, Job
<1>3. RowInv /\ TrackingUnique /\ OrphanExplained
  BY DEF Init, RowInv, TrackingUnique, OrphanExplained, HasRow
<1> QED
  BY <1>1, <1>2, <1>3 DEF IInv

\* What IInv says of the tables survives when they and the jobs are the same.
LEMMA SameTables ==
  ASSUME IInv, TypeOK', UNCHANGED <<users, parcels, rows, pc, job, broken>>
  PROVE  IInv'
  BY DEF IInv, JobInv, JobFits, JobsDisjoint, RowInv, TrackingUnique, OrphanExplained, HasRow, HasParcel

\* An idle thread that answers changes no job.
LEMMA AnswerIdle ==
  ASSUME IInv, NEW t \in Threads, NEW how, pc[t] = "idle", Answer(t, how)
  PROVE  UNCHANGED <<pc, job>>
  BY DEF IInv, TypeOK, JobInv, JobFits, Answer

LEMMA RegisterUserIInv ==
  ASSUME IInv, NEW t \in Threads, NEW u \in Users, NEW how, RegisterUser(t, u, how)
  PROVE  IInv'
<1>1. UNCHANGED <<pc, job, parcels, rows, broken>>
  BY AnswerIdle DEF RegisterUser
<1>2. TypeOK'
  BY <1>1 DEF IInv, TypeOK, RegisterUser, Answer
<1> QED
  BY <1>1, <1>2 DEF IInv, JobInv, JobFits, JobsDisjoint, RowInv, TrackingUnique, OrphanExplained,
                    HasRow, HasParcel

LEMMA CreateParcelIInv ==
  ASSUME IInv, NEW t \in Threads, NEW p \in Parcels, NEW u \in Users, NEW how,
         CreateParcel(t, p, u, how)
  PROVE  IInv'
<1> DEFINE new == [sender |-> u, status |-> "created"]
<1>1. UNCHANGED <<pc, job, rows, broken>>
  BY AnswerIdle DEF CreateParcel
<1>2. new # NoParcel /\ new \in [sender : Users, status : {"created", "assigned"}]
  <2>1. new.sender # NoParcel.sender
    BY DEF NoParcel
  <2> QED BY <2>1
<1>3. parcels' = [parcels EXCEPT ![p] = new] /\ parcels[p] = NoParcel
  BY DEF CreateParcel, HasParcel
<1> HIDE DEF new
<1>4. TypeOK'
  <2>1. parcels' \in [Parcels -> [sender : Users, status : {"created", "assigned"}]
                                   \cup {NoParcel}]
    BY <1>2, <1>3 DEF IInv, TypeOK
  <2> QED
    BY <1>1, <2>1 DEF IInv, TypeOK, CreateParcel, Answer
<1>5. NoParcel.status # "assigned"
  BY DEF NoParcel
<1>6. \A q \in Parcels : HasParcel(q) => parcels'[q] = parcels[q] /\ HasParcel(q)'
  BY <1>2, <1>3 DEF IInv, TypeOK, HasParcel
<1>7. JobInv'
  <2> SUFFICES ASSUME NEW v \in Threads, pc[v] = "read"
               PROVE  parcels'[job[v].parcel].status = "assigned"
    BY <1>1 DEF IInv, JobInv, JobFits, HasRow
  <2>1. job[v].parcel \in Parcels /\ HasParcel(job[v].parcel)
    BY DEF IInv, JobInv, JobFits, RowInv
  <2> QED
    BY <1>6, <2>1 DEF IInv, JobInv, JobFits
<1>8. RowInv'
  BY <1>1, <1>6 DEF IInv, RowInv, HasRow
<1>9. OrphanExplained'
  BY <1>1, <1>6 DEF IInv, RowInv, OrphanExplained, HasRow
<1> QED
  BY <1>1, <1>4, <1>7, <1>8, <1>9 DEF IInv, JobsDisjoint, TrackingUnique, HasRow

LEMMA BeginCreateIInv ==
  ASSUME IInv, NEW t \in Threads, NEW p \in Parcels, NEW u \in Users, NEW v \in Users,
         NEW s \in Suffixes, BeginCreate(t, p, u, v, s)
  PROVE  IInv'
<1> USE DEF BeginCreate, Job
<1>1. TypeOK'
  BY DEF IInv, TypeOK, Jobs
<1>2. JobInv'
  BY DEF IInv, TypeOK, JobInv, JobFits, HasRow
<1>3. JobsDisjoint'
  BY DEF IInv, TypeOK, JobsDisjoint
<1>4. OrphanExplained'
  BY DEF IInv, TypeOK, OrphanExplained, HasRow
<1> QED
  BY <1>1, <1>2, <1>3, <1>4 DEF IInv, RowInv, TrackingUnique, HasRow, HasParcel

\* A thread that gives up leaves its row to the broken ones.
LEMMA GiveUpIInv ==
  ASSUME IInv, NEW t \in Threads, NEW how \in {"created", "failed", "notFound"},
         Answer(t, how), UNCHANGED <<users, parcels, rows, clock, lists>>,
         \/ broken' = broken \cup ({job[t].id} \ {None})
         \/ pc[t] = "read" /\ broken' = broken
  PROVE  IInv'
<1>1. /\ pc' = [pc EXCEPT ![t] = "idle"]
      /\ job' = [job EXCEPT ![t] = NoJob]
  BY DEF Answer
<1>2. NoJob.id = None
  BY DEF NoJob, Job
<1>3. TypeOK'
  BY <1>1 DEF IInv, TypeOK, Jobs, Answer, NoJob, Job
<1> HIDE DEF NoJob
<1>4. JobInv'
  BY <1>1 DEF IInv, TypeOK, JobInv, JobFits, HasRow
<1>5. JobsDisjoint'
  BY <1>1, <1>2 DEF IInv, TypeOK, JobsDisjoint
<1>6. OrphanExplained'
  BY <1>1 DEF IInv, TypeOK, OrphanExplained, HasRow
<1> QED
  BY <1>3, <1>4, <1>5, <1>6 DEF IInv, RowInv, TrackingUnique, HasRow, HasParcel

LEMMA InsertRowIInv ==
  ASSUME IInv, NEW t \in Threads, NEW d \in Deliveries, InsertRow(t, d)
  PROVE  IInv'
<1> DEFINE new == Row(job[t].parcel, job[t].sender, job[t].receiver,
                      Placeholder(job[t].suffix), job[t].at)
<1>1. /\ pc[t] = "insert"
      /\ ~HasRow(d)
      /\ HasParcel(job[t].parcel)
      /\ \A e \in Deliveries : rows[e].number # Placeholder(job[t].suffix)
      /\ rows' = [rows EXCEPT ![d] = new]
      /\ UNCHANGED <<users, parcels, clock, lists>>
  BY DEF InsertRow, MayInsert
<1>2. /\ job[t].parcel \in Parcels /\ job[t].sender \in Users /\ job[t].receiver \in Users
      /\ job[t].suffix \in Suffixes /\ job[t].at \in 0..MaxTime
  BY <1>1 DEF IInv, TypeOK, Jobs, JobInv, JobFits
<1>3. /\ new \in Rows
      /\ new.parcel = job[t].parcel
      /\ new.number = Placeholder(job[t].suffix)
      /\ new.number.id = None
  BY <1>2 DEF Rows, Row, Placeholder, Number
<1>4. new # NoRow
  <2>1. NoRow.parcel = None
    BY DEF NoRow, Row
  <2> QED BY <1>2, <1>3, <2>1
<1> HIDE DEF new
<1>5. /\ rows'[d] = new /\ HasRow(d)'
      /\ \A e \in Deliveries : e # d => rows'[e] = rows[e] /\ (HasRow(e)' <=> HasRow(e))
  BY <1>1, <1>4 DEF IInv, TypeOK, HasRow
<1>6. \A v \in Threads : job[v].id # None => job[v].id \in Deliveries \ {d}
  BY <1>1 DEF IInv, TypeOK, Jobs, JobInv, JobFits, NoJob, Job
<1>7. RowInv'
  BY <1>1, <1>2, <1>3, <1>5 DEF IInv, RowInv, HasParcel
<1>8. TrackingUnique'
  BY <1>1, <1>3, <1>5 DEF IInv, TrackingUnique
<1>9. (rows \in [Deliveries -> Rows \cup {NoRow}])'
  BY <1>1, <1>3 DEF IInv, TypeOK
<1>10. CASE /\ pc' = [pc EXCEPT ![t] = "number"]
            /\ job' = [job EXCEPT ![t].id = d]
            /\ UNCHANGED <<reply, broken>>
  <2>1. /\ pc'[t] = "number" /\ job'[t].id = d /\ job'[t].parcel = job[t].parcel
        /\ \A v \in Threads : v # t => pc'[v] = pc[v] /\ job'[v] = job[v]
    BY <1>10 DEF IInv, TypeOK, Jobs
  <2>2. TypeOK'
    <3>0. job[t] \in Jobs
      BY DEF IInv, TypeOK
    <3>1. [job[t] EXCEPT !.id = d] \in Jobs
      BY <3>0 DEF Jobs
    <3>2. job' \in [Threads -> Jobs]
      BY <1>10, <3>1 DEF IInv, TypeOK
    <3> QED
      BY <1>1, <1>9, <1>10, <3>2 DEF IInv, TypeOK
  <2>3. JobInv'
    <3> SUFFICES ASSUME NEW v \in Threads
                 PROVE  JobFits(v)'
      BY DEF JobInv
    <3>1. CASE v = t
      BY <1>3, <1>5, <2>1, <3>1 DEF JobFits
    <3>2. CASE v # t
      BY <1>1, <1>5, <1>6, <2>1, <3>2 DEF IInv, JobInv, JobFits, HasRow
    <3> QED BY <3>1, <3>2
  <2>4. JobsDisjoint'
    BY <1>6, <2>1 DEF IInv, JobsDisjoint
  <2>5. OrphanExplained'
    BY <1>1, <1>5, <1>10, <2>1 DEF IInv, OrphanExplained
  <2> QED
    BY <1>7, <1>8, <2>2, <2>3, <2>4, <2>5 DEF IInv
<1>11. CASE Answer(t, "notFound") /\ broken' = broken \cup {d}
  <2>1. /\ pc'[t] = "idle" /\ job'[t] = NoJob /\ NoJob.id = None
        /\ \A v \in Threads : v # t => pc'[v] = pc[v] /\ job'[v] = job[v]
    BY <1>11 DEF IInv, TypeOK, Jobs, Answer, NoJob, Job
  <2>2. TypeOK'
    BY <1>1, <1>9, <1>11 DEF IInv, TypeOK, Jobs, Answer, NoJob, Job
  <2>3. JobInv'
    <3> SUFFICES ASSUME NEW v \in Threads, v # t
                 PROVE  JobFits(v)'
      BY <2>1 DEF JobInv, JobFits
    <3> QED
      BY <1>1, <1>5, <1>6, <2>1 DEF IInv, JobInv, JobFits, HasRow
  <2>4. JobsDisjoint'
    BY <2>1 DEF IInv, JobsDisjoint
  <2>5. OrphanExplained'
    BY <1>1, <1>5, <1>11, <2>1 DEF IInv, OrphanExplained
  <2> QED
    BY <1>7, <1>8, <2>2, <2>3, <2>4, <2>5 DEF IInv
<1> QED
  BY <1>10, <1>11 DEF InsertRow, ExecutedThen

LEMMA SetNumberIInv ==
  ASSUME IInv, NEW t \in Threads, NEW s \in Suffixes, SetNumber(t, s)
  PROVE  IInv'
<1>1. PICK d \in Deliveries : d = job[t].id
  BY DEF IInv, JobInv, JobFits, SetNumber
<1>2. /\ pc[t] = "number"
      /\ rows' = [rows EXCEPT ![d].number = Number(d, s)]
      /\ UNCHANGED <<users, parcels, clock, lists>>
  BY <1>1 DEF SetNumber
<1>3. HasRow(d) /\ rows[d].parcel = job[t].parcel /\ rows[d].parcel \in Parcels
  BY <1>1, <1>2 DEF IInv, JobInv, JobFits, RowInv
<1> DEFINE new == [rows[d] EXCEPT !.number = Number(d, s)]
<1>4. /\ new \in Rows
      /\ new.parcel = rows[d].parcel
      /\ new.number = Number(d, s)
      /\ Number(d, s).id = d
  BY <1>3 DEF IInv, TypeOK, HasRow, Rows, Number
<1>5. new # NoRow
  <2>1. NoRow.parcel = None
    BY DEF NoRow, Row
  <2> QED BY <1>3, <1>4, <2>1
<1>a. rows' = [rows EXCEPT ![d] = new]
  BY <1>2
<1> HIDE DEF new
<1>6. /\ rows'[d] = new /\ HasRow(d)'
      /\ \A e \in Deliveries : e # d => rows'[e] = rows[e] /\ (HasRow(e)' <=> HasRow(e))
  BY <1>a, <1>5 DEF IInv, TypeOK, HasRow
<1>7. RowInv'
  BY <1>2, <1>3, <1>4, <1>6 DEF IInv, RowInv, HasParcel
<1>8. TrackingUnique'
  <2>1. \A e \in Deliveries : e # d /\ HasRow(e)' => rows'[e].number # rows'[d].number
    BY <1>4, <1>6 DEF IInv, RowInv
  <2> QED
    BY <1>6, <2>1 DEF IInv, TrackingUnique
<1>9. (rows \in [Deliveries -> Rows \cup {NoRow}])'
  BY <1>a, <1>4 DEF IInv, TypeOK
<1>10. \A v \in Threads : v # t => job[v].id # d
  BY <1>1 DEF IInv, JobsDisjoint
<1>11. CASE /\ pc' = [pc EXCEPT ![t] = "assign"]
            /\ job' = [job EXCEPT ![t].id = d]
            /\ UNCHANGED <<reply, broken>>
  <2>1. /\ pc'[t] = "assign" /\ job'[t].id = d /\ job'[t].parcel = job[t].parcel
        /\ \A v \in Threads : v # t => pc'[v] = pc[v] /\ job'[v] = job[v]
    BY <1>11 DEF IInv, TypeOK, Jobs
  <2>2. TypeOK'
    <3>0. job[t] \in Jobs
      BY DEF IInv, TypeOK
    <3>1. [job[t] EXCEPT !.id = d] \in Jobs
      BY <3>0 DEF Jobs
    <3>2. job' \in [Threads -> Jobs]
      BY <1>11, <3>1 DEF IInv, TypeOK
    <3> QED
      BY <1>2, <1>9, <1>11, <3>2 DEF IInv, TypeOK
  <2>3. JobInv'
    <3> SUFFICES ASSUME NEW v \in Threads
                 PROVE  JobFits(v)'
      BY DEF JobInv
    <3>1. CASE v = t
      BY <1>3, <1>4, <1>6, <2>1, <3>1 DEF JobFits
    <3>2. CASE v # t
      BY <1>2, <1>6, <1>10, <2>1, <3>2 DEF IInv, JobInv, JobFits, HasRow
    <3> QED BY <3>1, <3>2
  <2>4. JobsDisjoint'
    BY <1>10, <2>1 DEF IInv, JobsDisjoint
  <2>5. OrphanExplained'
    BY <1>1, <1>2, <1>3, <1>4, <1>6, <1>11, <2>1 DEF IInv, OrphanExplained
  <2> QED
    BY <1>7, <1>8, <2>2, <2>3, <2>4, <2>5 DEF IInv
<1>12. CASE Answer(t, "notFound") /\ broken' = broken \cup {d}
  <2>1. /\ pc'[t] = "idle" /\ job'[t] = NoJob /\ NoJob.id = None
        /\ \A v \in Threads : v # t => pc'[v] = pc[v] /\ job'[v] = job[v]
    BY <1>12 DEF IInv, TypeOK, Jobs, Answer, NoJob, Job
  <2>2. TypeOK'
    BY <1>2, <1>9, <1>12 DEF IInv, TypeOK, Jobs, Answer, NoJob, Job
  <2>3. JobInv'
    <3> SUFFICES ASSUME NEW v \in Threads, v # t
                 PROVE  JobFits(v)'
      BY <1>2, <2>1 DEF JobInv, JobFits, HasRow
    <3> QED
      BY <1>2, <1>6, <1>10, <2>1 DEF IInv, JobInv, JobFits, HasRow
  <2>4. JobsDisjoint'
    BY <2>1 DEF IInv, JobsDisjoint
  <2>5. OrphanExplained'
    BY <1>1, <1>2, <1>6, <1>12, <2>1 DEF IInv, OrphanExplained
  <2> QED
    BY <1>7, <1>8, <2>2, <2>3, <2>4, <2>5 DEF IInv
<1> QED
  BY <1>1, <1>11, <1>12 DEF SetNumber, ExecutedThen

LEMMA AssignIInv ==
  ASSUME IInv, NEW t \in Threads, Assign(t)
  PROVE  IInv'
<1>1. PICK d \in Deliveries : d = job[t].id
  BY DEF IInv, JobInv, JobFits, Assign
<1>2. PICK p \in Parcels : p = job[t].parcel
  BY DEF IInv, JobInv, JobFits, RowInv, Assign
<1>3. /\ pc[t] = "assign"
      /\ parcels' = [parcels EXCEPT ![p].status = "assigned"]
      /\ UNCHANGED <<users, rows, clock, lists>>
  BY <1>2 DEF Assign
<1>4. HasRow(d) /\ rows[d].parcel = p /\ rows[d].number.id # None /\ HasParcel(p)
  BY <1>1, <1>2, <1>3 DEF IInv, JobInv, JobFits, RowInv
<1>5. NoParcel.sender = None
  BY DEF NoParcel
<1>6. /\ parcels'[p].status = "assigned" /\ parcels'[p].sender = parcels[p].sender
      /\ parcels[p].sender \in Users
      /\ \A q \in Parcels : q # p => parcels'[q] = parcels[q]
  BY <1>3, <1>4 DEF IInv, TypeOK, HasParcel
<1>7. HasParcel(p)'
  BY <1>5, <1>6 DEF HasParcel
<1>8. (parcels \in [Parcels -> [sender : Users, status : {"created", "assigned"}]
                                \cup {NoParcel}])'
  BY <1>3, <1>4 DEF IInv, TypeOK, HasParcel
<1>9. \A q \in Parcels : HasParcel(q) => HasParcel(q)'
  BY <1>6, <1>7 DEF HasParcel
<1>10. \A q \in Parcels : parcels[q].status = "assigned" => parcels'[q].status = "assigned"
  BY <1>6
<1>11. RowInv'
  BY <1>3, <1>9 DEF IInv, RowInv, HasRow
<1>12. TrackingUnique'
  BY <1>3 DEF IInv, TrackingUnique, HasRow
<1>13. \A v \in Threads : v # t => job[v].id # d
  BY <1>1 DEF IInv, JobsDisjoint
<1>14. \A v \in Threads : v # t /\ pc'[v] = pc[v] /\ job'[v] = job[v] => JobFits(v)'
  <2> SUFFICES ASSUME NEW v \in Threads, v # t, pc'[v] = pc[v], job'[v] = job[v]
               PROVE  JobFits(v)'
    OBVIOUS
  <2>1. JobFits(v)
    BY DEF IInv, JobInv
  <2>2. pc[v] = "read" => job[v].parcel \in Parcels
    BY <2>1 DEF JobFits, IInv, RowInv
  <2> QED
    BY <1>3, <1>10, <2>1, <2>2 DEF JobFits, HasRow
<1>15. CASE /\ pc' = [pc EXCEPT ![t] = "read"]
            /\ job' = [job EXCEPT ![t].id = d]
            /\ UNCHANGED <<reply, broken>>
  <2>1. job' = job
    BY <1>1, <1>15 DEF IInv, TypeOK, Jobs
  <2>2. pc'[t] = "read" /\ \A v \in Threads : v # t => pc'[v] = pc[v]
    BY <1>15 DEF IInv, TypeOK
  <2>3. TypeOK'
    BY <1>3, <1>8, <1>15, <2>1 DEF IInv, TypeOK
  <2>4. JobInv'
    <3>1. JobFits(t)'
      BY <1>1, <1>2, <1>3, <1>4, <1>6, <2>1, <2>2 DEF JobFits, HasRow
    <3> QED
      BY <1>14, <2>1, <2>2, <3>1 DEF JobInv
  <2>5. JobsDisjoint'
    BY <2>1 DEF IInv, JobsDisjoint
  <2>6. OrphanExplained'
    BY <1>1, <1>3, <1>4, <1>6, <1>10, <1>15, <2>1, <2>2 DEF IInv, RowInv, OrphanExplained, HasRow
  <2> QED
    BY <1>11, <1>12, <2>3, <2>4, <2>5, <2>6 DEF IInv
<1>16. CASE Answer(t, "notFound") /\ broken' = broken \cup {d}
  <2>1. /\ pc'[t] = "idle" /\ job'[t] = NoJob /\ NoJob.id = None
        /\ \A v \in Threads : v # t => pc'[v] = pc[v] /\ job'[v] = job[v]
    BY <1>16 DEF IInv, TypeOK, Answer, NoJob, Job
  <2>2. TypeOK'
    BY <1>3, <1>8, <1>16 DEF IInv, TypeOK, Jobs, Answer, NoJob, Job
  <2>3. JobInv'
    BY <1>14, <2>1 DEF JobInv, JobFits
  <2>4. JobsDisjoint'
    BY <2>1 DEF IInv, JobsDisjoint
  <2>5. OrphanExplained'
    BY <1>1, <1>3, <1>10, <1>16, <2>1 DEF IInv, RowInv, OrphanExplained, HasRow
  <2> QED
    BY <1>11, <1>12, <2>2, <2>3, <2>4, <2>5 DEF IInv
<1> QED
  BY <1>1, <1>15, <1>16 DEF Assign, ExecutedThen

LEMMA RestartIInv ==
  ASSUME IInv, Restart
  PROVE  IInv'
<1>1. /\ \A t \in Threads : pc'[t] = "idle" /\ job'[t] = NoJob
      /\ UNCHANGED <<users, parcels, rows, clock, lists>>
      /\ broken' = broken \cup ({job[t].id : t \in Threads} \ {None})
  BY DEF Restart
<1>2. TypeOK'
  BY DEF Restart, IInv, TypeOK, Jobs, NoJob, Job
<1>3. JobInv'
  BY <1>1 DEF JobInv, JobFits
<1>4. JobsDisjoint'
  BY <1>1 DEF JobsDisjoint, NoJob, Job
<1>5. OrphanExplained'
  BY <1>1 DEF IInv, OrphanExplained, HasRow
<1> QED
  BY <1>1, <1>2, <1>3, <1>4, <1>5 DEF IInv, RowInv, TrackingUnique, HasRow, HasParcel

\* Readers and the clock touch no table.
LEMMA ReadersIInv ==
  ASSUME IInv, NEW r \in Readers, (\E u \in Users : StartReading(r, u)) \/ ReadPage(r)
  PROVE  IInv'
<1>1. UNCHANGED <<users, parcels, rows, clock, pc, job, reply, broken>>
  BY DEF StartReading, ReadPage
<1>2. \A u \in Users : RowsOf(u) \subseteq Deliveries
  BY DEF RowsOf
<1>3. lists'
        \in [Readers ->
              [sender : Users \cup {None}, from : Nat \ {0}, begun : SUBSET Deliveries,
               seen : SUBSET Deliveries, done : BOOLEAN]]
  <2>1. CASE \E u \in Users : StartReading(r, u)
    <3>1. PICK u \in Users : StartReading(r, u)
      BY <2>1
    <3> DEFINE l == lists[r]
    <3>2. l \in [sender : Users \cup {None}, from : Nat \ {0}, begun : SUBSET Deliveries,
                seen : SUBSET Deliveries, done : BOOLEAN]
      BY DEF IInv, TypeOK
    <3>3. lists' = [lists EXCEPT ![r] = [l EXCEPT !.sender = u, !.begun = RowsOf(u)]]
      BY <3>1 DEF StartReading, IInv, TypeOK
    <3> HIDE DEF l
    <3>4. [l EXCEPT !.sender = u, !.begun = RowsOf(u)]
            \in [sender : Users \cup {None}, from : Nat \ {0}, begun : SUBSET Deliveries,
                 seen : SUBSET Deliveries, done : BOOLEAN]
      BY <1>2, <3>2
    <3> QED
      BY <3>3, <3>4 DEF IInv, TypeOK
  <2>2. CASE ReadPage(r)
    <3> DEFINE l == lists[r]
    <3>1. /\ l.sender \in Users
          /\ l \in [sender : Users \cup {None}, from : Nat \ {0}, begun : SUBSET Deliveries,
                    seen : SUBSET Deliveries, done : BOOLEAN]
      BY <2>2 DEF ReadPage, IInv, TypeOK
    <3>2. PICK page \in SUBSET RowsOf(l.sender) :
            lists' = [lists EXCEPT ![r] =
              [l EXCEPT !.from = l.from + PageSize, !.seen = l.seen \cup page,
                        !.done = Cardinality(page) < PageSize]]
      BY <2>2 DEF ReadPage
    <3>3. l.from + PageSize \in Nat \ {0} /\ l.seen \cup page \in SUBSET Deliveries
      BY <1>2, <3>1
    <3>4. (Cardinality(page) < PageSize) \in BOOLEAN
      OBVIOUS
    <3> HIDE DEF l
    <3>5. [l EXCEPT !.from = l.from + PageSize, !.seen = l.seen \cup page,
                    !.done = Cardinality(page) < PageSize]
            \in [sender : Users \cup {None}, from : Nat \ {0}, begun : SUBSET Deliveries,
                 seen : SUBSET Deliveries, done : BOOLEAN]
      BY <3>1, <3>3, <3>4
    <3> QED
      BY <3>2, <3>5 DEF IInv, TypeOK
  <2> QED
    BY <2>1, <2>2
<1>4. TypeOK'
  BY <1>1, <1>3 DEF IInv, TypeOK
<1> QED
  BY <1>1, <1>4, SameTables

LEMMA NextIInv == IInv /\ [Next]_vars => IInv'
<1> SUFFICES ASSUME IInv, [Next]_vars PROVE IInv'
  OBVIOUS
<1>1. ASSUME NEW t \in Threads, NEW how \in {"conflict", "unprocessable", "notFound", "failed"},
             RegisterOrHandInFails(t, how)
      PROVE  IInv'
  <2>1. UNCHANGED <<users, parcels, rows, pc, job, broken>>
    BY <1>1, AnswerIdle DEF RegisterOrHandInFails
  <2>2. TypeOK'
    BY <1>1, <2>1 DEF RegisterOrHandInFails, Answer, IInv, TypeOK
  <2> QED
    BY <2>1, <2>2, SameTables
<1>2. ASSUME NEW t \in Threads, NEW how \in {"created", "failed"}, ReadBack(t, how)
      PROVE  IInv'
  BY <1>2, GiveUpIInv DEF ReadBack
<1>3. ASSUME NEW t \in Threads, StatementFails(t)
      PROVE  IInv'
  BY <1>3, GiveUpIInv DEF StatementFails
<1>4. CASE Tick
  <2>1. TypeOK'
    BY <1>4 DEF Tick, IInv, TypeOK
  <2> QED
    BY <1>4, <2>1, SameTables DEF Tick
<1>5. CASE UNCHANGED vars
  <2>1. TypeOK'
    BY <1>5 DEF vars, IInv, TypeOK
  <2> QED
    BY <1>5, <2>1, SameTables DEF vars
<1>6. ASSUME NEW t \in Threads, Create(t)
      PROVE  IInv'
  BY <1>2, <1>3, <1>6, InsertRowIInv, SetNumberIInv, AssignIInv DEF Create
<1> QED
  BY <1>1, <1>4, <1>5, <1>6, RegisterUserIInv, CreateParcelIInv, BeginCreateIInv, RestartIInv,
     ReadersIInv DEF Next

LEMMA Invariance == Spec => []IInv
  BY InitIInv, NextIInv, PTL DEF Spec

\* Every reachable state is well typed; what a create does to the tables is what
\* their constraints allow.  (postgres_storage_component.cpp 201-347)
THEOREM TypeCorrect == Spec => []TypeOK
  BY Invariance, PTL DEF IInv

\* For any number of users, parcels, rows and threads, half a delivery is left
\* only by a create under way or broken off.
\* (postgres_storage_component.cpp 311-346)
THEOREM OrphanSafety == Spec => []OrphanExplained
  BY Invariance, PTL DEF IInv

\* Placeholder and final tracking numbers never collide.
\* (postgres_storage_component.cpp 19-32, 303-325)
THEOREM TrackingSafety == Spec => []TrackingUnique
  BY Invariance, PTL DEF IInv

-----------------------------------------------------------------------------
(* Reading a list to its end.                                              *)

\* The rows of u newer than a time; another row of u has the time of d.
NewerThan(u, at) == {e \in RowsOf(u) : rows[e].at > at}
Tied(u, d) == \E e \in RowsOf(u) \ {d} : rows[e].at = rows[d].at

\* What reader r has not seen of the rows that were there when it began is still
\* before it, but for rows with equal times; at the end nothing is before it.
ReaderFits(r) ==
  LET l == lists[r] IN
  /\ l.sender = None => l.begun = {} /\ l.from = 1 /\ l.done = FALSE
  /\ l.begun \subseteq RowsOf(l.sender)
  /\ \A d \in l.begun \ l.seen :
       \/ Tied(l.sender, d)
       \/ l.done = FALSE /\ Cardinality(NewerThan(l.sender, rows[d].at)) + 1 >= l.from

ReaderInv == \A r \in Readers : ReaderFits(r)

\* A set of numbers has a least one: what induction over them rests on.
LEMMA LeastNumber ==
  ASSUME NEW T, T \subseteq Nat, T # {}
  PROVE  \E x \in T : \A y \in T : x <= y
<1>1. PICK x \in T : \A y \in T : ~(<<y, x>> \in OpToRel(<, Nat))
  BY NatLessThanWellFounded, WFMin, Zenon
<1>2. ASSUME NEW y \in T PROVE x <= y
  <2>1. ~(<<y, x>> \in OpToRel(<, Nat))
    BY <1>1
  <2>2. x \in Nat /\ y \in Nat /\ <<y, x>> \in Nat \X Nat
    OBVIOUS
  <2>3. ~(<<y, x>>[1] < <<y, x>>[2])
    BY <2>1, <2>2, Zenon DEF OpToRel
  <2> QED
    BY <2>2, <2>3
<1> QED
  BY <1>2

\* Two finite sets with no member in common.
LEMMA DisjointUnion ==
  ASSUME NEW A, NEW B, IsFiniteSet(A), IsFiniteSet(B), A \cap B = {}
  PROVE  /\ IsFiniteSet(A \cup B)
         /\ Cardinality(A \cup B) = Cardinality(A) + Cardinality(B)
<1>1. Cardinality(A \cap B) = 0
  BY FS_EmptySet, Zenon
<1>2. /\ IsFiniteSet(A \cup B)
      /\ Cardinality(A \cup B) = Cardinality(A) + Cardinality(B) - Cardinality(A \cap B)
  BY FS_Union, Zenon
<1>3. Cardinality(A) \in Nat /\ Cardinality(B) \in Nat
  BY FS_CardinalityType
<1> QED
  BY <1>1, <1>2, <1>3

\* Sets of rows are finite.
LEMMA RowSets ==
  ASSUME NEW S, S \subseteq Deliveries
  PROVE  IsFiniteSet(S) /\ Cardinality(S) \in Nat
  BY DeliveriesAssumption, FS_Subset, FS_CardinalityType

\* The rows newer than a time fill the first positions of the list, so a page
\* holds as many of them as there are of its positions among those.
LEMMA PageHoldsNewer ==
  ASSUME TypeOK, NEW u \in Users, NEW from \in Nat \ {0}, NEW to \in Nat, NEW page,
         IsPage(page, u, from, to), NEW at \in 0..MaxTime
  PROVE  Cardinality({e \in page : rows[e].at > at})
           = Cardinality((1 .. Cardinality(NewerThan(u, at))) \cap (from .. to))
<1> DEFINE N(m) == Cardinality(NewerThan(u, MaxTime - m))
           P(m) == {e \in page : rows[e].at > MaxTime - m}
           Q(m) == (1 .. N(m)) \cap (from .. to)
           Bad == {m \in 0..MaxTime : Cardinality(P(m)) # Cardinality(Q(m))}
<1>0. /\ page \subseteq RowsOf(u) /\ RowsOf(u) \subseteq Deliveries
      /\ \A e \in RowsOf(u) : rows[e].at \in 0..MaxTime
  BY DEF IsPage, RowsOf, TypeOK, HasRow, Rows
<1>1. Cardinality(P(0)) = Cardinality(Q(0))
  <2>1. P(0) = {} /\ NewerThan(u, MaxTime - 0) = {}
    BY <1>0 DEF NewerThan
  <2>2. N(0) = 0
    BY <2>1, FS_EmptySet
  <2>3. Q(0) = {}
    BY <2>2
  <2> QED
    BY <2>1, <2>3
<1>2. ASSUME NEW m \in 0..MaxTime, m # 0, Cardinality(P(m - 1)) = Cardinality(Q(m - 1))
      PROVE  Cardinality(P(m)) = Cardinality(Q(m))
  <2> DEFINE a == MaxTime - m + 1
             tied == {d \in RowsOf(u) : rows[d].at = a}
             Old == NewerThan(u, a)
             n == Cardinality(Old)
             k == Cardinality(tied)
  <2>1. a \in 1..MaxTime /\ MaxTime - (m - 1) = a
    <3> HIDE DEF N, P, Q, Bad
    <3>1. m \in Nat /\ m # 0 /\ m <= MaxTime /\ MaxTime \in Nat
      BY <1>2
    <3> QED
      BY <3>1
  <2>2. NewerThan(u, MaxTime - m) = Old \cup tied /\ Old \cap tied = {}
    BY <1>0, <2>1 DEF NewerThan
  <2>3. P(m) = P(m - 1) \cup (page \cap tied) /\ P(m - 1) \cap (page \cap tied) = {}
    BY <1>0, <2>1
  <2>4. /\ IsFiniteSet(Old) /\ IsFiniteSet(tied) /\ n \in Nat /\ k \in Nat
        /\ IsFiniteSet(P(m - 1)) /\ IsFiniteSet(page \cap tied)
    <3>1. /\ Old \subseteq Deliveries /\ tied \subseteq Deliveries
          /\ P(m - 1) \subseteq Deliveries /\ page \cap tied \subseteq Deliveries
      BY <1>0 DEF NewerThan
    <3> HIDE DEF Old, tied, P
    <3> QED
      BY <3>1, RowSets
  <2>5. N(m) = n + k /\ N(m - 1) = n
    <3>1. Cardinality(Old \cup tied) = n + k
      BY <2>2, <2>4, DisjointUnion
    <3> QED
      BY <2>1, <2>2, <3>1
  <2>6. Cardinality(P(m)) = Cardinality(P(m - 1)) + Cardinality(page \cap tied)
    <3> HIDE DEF P, tied
    <3> QED
      BY <2>3, <2>4, DisjointUnion
  <2>7. Cardinality(page \cap tied) = Cardinality((n + 1 .. n + k) \cap (from .. to))
    <3>1. CASE tied = {}
      <4>1. k = 0 /\ page \cap tied = {}
        BY <3>1, FS_EmptySet
      <4>2. (n + 1 .. n + k) \cap (from .. to) = {}
        <5> HIDE DEF n, k
        <5> QED
          BY <2>4, <4>1
      <4> QED
        BY <4>1, <4>2
    <3>2. CASE tied # {}
      <4>1. a \in {rows[d].at : d \in RowsOf(u)}
        BY <3>2
      <4> QED
        BY <4>1 DEF IsPage, NewerThan
    <3> QED
      BY <3>1, <3>2
  <2>8. Cardinality(Q(m)) = Cardinality(Q(m - 1)) + Cardinality((n + 1 .. n + k) \cap (from .. to))
    <3> DEFINE A == (1 .. n) \cap (from .. to)
               B == (n + 1 .. n + k) \cap (from .. to)
    <3>1. A \cap B = {} /\ A \cup B = (1 .. n + k) \cap (from .. to)
      <4> HIDE DEF n, k
      <4> QED
        BY <2>4
    <3>2. IsFiniteSet(A) /\ IsFiniteSet(B)
      <4>1. IsFiniteSet(from .. to)
        BY FS_Interval
      <4>2. A \subseteq from .. to /\ B \subseteq from .. to
        OBVIOUS
      <4> HIDE DEF A, B
      <4> QED
        BY <4>1, <4>2, FS_Subset
    <3>3. Cardinality(A \cup B) = Cardinality(A) + Cardinality(B)
      <4> HIDE DEF A, B
      <4> QED
        BY <3>1, <3>2, DisjointUnion
    <3>4. Q(m) = A \cup B /\ Q(m - 1) = A
      BY <2>5, <3>1
    <3> QED
      BY <3>3, <3>4
  <2> QED
    BY <1>2, <2>6, <2>7, <2>8
<1>3. Bad = {}
  <2> SUFFICES ASSUME Bad # {} PROVE FALSE
    OBVIOUS
  <2>1. Bad \subseteq Nat
    OBVIOUS
  <2>2. PICK m \in Bad : \A y \in Bad : m <= y
    <3> HIDE DEF Bad
    <3> QED BY <2>1, LeastNumber
  <2>3. m \in 0..MaxTime /\ Cardinality(P(m)) # Cardinality(Q(m))
    OBVIOUS
  <2>4. m # 0
    BY <1>1, <2>3
  <2>5. m - 1 \in 0..MaxTime /\ ~(m <= m - 1)
    BY <2>3, <2>4
  <2>6. m - 1 \notin Bad
    BY <2>2, <2>5
  <2>7. Cardinality(P(m - 1)) = Cardinality(Q(m - 1))
    BY <2>5, <2>6
  <2> HIDE DEF P, Q
  <2> QED
    BY <1>2, <2>3, <2>4, <2>7
<1>4. MaxTime - at \in 0..MaxTime /\ MaxTime - (MaxTime - at) = at
  OBVIOUS
<1>5. Cardinality(P(MaxTime - at)) = Cardinality(Q(MaxTime - at))
  BY <1>3, <1>4
<1> QED
  BY <1>4, <1>5

\* A page that ends before an untied row is full; one that has its position has it.
LEMMA PageBefore ==
  ASSUME TypeOK, NEW u \in Users, NEW from \in Nat \ {0}, NEW page,
         IsPage(page, u, from, from + PageSize - 1),
         NEW d \in RowsOf(u), ~Tied(u, d), d \notin page,
         Cardinality(NewerThan(u, rows[d].at)) + 1 >= from
  PROVE  /\ Cardinality(NewerThan(u, rows[d].at)) + 1 >= from + PageSize
         /\ Cardinality(page) >= PageSize
<1> DEFINE at == rows[d].at
           n == Cardinality(NewerThan(u, at))
           to == from + PageSize - 1
           tied == {e \in RowsOf(u) : rows[e].at = at}
<1>1. /\ RowsOf(u) \subseteq Deliveries /\ at \in 0..MaxTime /\ n \in Nat
      /\ page \subseteq RowsOf(u) /\ to \in Nat /\ from <= n + 1
  <2>1. RowsOf(u) \subseteq Deliveries /\ NewerThan(u, at) \subseteq Deliveries
    BY DEF RowsOf, NewerThan
  <2>2. n \in Nat
    BY <2>1, RowSets
  <2>3. at \in 0..MaxTime
    BY DEF RowsOf, TypeOK, HasRow, Rows
  <2> QED
    BY <2>1, <2>2, <2>3 DEF IsPage
<1>2. n + 1 > to
  <2> SUFFICES ASSUME n + 1 <= to PROVE FALSE
    BY <1>1
  <2>1. tied = {d}
    BY DEF Tied
  <2>2. page \cap tied = {}
    BY <2>1
  <2>3. Cardinality(tied) = 1
    BY <2>1, FS_Singleton
  <2>4. at \in {rows[e].at : e \in RowsOf(u)}
    OBVIOUS
  <2>5. Cardinality(page \cap tied)
          = Cardinality((n + 1 .. n + Cardinality(tied)) \cap (from .. to))
    BY <2>4 DEF IsPage, NewerThan
  <2>6. (n + 1 .. n + 1) \cap (from .. to) = {n + 1}
    <3> HIDE DEF n, to
    <3> QED
      BY <1>1
  <2>7. Cardinality({}) = 1
    BY <2>2, <2>3, <2>5, <2>6, FS_Singleton
  <2> QED
    BY <2>7, FS_EmptySet
<1>3. Cardinality(page) >= PageSize
  <2> DEFINE P == {e \in page : rows[e].at > at}
  <2>1. Cardinality(P) = Cardinality((1 .. n) \cap (from .. to))
    BY <1>1, PageHoldsNewer
  <2>2. (1 .. n) \cap (from .. to) = from .. to
    <3> HIDE DEF n, to
    <3> QED
      BY <1>1, <1>2
  <2>3. Cardinality(from .. to) = PageSize
    BY FS_Interval
  <2>4. IsFiniteSet(page) /\ P \subseteq page
    BY <1>1, RowSets
  <2>5. Cardinality(P) <= Cardinality(page)
    <3> HIDE DEF P
    <3> QED
      BY <2>4, FS_Subset
  <2>6. Cardinality(page) \in Nat
    BY <2>4, FS_CardinalityType
  <2> QED
    BY <2>1, <2>2, <2>3, <2>5, <2>6
<1> HIDE DEF n, to
<1>4. n + 1 >= from + PageSize
  BY <1>1, <1>2 DEF to
<1> QED
  BY <1>3, <1>4 DEF n

\* Whatever a step does to a row, it stays, with its sender and its time.
RowsStay ==
  \A d \in Deliveries : HasRow(d) =>
    HasRow(d)' /\ rows'[d].sender = rows[d].sender /\ rows'[d].at = rows[d].at

\* Rows that come in meanwhile push those a reader has not seen further back.
LEMMA RowsStayReader ==
  ASSUME TypeOK, TypeOK', RowsStay, NEW r \in Readers, lists'[r] = lists[r], ReaderFits(r)
  PROVE  ReaderFits(r)'
<1> DEFINE l == lists[r]
           u == l.sender
<1>0. \A d \in RowsOf(u) : d \in Deliveries /\ rows'[d].at = rows[d].at
  BY DEF RowsStay, RowsOf
<1>1. RowsOf(u) \subseteq RowsOf(u)'
  BY DEF RowsStay, RowsOf
<1>2. ASSUME NEW d \in RowsOf(u), Tied(u, d) PROVE Tied(u, d)'
  BY <1>0, <1>1, <1>2 DEF Tied
<1>3. ASSUME NEW d \in RowsOf(u)
      PROVE  Cardinality(NewerThan(u, rows[d].at)) <= Cardinality(NewerThan(u, rows[d].at)')
             /\ Cardinality(NewerThan(u, rows[d].at)) \in Nat
             /\ Cardinality(NewerThan(u, rows[d].at)') \in Nat
  <2>1. NewerThan(u, rows[d].at) \subseteq NewerThan(u, rows[d].at)'
    BY <1>0, <1>1 DEF NewerThan
  <2>2. NewerThan(u, rows[d].at)' \subseteq Deliveries
    BY DEF NewerThan, RowsOf
  <2>3. IsFiniteSet(NewerThan(u, rows[d].at)')
    BY <2>2, RowSets
  <2> QED
    BY <2>1, <2>3, FS_Subset, FS_CardinalityType
<1> QED
  BY <1>0, <1>1, <1>2, <1>3 DEF ReaderFits, TypeOK

LEMMA ReadPageReader ==
  ASSUME TypeOK, NEW r \in Readers, ReadPage(r), ReaderFits(r)
  PROVE  ReaderFits(r)'
<1> DEFINE l == lists[r]
<1>0. PICK u \in Users : u = l.sender
  BY DEF ReadPage, TypeOK
<1>1. /\ l.sender = u /\ l.done = FALSE /\ l.from \in Nat \ {0}
      /\ UNCHANGED rows
  BY <1>0 DEF ReadPage, TypeOK
<1>2. PICK page \in SUBSET RowsOf(u) :
        /\ IsPage(page, u, l.from, l.from + PageSize - 1)
        /\ lists' = [lists EXCEPT ![r] =
             [l EXCEPT !.from = l.from + PageSize, !.seen = l.seen \cup page,
                       !.done = Cardinality(page) < PageSize]]
  BY <1>0 DEF ReadPage
<1>3. /\ lists'[r].sender = u /\ lists'[r].begun = l.begun
      /\ lists'[r].from = l.from + PageSize /\ lists'[r].seen = l.seen \cup page
      /\ lists'[r].done = (Cardinality(page) < PageSize)
  BY <1>1, <1>2 DEF TypeOK
<1>4. RowsOf(u)' = RowsOf(u)
  BY <1>1 DEF RowsOf, HasRow
<1>5. ASSUME NEW d \in l.begun \ (l.seen \cup page), ~Tied(u, d)
      PROVE  /\ lists'[r].done = FALSE
             /\ Cardinality(NewerThan(u, rows[d].at)) + 1 >= l.from + PageSize
  <2>1. d \in RowsOf(u) /\ Cardinality(NewerThan(u, rows[d].at)) + 1 >= l.from
    BY <1>1, <1>5 DEF ReaderFits
  <2>2. /\ Cardinality(NewerThan(u, rows[d].at)) + 1 >= l.from + PageSize
        /\ Cardinality(page) >= PageSize
    BY <1>1, <1>2, <1>5, <2>1, PageBefore
  <2>3. Cardinality(page) \in Nat
    <3>1. page \subseteq Deliveries
      BY DEF RowsOf
    <3> QED
      BY <3>1, RowSets
  <2>4. (Cardinality(page) < PageSize) = FALSE
    BY <2>2, <2>3
  <2>5. lists'[r].done = FALSE
    BY <1>3, <2>4, Zenon
  <2> QED
    BY <2>2, <2>5
<1>6. \A d \in RowsOf(u) : /\ Tied(u, d)' <=> Tied(u, d)
                           /\ NewerThan(u, rows[d].at)' = NewerThan(u, rows[d].at)
  BY <1>1, <1>4 DEF Tied, NewerThan
<1> QED
  BY <1>1, <1>3, <1>4, <1>5, <1>6 DEF ReaderFits

LEMMA StartReadingReader ==
  ASSUME TypeOK, NEW r \in Readers, NEW u \in Users, StartReading(r, u), ReaderFits(r)
  PROVE  ReaderFits(r)'
<1>1. /\ lists'[r].sender = u /\ lists'[r].begun = RowsOf(u)
      /\ lists'[r].from = 1 /\ lists'[r].done = FALSE /\ u # None
      /\ UNCHANGED rows
  BY DEF StartReading, TypeOK, ReaderFits
<1>2. RowsOf(u)' = RowsOf(u)
  BY <1>1 DEF RowsOf, HasRow
<1>3. \A d : Cardinality(NewerThan(u, rows[d].at)') \in Nat
  <2> SUFFICES ASSUME NEW d PROVE Cardinality(NewerThan(u, rows[d].at)') \in Nat
    OBVIOUS
  <2>1. NewerThan(u, rows[d].at)' \subseteq Deliveries
    BY DEF NewerThan, RowsOf
  <2> QED
    BY <2>1, RowSets
<1> QED
  BY <1>1, <1>2, <1>3 DEF ReaderFits

\* Only SetNumber touches a row that is there, and neither its sender nor its time.
LEMMA RowsStayNext ==
  ASSUME IInv, [Next]_vars PROVE RowsStay
<1>1. ASSUME NEW t \in Threads, NEW d \in Deliveries, InsertRow(t, d) PROVE RowsStay
  BY <1>1 DEF InsertRow, RowsStay, HasRow, IInv, TypeOK
<1>2. ASSUME NEW t \in Threads, NEW s \in Suffixes, SetNumber(t, s) PROVE RowsStay
  <2>1. PICK d \in Deliveries : d = job[t].id
    BY <1>2 DEF IInv, JobInv, JobFits, SetNumber
  <2> DEFINE new == [rows[d] EXCEPT !.number = Number(d, s)]
  <2>2. rows' = [rows EXCEPT ![d] = new]
    BY <1>2, <2>1 DEF SetNumber
  <2>3. HasRow(d) /\ rows[d] \in Rows
    BY <1>2, <2>1 DEF IInv, JobInv, JobFits, TypeOK, HasRow, SetNumber
  <2>4. new.sender = rows[d].sender /\ new.at = rows[d].at /\ new # NoRow
    <3>1. new.sender \in Users /\ NoRow.sender = None
      BY <2>3 DEF Rows, NoRow, Row
    <3>2. new # NoRow
      BY <3>1
    <3> QED
      BY <2>3, <3>2 DEF Rows
  <2> HIDE DEF new
  <2> QED
    BY <2>2, <2>4 DEF RowsStay, HasRow, IInv, TypeOK
<1>3. CASE UNCHANGED rows
  BY <1>3 DEF RowsStay, HasRow
<1> QED
  BY <1>1, <1>2, <1>3
  DEF Next, Create, RegisterUser, CreateParcel, RegisterOrHandInFails, BeginCreate, Assign,
      ReadBack, StatementFails, Restart, StartReading, ReadPage, Tick, vars

LEMMA ReaderInit == Init => ReaderInv
  BY DEF Init, ReaderInv, ReaderFits

LEMMA ReaderNext == IInv /\ IInv' /\ ReaderInv /\ [Next]_vars => ReaderInv'
<1> SUFFICES ASSUME IInv, IInv', ReaderInv, [Next]_vars, NEW r \in Readers
             PROVE  ReaderFits(r)'
  BY DEF ReaderInv
<1>1. ReaderFits(r) /\ TypeOK /\ TypeOK' /\ RowsStay
  BY RowsStayNext DEF ReaderInv, IInv
<1>2. CASE lists'[r] = lists[r]
  BY <1>1, <1>2, RowsStayReader
<1>3. CASE ReadPage(r)
  BY <1>1, <1>3, ReadPageReader
<1>4. ASSUME NEW u \in Users, StartReading(r, u) PROVE ReaderFits(r)'
  BY <1>1, <1>4, StartReadingReader
<1>5. ASSUME NEW q \in Readers, q # r, (\E u \in Users : StartReading(q, u)) \/ ReadPage(q)
      PROVE  lists'[r] = lists[r]
  BY <1>1, <1>5 DEF StartReading, ReadPage, TypeOK
<1>6. (\E q \in Readers : (\E u \in Users : StartReading(q, u)) \/ ReadPage(q)) \/ lists' = lists
  BY DEF Next, Create, RegisterUser, CreateParcel, RegisterOrHandInFails, BeginCreate, InsertRow,
         SetNumber, Assign, ReadBack, StatementFails, Restart, Tick, vars
<1> QED
  BY <1>2, <1>3, <1>4, <1>5, <1>6

\* A reader who has come to the end of a list has lost no row that was there when
\* it began, but for rows with equal times: for any number of rows, readers and
\* creates under way, and any size of a page.
\* (postgres_storage_component.cpp 371-403, get_deliveries_handler.cpp 27-87)
THEOREM TraversalSafety == Spec => []TraversalIsComplete
<1>1. IInv /\ ReaderInv => TraversalIsComplete
  BY DEF ReaderInv, ReaderFits, TraversalIsComplete, Tied
<1> QED
  BY <1>1, ReaderInit, ReaderNext, Invariance, PTL DEF Spec
=============================================================================
