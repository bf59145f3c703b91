--------------------------- MODULE PostgresStorage ---------------------------
(***************************************************************************)
(* The storage of the third generation: one SQL statement per call, each   *)
(* its own transaction, so creating a delivery is three of them: insert a  *)
(* row under a placeholder tracking number, give it the number made of its *)
(* id, mark the parcel "assigned".  A statement may fail, or be executed   *)
(* and its answer lost; every exception on the way is answered 404 and     *)
(* undoes nothing.  Clients read lists page by page with LIMIT and OFFSET  *)
(* over created_at, which is the time the inserting transaction began.     *)
(***************************************************************************)
EXTENDS Naturals, FiniteSets

CONSTANTS
  Users,       \* logins, with their e-mail addresses
  Parcels,     \* ids the sequence of parcels gives out
  Deliveries,  \* ids the sequence of deliveries gives out
  Suffixes,    \* random parts of tracking numbers
  Threads,     \* handler threads
  Readers,     \* clients that read the list of a sender to its end
  PageSize,    \* rows a reader asks for at a time
  MaxTime,     \* bound: the last tick of the clock of the database
  None         \* nothing

ASSUME NumberAssumption == PageSize \in Nat \ {0} /\ MaxTime \in Nat

\* The ids of a table are those of a SERIAL column, of 32 bits.
ASSUME DeliveriesAssumption == IsFiniteSet(Deliveries)

ASSUME NoneAssumption == None \notin Users \cup Parcels \cup Deliveries \cup Suffixes

VARIABLES
  users,    \* table users
  parcels,  \* table parcels: parcels[p], or NoParcel
  rows,     \* table deliveries: rows[d], or NoRow
  clock,    \* NOW() of a transaction that begins
  pc,       \* pc[t]: the statement thread t executes next
  job,      \* job[t]: the delivery t creates, as its next statement needs it
  reply,    \* reply[t]: how t's last request was answered, or "none"
  broken,   \* history: rows whose create broke off
  lists     \* lists[r]: how far reader r has come

vars == <<users, parcels, rows, clock, pc, job, reply, broken, lists>>

-----------------------------------------------------------------------------
NoParcel == [sender |-> None, status |-> "none"]

\* GenerateTrackingNumber: 0, or the id of the row, and a random suffix.
Number(id, s) == [id |-> id, suffix |-> s]
Placeholder(s) == Number(None, s)

\* What a request for a delivery names, when it began, its placeholder's
\* suffix, and the id of its row once there is one.
Job(p, u, v, s, at, d) ==
  [parcel |-> p, sender |-> u, receiver |-> v, suffix |-> s, at |-> at, id |-> d]
NoJob == Job(None, None, None, None, 0, None)

Row(p, u, v, n, at) == [parcel |-> p, sender |-> u, receiver |-> v, number |-> n, at |-> at]
NoRow == Row(None, None, None, Number(None, None), 0)

HasParcel(p) == parcels[p] # NoParcel
HasRow(d) == rows[d] # NoRow

Init ==
  /\ users = {}
  /\ parcels = [p \in Parcels |-> NoParcel]
  /\ rows = [d \in Deliveries |-> NoRow]
  /\ clock = 0
  /\ pc = [t \in Threads |-> "idle"]
  /\ job = [t \in Threads |-> NoJob]
  /\ reply = [t \in Threads |-> "none"]
  /\ broken = {}
  /\ lists = [r \in Readers |-> [sender |-> None, from |-> 1, begun |-> {}, seen |-> {},
                                 done |-> FALSE]]

\* Thread t answers and is free again.
Answer(t, how) ==
  /\ pc' = [pc EXCEPT ![t] = "idle"]
  /\ job' = [job EXCEPT ![t] = NoJob]
  /\ reply' = [reply EXCEPT ![t] = how]

-----------------------------------------------------------------------------
(* Users and parcels: one statement each.                                  *)

\* RegisterUser.  Any exception but a violated constraint leaves the handler as
\* 500, the row inserted or not.
RegisterUser(t, u, how) ==
  /\ pc[t] = "idle"
  /\ how \in {"created", "failed"}
  /\ u \notin users
  /\ users' = users \cup {u}
  /\ Answer(t, how)
  /\ UNCHANGED <<parcels, rows, clock, broken, lists>>

\* CreateParcel.  A lost answer is reported like a sender who does not exist, a
\* failure to read the parcel back as 500.
CreateParcel(t, p, u, how) ==
  /\ pc[t] = "idle"
  /\ how \in {"created", "failed", "notFound"}
  /\ ~HasParcel(p)
  /\ u \in users
  /\ parcels' = [parcels EXCEPT ![p] = [sender |-> u, status |-> "created"]]
  /\ Answer(t, how)
  /\ UNCHANGED <<users, rows, clock, broken, lists>>

\* Either statement is refused by a constraint or fails: 409, 422, 404 or 500.
RegisterOrHandInFails(t, how) ==
  /\ pc[t] = "idle"
  /\ \/ how = "conflict" /\ users # {}
     \/ how \in {"unprocessable", "notFound", "failed"}
  /\ Answer(t, how)
  /\ UNCHANGED <<users, parcels, rows, clock, broken, lists>>

-----------------------------------------------------------------------------
(* Creating a delivery.                                                    *)

\* The request arrives; a placeholder number is drawn and the inserting
\* transaction begins, which fixes created_at.
BeginCreate(t, p, u, v, s) ==
  /\ pc[t] = "idle"
  /\ pc' = [pc EXCEPT ![t] = "insert"]
  /\ job' = [job EXCEPT ![t] = Job(p, u, v, s, clock, None)]
  /\ reply' = [reply EXCEPT ![t] = "none"]
  /\ UNCHANGED <<users, parcels, rows, clock, broken, lists>>

\* Mutant of MayInsert: no foreign key to parcels.
MayInsertUnchecked(j) ==
  /\ j.sender \in users
  /\ j.receiver \in users
  /\ \A d \in Deliveries : rows[d].number # Placeholder(j.suffix)

\* The foreign keys and UNIQUE (tracking_number).
MayInsert(j) ==
  /\ HasParcel(j.parcel)
  /\ j.sender \in users
  /\ j.receiver \in users
  /\ \A d \in Deliveries : rows[d].number # Placeholder(j.suffix)

\* The statement of step "at" has been executed for row d: its answer reaches
\* the thread, which goes on to "next", or is lost.
ExecutedThen(t, d, next) ==
  \/ /\ pc' = [pc EXCEPT ![t] = next]
     /\ job' = [job EXCEPT ![t].id = d]
     /\ UNCHANGED <<reply, broken>>
  \/ /\ Answer(t, "notFound")
     /\ broken' = broken \cup {d}

InsertRow(t, d) ==
  /\ pc[t] = "insert"
  /\ ~HasRow(d)
  /\ MayInsert(job[t])
  /\ rows' = [rows EXCEPT ![d] = Row(job[t].parcel, job[t].sender, job[t].receiver,
                                     Placeholder(job[t].suffix), job[t].at)]
  /\ ExecutedThen(t, d, "number")
  /\ UNCHANGED <<users, parcels, clock, lists>>

\* Mutant of SetNumber: the final number is not made of the row's id.
SetNumberWithoutId(t, s) ==
  /\ pc[t] = "number"
  /\ rows' = [rows EXCEPT ![job[t].id].number = Placeholder(s)]
  /\ ExecutedThen(t, job[t].id, "assign")
  /\ UNCHANGED <<users, parcels, clock, lists>>

\* Mutant of SetNumber: the parcel is left to somebody else.
SetNumberAndStop(t, s) ==
  /\ pc[t] = "number"
  /\ rows' = [rows EXCEPT ![job[t].id].number = Number(job[t].id, s)]
  /\ ExecutedThen(t, job[t].id, "read")
  /\ UNCHANGED <<users, parcels, clock, lists>>

\* UPDATE deliveries SET tracking_number.  UNIQUE cannot refuse it, for no other
\* row has a number with this id.
SetNumber(t, s) ==
  /\ pc[t] = "number"
  /\ rows' = [rows EXCEPT ![job[t].id].number = Number(job[t].id, s)]
  /\ ExecutedThen(t, job[t].id, "assign")
  /\ UNCHANGED <<users, parcels, clock, lists>>

\* UpdateParcelStatus(parcel, "assigned").
Assign(t) ==
  /\ pc[t] = "assign"
  /\ parcels' = [parcels EXCEPT ![job[t].parcel].status = "assigned"]
  /\ ExecutedThen(t, job[t].id, "read")
  /\ UNCHANGED <<users, rows, clock, lists>>

\* GetDeliveryById for the answer; here an exception is a 500.
ReadBack(t, how) ==
  /\ pc[t] = "read"
  /\ how \in {"created", "failed"}
  /\ Answer(t, how)
  /\ UNCHANGED <<users, parcels, rows, clock, broken, lists>>

\* A statement of the create is refused by a constraint or fails unexecuted:
\* DATA_VIOLATION, answered 404.
StatementFails(t) ==
  /\ pc[t] \in {"insert", "number", "assign"}
  /\ broken' = broken \cup ({job[t].id} \ {None})
  /\ Answer(t, "notFound")
  /\ UNCHANGED <<users, parcels, rows, clock, lists>>

\* The server dies and is started again; the database keeps its rows.
Restart ==
  /\ broken' = broken \cup ({job[t].id : t \in Threads} \ {None})
  /\ pc' = [t \in Threads |-> "idle"]
  /\ job' = [t \in Threads |-> NoJob]
  /\ reply' = [t \in Threads |-> "none"]
  /\ UNCHANGED <<users, parcels, rows, clock, lists>>

-----------------------------------------------------------------------------
(* Lists.                                                                  *)

RowsOf(u) == {d \in Deliveries : HasRow(d) /\ rows[d].sender = u}

\* ORDER BY created_at DESC LIMIT to-from+1 OFFSET from-1.  Rows with one
\* created_at come in any order, another one in every query.
IsPage(page, u, from, to) ==
  /\ page \subseteq RowsOf(u)
  /\ \A at \in {rows[d].at : d \in RowsOf(u)} :
       LET tied == {d \in RowsOf(u) : rows[d].at = at}
           newer == Cardinality({d \in RowsOf(u) : rows[d].at > at})
       IN Cardinality(page \cap tied)
            = Cardinality((newer + 1 .. newer + Cardinality(tied)) \cap (from .. to))

StartReading(r, u) ==
  /\ lists[r].sender = None
  /\ lists' = [lists EXCEPT ![r].sender = u, ![r].begun = RowsOf(u)]
  /\ UNCHANGED <<users, parcels, rows, clock, pc, job, reply, broken>>

\* Mutant of ReadPage: OFFSET is from, not from - 1.
ReadPageOffByOne(r) ==
  LET l == lists[r]
      from == l.from + 1
  IN /\ l.sender # None /\ ~l.done
     /\ \E page \in SUBSET RowsOf(l.sender) :
          /\ IsPage(page, l.sender, from, from + PageSize - 1)
          /\ lists' = [lists EXCEPT ![r] =
               [l EXCEPT !.from = l.from + PageSize, !.seen = l.seen \cup page,
                         !.done = Cardinality(page) < PageSize]]
     /\ UNCHANGED <<users, parcels, rows, clock, pc, job, reply, broken>>

\* GET /deliveries?sender_id=&from=&to= for the page after the last one.
ReadPage(r) ==
  LET l == lists[r]
  IN /\ l.sender # None /\ ~l.done
     /\ \E page \in SUBSET RowsOf(l.sender) :
          /\ IsPage(page, l.sender, l.from, l.from + PageSize - 1)
          /\ lists' = [lists EXCEPT ![r] =
               [l EXCEPT !.from = l.from + PageSize, !.seen = l.seen \cup page,
                         !.done = Cardinality(page) < PageSize]]
     /\ UNCHANGED <<users, parcels, rows, clock, pc, job, reply, broken>>

Tick ==
  /\ clock < MaxTime
  /\ clock' = clock + 1
  /\ UNCHANGED <<users, parcels, rows, pc, job, reply, broken, lists>>

-----------------------------------------------------------------------------
\* The next statement of a create.
Create(t) ==
  \/ \E d \in Deliveries : InsertRow(t, d)
  \/ \E s \in Suffixes : SetNumber(t, s)
  \/ Assign(t)
  \/ \E how \in {"created", "failed"} : ReadBack(t, how)
  \/ StatementFails(t)

Next ==
  \/ \E t \in Threads :
       \/ \E u \in Users, how \in {"created", "failed"} : RegisterUser(t, u, how)
       \/ \E p \in Parcels, u \in Users, how \in {"created", "failed", "notFound"} :
            CreateParcel(t, p, u, how)
       \/ \E how \in {"conflict", "unprocessable", "notFound", "failed"} :
             RegisterOrHandInFails(t, how)
       \/ \E p \in Parcels, u, v \in Users, s \in Suffixes : BeginCreate(t, p, u, v, s)
       \/ Create(t)
  \/ Restart
  \/ \E r \in Readers : (\E u \in Users : StartReading(r, u)) \/ ReadPage(r)
  \/ Tick

Spec == Init /\ [][Next]_vars

\* A statement sent is executed, fails or times out: a create never hangs.
FairSpec == Spec /\ \A t \in Threads : WF_vars(Create(t))

-----------------------------------------------------------------------------
(* Properties                                                              *)

Rows ==
  [parcel : Parcels, sender : Users, receiver : Users,
   number : [id : Deliveries \cup {None}, suffix : Suffixes], at : 0..MaxTime]

Jobs ==
  [parcel : Parcels \cup {None}, sender : Users \cup {None}, receiver : Users \cup {None},
   suffix : Suffixes \cup {None}, at : 0..MaxTime, id : Deliveries \cup {None}]

TypeOK ==
  /\ users \subseteq Users
  /\ parcels \in [Parcels -> [sender : Users, status : {"created", "assigned"}] \cup {NoParcel}]
  /\ rows \in [Deliveries -> Rows \cup {NoRow}]
  /\ clock \in 0..MaxTime
  /\ pc \in [Threads -> {"idle", "insert", "number", "assign", "read"}]
  /\ job \in [Threads -> Jobs]
  /\ reply \in [Threads -> {"none", "created", "conflict", "unprocessable", "notFound", "failed"}]
  /\ broken \subseteq Deliveries
  /\ lists \in [Readers ->
       [sender : Users \cup {None}, from : Nat \ {0}, begun : SUBSET Deliveries,
        seen : SUBSET Deliveries, done : BOOLEAN]]

\* A row that still has its placeholder number, or whose parcel is not marked,
\* belongs to a create that is under way or has broken off: nothing but an
\* exception or a crash leaves half a delivery.
OrphanExplained ==
  \A d \in Deliveries :
    /\ HasRow(d)
    /\ rows[d].number.id = None \/ parcels[rows[d].parcel].status # "assigned"
    => d \in broken \/ \E t \in Threads : job[t].id = d /\ pc[t] \in {"number", "assign"}

\* No two rows share a tracking number, so the UPDATE of SetNumber is never
\* refused by UNIQUE and a search by number has one answer.
TrackingUnique ==
  \A d, e \in Deliveries :
    HasRow(d) /\ HasRow(e) /\ rows[d].number = rows[e].number => d = e

\* A reader who has come to the end of a list has seen every row that was there
\* when it began, whatever was inserted meanwhile, even behind its back by a
\* transaction that began earlier; only rows with equal created_at may be lost.
TraversalIsComplete ==
  \A r \in Readers : lists[r].done =>
    \A d \in lists[r].begun \ lists[r].seen :
      \E e \in RowsOf(lists[r].sender) \ {d} : rows[e].at = rows[d].at

\* What the API says of 404: there is no such parcel or receiver, so the request
\* has created nothing.  (openapi.yaml 237)
NotFoundCreatesNothing ==
  [][\A t \in Threads :
       pc[t] # "idle" /\ reply'[t] = "notFound" => job[t].id = None /\ rows' = rows]_vars

\* Unless it breaks off, a create that has made a row marks the parcel.
CreateIsFinished ==
  \A d \in Deliveries :
    HasRow(d) ~> \/ d \in broken
                 \/ HasRow(d) /\ parcels[rows[d].parcel].status = "assigned"

=============================================================================
