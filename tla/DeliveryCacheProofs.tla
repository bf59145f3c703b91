------------------------- MODULE DeliveryCacheProofs -------------------------
(***************************************************************************)
(* For any number of tasks, users and deliveries, any pages and any TTL: a *)
(* stale page has one of the causes that StaleIsExplained names, pages are *)
(* answers MongoDB has given, they lack nothing for long, and they shrink  *)
(* only by a task that comes late.                                         *)
(***************************************************************************)
EXTENDS DeliveryCache, FiniteSetTheorems, TLAPS

\* A delivery is saved under its tracking number only once it is in MongoDB.
TrackingInv ==
  \A k \in Asked : k.kind = "tracking" =>
    /\ Cached(k) => cache[k].list = {k.owner} /\ k.owner \in Stored
    /\ \A t \in Tasks :
         pc[t] = "save" /\ arg[t] = k => got[t] = {k.owner} /\ k.owner \in Stored

IInv == TypeOK /\ TrackingInv /\ StaleIsExplained

USE SchemaAssumption, TimeAssumption, KeyAssumption

-----------------------------------------------------------------------------
(* Facts about the queries                                                 *)

\* The number of documents is a natural number.
LEMMA StoredCount == Cardinality(Stored) \in Nat
<1>1. IsFiniteSet(Stored)
  BY FS_Subset DEF Stored
<1>. QED
  BY <1>1, FS_CardinalityType

\* A key has one of the three kinds, and an owner of the kind's sort.
LEMMA KeyKinds ==
  ASSUME NEW k \in Asked
  PROVE  /\ k.kind \in {"sender", "receiver", "tracking"}
         /\ k.kind = "tracking" => k.owner \in Deliveries /\ k.page = <<1, 1>>
         /\ \A d \in Deliveries : Matches(k, d) <=>
              \/ k.kind = "sender" /\ k.owner = Sender[d]
              \/ k.kind = "receiver" /\ k.owner = Receiver[d]
              \/ k.kind = "tracking" /\ k.owner = d
  BY DEF SenderKeys, ReceiverKeys, TrackingKeys, Matches

\* A page lists deliveries.
LEMMA ListingType == \A k \in Asked : Listing(k) \subseteq Stored /\ Stored \subseteq Deliveries
  BY DEF Listing, PageOf, Stored

\* What the queries by tracking number return.
TrackingAnswers ==
  \A k \in Asked : k.kind = "tracking" =>
    Listing(k) = IF k.owner \in Stored THEN {k.owner} ELSE {}

\* The query by tracking number finds the delivery if it is there.
LEMMA TrackingListing == TypeOK => TrackingAnswers
<1>. SUFFICES ASSUME TypeOK, NEW k \in Asked, k.kind = "tracking"
              PROVE  Listing(k) = IF k.owner \in Stored THEN {k.owner} ELSE {}
  BY DEF TrackingAnswers
<1>1. \A d \in Deliveries : Matches(k, d) <=> d = k.owner
  BY KeyKinds
<1>2. CASE k.owner \notin Stored
  BY <1>1, <1>2 DEF Listing, PageOf, Stored
<1>3. CASE k.owner \in Stored
  <2>1. {e \in Stored : Matches(k, e) /\ pos[e] <= pos[k.owner]} = {k.owner}
    BY <1>1, <1>3 DEF Stored, TypeOK
  <2>2. Rank(k, Stored, k.owner) = 1
    BY <2>1, FS_Singleton DEF Rank
  <2>3. k.page[1] = 1 /\ k.page[2] = 1
    BY KeyKinds
  <2>4. k.owner \in Listing(k)
    BY <1>1, <1>3, <2>2, <2>3 DEF Listing, PageOf, Stored
  <2>5. \A e \in Listing(k) : e = k.owner
    BY <1>1 DEF Listing, PageOf, Stored
  <2>. QED
    BY <1>3, <2>4, <2>5
<1>. QED
  BY <1>2, <1>3

\* The answer to a query that does not select d is the same after d's insert.
LEMMA OtherListing ==
  ASSUME TypeOK, NEW k \in Asked, NEW d \in Deliveries, ~Matches(k, d), Insertion(d)
  PROVE  Listing(k)' = Listing(k)
<1>1. /\ Cardinality(Stored) + 1 \in Nat /\ Cardinality(Stored) + 1 > 0
      /\ pos' = [pos EXCEPT ![d] = Cardinality(Stored) + 1]
  BY StoredCount DEF Insertion
<1>2. Stored' = Stored \cup {d}
  BY <1>1 DEF TypeOK, Stored
<1>3. \A e \in Deliveries \ {d} : pos'[e] = pos[e]
  BY <1>1 DEF TypeOK
<1>4. ASSUME NEW e \in Stored, e # d
      PROVE  Rank(k, Stored, e)' = Rank(k, Stored, e)
  <2>1. {x \in Stored' : Matches(k, x) /\ pos'[x] <= pos'[e]}
          = {x \in Stored : Matches(k, x) /\ pos[x] <= pos[e]}
    BY <1>2, <1>3, <1>4 DEF Stored
  <2>. QED
    BY <2>1 DEF Rank, Matches
<1>. QED
  BY <1>2, <1>4 DEF Listing, PageOf, Stored, Matches

-----------------------------------------------------------------------------
(* Facts about a step of one task                                          *)

\* The keys a SCAN returns or a task works on are among those asked for.
LEMMA Typed ==
  ASSUME TypeOK, NEW t \in Tasks
  PROVE  /\ pc[t] \in ReadSteps => arg[t] \in Asked /\ got[t] \subseteq Deliveries
         /\ pc[t] \in CreateSteps => arg[t] \in Deliveries /\ got[t] \subseteq Asked
  BY DEF TypeOK

\* Removing keys from Redis leaves a well-typed cache.
LEMMA DropType ==
  ASSUME TypeOK, NEW S
  PROVE  Drop(S) \in [Asked -> Entry]
<1>1. NoEntry \in Entry
  BY DEF NoEntry, Entry
<1>. QED
  BY <1>1 DEF Drop, TypeOK

\* The TTL that a key gets fits an entry and is not zero.
LEMMA TtlType == \A k \in Asked : Ttl(k) \in 1..(SearchTtl + TrackingTtl)
  BY DEF Ttl

\* Time takes a tick from an entry or removes it, and changes nothing else.
LEMMA ExpireType ==
  ASSUME NEW e \in Entry
  PROVE  /\ Expire(e) \in Entry
         /\ Expire(e).ttl > 0 => e.ttl > 0 /\ Expire(e).list = e.list /\ Expire(e).late = e.late
  BY DEF Expire, Entry, NoEntry

\* Every step keeps the types.
LEMMA NextType == TypeOK /\ [Next]_vars => TypeOK'
<1>. SUFFICES ASSUME TypeOK, [Next]_vars PROVE TypeOK'
  OBVIOUS
<1>. USE DEF ReadSteps, CreateSteps, InvalidateSteps
<1>1. ASSUME NEW t \in Tasks, NEW k \in Asked, StartGet(t, k) PROVE TypeOK'
  BY <1>1 DEF TypeOK, StartGet, Begin
<1>2. ASSUME NEW t \in Tasks, NEW d \in Deliveries, StartCreate(t, d) PROVE TypeOK'
  BY <1>2 DEF TypeOK, StartCreate, Begin
<1>3. ASSUME NEW t \in Tasks, GetDeliveries(t) PROVE TypeOK'
  <2>1. CASE CacheHit(t)
    BY <2>1 DEF TypeOK, CacheHit, Finish
  <2>2. CASE CacheMiss(t)
    BY <2>2 DEF TypeOK, CacheMiss, Continue
  <2>3. CASE ReadPage(t)
    BY <2>3, ListingType DEF TypeOK, ReadPage, Continue
  <2>4. CASE ReadTracking(t)
    BY <2>4, ListingType DEF TypeOK, ReadTracking, Continue, Finish
  <2>5. CASE Save(t)
    <3> DEFINE new == [ttl |-> Ttl(arg[t]), list |-> got[t], held |-> wait[t],
                       late |-> got[t] # Listing(arg[t])]
    <3>1. new \in Entry
      BY <2>5, Typed, TtlType DEF Save, Entry, TypeOK
    <3>2. cache' = [cache EXCEPT ![arg[t]] = new]
      BY <2>5 DEF Save
    <3>. HIDE DEF new
    <3>3. cache' \in [Asked -> Entry]
      BY <3>1, <3>2 DEF TypeOK
    <3>. QED
      BY <2>5, <3>3 DEF TypeOK, Save, Finish
  <2>6. CASE ReadThrows(t)
    BY <2>6 DEF TypeOK, ReadThrows, Finish
  <2>. QED
    BY <1>3, <2>1, <2>2, <2>3, <2>4, <2>5, <2>6 DEF GetDeliveries
<1>4. ASSUME NEW t \in Tasks, NEW d \in Deliveries, Insertion(d)
      PROVE  pos' \in [Deliveries -> Nat] /\ age' \in [Deliveries -> 0..MaxAge]
  BY <1>4, StoredCount DEF TypeOK, Insertion, MaxAge
<1>5. ASSUME NEW t \in Tasks, CreateDelivery(t) PROVE TypeOK'
  <2>1. CASE Insert(t)
    BY <2>1, <1>4, Typed DEF TypeOK, Insert, Continue
  <2>2. CASE InsertRefused(t)
    BY <2>2 DEF TypeOK, InsertRefused, Finish
  <2>3. CASE InsertUnconfirmed(t)
    BY <2>3, <1>4, Typed DEF TypeOK, InsertUnconfirmed, Finish
  <2>4. CASE ScanSender(t)
    BY <2>4 DEF TypeOK, ScanSender, Continue
  <2>5. CASE DelSender(t)
    BY <2>5, DropType DEF TypeOK, DelSender, Continue
  <2>6. CASE ScanReceiver(t)
    BY <2>6 DEF TypeOK, ScanReceiver, Continue
  <2>7. CASE DelReceiver(t)
    BY <2>7, DropType DEF TypeOK, DelReceiver, Continue
  <2>8. CASE Reply(t)
    BY <2>8 DEF TypeOK, Reply, Finish
  <2>9. CASE InvalidateThrows(t)
    BY <2>9, DropType DEF TypeOK, InvalidateThrows, Finish
  <2>10. CASE ReplyThrows(t)
    BY <2>10 DEF TypeOK, ReplyThrows, Finish
  <2>. QED
    BY <1>5, <2>1, <2>2, <2>3, <2>4, <2>5, <2>6, <2>7, <2>8, <2>9, <2>10 DEF CreateDelivery
<1>6. CASE Crash
  BY <1>6 DEF TypeOK, Crash
<1>7. CASE Tick
  <2>1. cache' \in [Asked -> Entry]
    BY <1>7, ExpireType DEF Tick, TypeOK
  <2>2. wait' \in [Tasks -> 0..MaxHold] /\ age' \in [Deliveries -> 0..MaxAge]
    BY <1>7 DEF Tick, TypeOK, MaxAge
  <2>. QED
    BY <1>7, <2>1, <2>2 DEF Tick, TypeOK
<1>8. CASE UNCHANGED vars
  BY <1>8 DEF TypeOK, vars
<1>. QED
  BY <1>1, <1>2, <1>3, <1>5, <1>6, <1>7, <1>8 DEF Next

\* An insert only adds to what is stored.
LEMMA StoredGrows ==
  ASSUME TypeOK, NEW d \in Deliveries, UNCHANGED pos \/ Insertion(d)
  PROVE  Stored \subseteq Stored'
  BY StoredCount DEF Insertion, Stored, TypeOK

\* Every step keeps what is said of tracking numbers.
LEMMA NextTracking == IInv /\ [Next]_vars => TrackingInv'
<1>. SUFFICES ASSUME IInv, [Next]_vars,
                     NEW k \in Asked, k.kind = "tracking"
              PROVE  /\ Cached(k)' => cache'[k].list = {k.owner} /\ k.owner \in Stored'
                     /\ \A t \in Tasks : pc'[t] = "save" /\ arg'[t] = k
                          => got'[t] = {k.owner} /\ k.owner \in Stored'
  BY DEF TrackingInv
<1>0. /\ Cached(k) => cache[k].list = {k.owner} /\ k.owner \in Stored
      /\ \A t \in Tasks : pc[t] = "save" /\ arg[t] = k
           => got[t] = {k.owner} /\ k.owner \in Stored
      /\ TypeOK
  BY DEF IInv, TrackingInv
<1> DEFINE Goal == /\ Cached(k)' => cache'[k].list = {k.owner} /\ k.owner \in Stored'
                   /\ \A t \in Tasks : pc'[t] = "save" /\ arg'[t] = k
                        => got'[t] = {k.owner} /\ k.owner \in Stored'
\* Steps that leave the cache alone, or remove from it, and save nothing new.
<1>1. ASSUME Stored \subseteq Stored',
             \A q \in Asked : cache'[q] = cache[q] \/ ~Cached(q)'
                                \/ (Cached(q) /\ cache'[q].list = cache[q].list),
             \A t \in Tasks : pc'[t] = "save" =>
               pc[t] = "save" /\ arg'[t] = arg[t] /\ got'[t] = got[t]
      PROVE  Goal
  BY <1>0, <1>1 DEF Cached
<1>. HIDE DEF Goal
<1>. USE DEF ReadSteps, CreateSteps, InvalidateSteps
<1>2. ASSUME UNCHANGED pos PROVE Stored \subseteq Stored'
  BY <1>2 DEF Stored
<1>3. ASSUME NEW t \in Tasks, NEW q \in Asked, StartGet(t, q) PROVE Goal
  BY <1>0, <1>1, <1>2, <1>3 DEF StartGet, Begin, TypeOK
<1>4. ASSUME NEW t \in Tasks, NEW d \in Deliveries, StartCreate(t, d) PROVE Goal
  BY <1>0, <1>1, <1>2, <1>4 DEF StartCreate, Begin, TypeOK
<1>5. ASSUME NEW t \in Tasks, GetDeliveries(t) PROVE Goal
  <2>1. CASE CacheHit(t)
    BY <1>0, <1>1, <1>2, <2>1 DEF CacheHit, Finish, TypeOK
  <2>2. CASE CacheMiss(t)
    BY <1>0, <1>1, <1>2, <2>2 DEF CacheMiss, Continue, TypeOK
  <2>3. CASE ReadPage(t)
    BY <1>0, <1>2, <2>3 DEF ReadPage, Continue, TypeOK, Goal, Cached
  <2>4. CASE ReadTracking(t)
    <3>1. CASE Listing(arg[t]) = {}
      BY <1>0, <1>1, <1>2, <2>4, <3>1 DEF ReadTracking, Finish, TypeOK
    <3>2. CASE Listing(arg[t]) # {}
      <4>1. arg[t] = k => Listing(k) = {k.owner} /\ k.owner \in Stored
        BY <1>0, <3>2, TrackingListing DEF TrackingAnswers
      <4>. QED
        BY <1>0, <1>2, <2>4, <3>2, <4>1 DEF ReadTracking, Continue, TypeOK, Goal, Cached
    <3>. QED
      BY <3>1, <3>2
  <2>5. CASE Save(t)
    <3>1. arg[t] \in Asked /\ pc[t] = "save"
      BY <1>0, <2>5 DEF Save, TypeOK
    <3>2. \A q \in Asked : q # arg[t] => cache'[q] = cache[q]
      BY <1>0, <2>5, <3>1 DEF Save, TypeOK
    <3>3. cache'[arg[t]].list = got[t]
      BY <1>0, <2>5, <3>1 DEF Save, TypeOK
    <3>4. \A u \in Tasks : pc'[u] = "save" =>
            pc[u] = "save" /\ arg'[u] = arg[u] /\ got'[u] = got[u]
      BY <1>0, <2>5 DEF Save, Finish, TypeOK
    <3>5. Stored \subseteq Stored'
      BY <1>2, <2>5 DEF Save
    <3>6. CASE arg[t] # k
      BY <1>0, <3>2, <3>4, <3>5, <3>6 DEF Goal, Cached
    <3>7. CASE arg[t] = k
      BY <1>0, <3>1, <3>3, <3>4, <3>5, <3>7 DEF Goal
    <3>. QED
      BY <3>6, <3>7
  <2>6. CASE ReadThrows(t)
    BY <1>0, <1>1, <1>2, <2>6 DEF ReadThrows, Finish, TypeOK
  <2>. QED
    BY <1>5, <2>1, <2>2, <2>3, <2>4, <2>5, <2>6 DEF GetDeliveries
<1>6. ASSUME NEW t \in Tasks, CreateDelivery(t) PROVE Goal
  <2>1. \A q \in Asked : cache'[q] = cache[q] \/ ~Cached(q)'
    BY <1>0, <1>6 DEF CreateDelivery, Insert, InsertRefused, InsertUnconfirmed,
      ScanSender, DelSender, ScanReceiver, DelReceiver, Reply, InvalidateThrows,
      ReplyThrows, Drop, Cached, NoEntry
  <2>2. \A u \in Tasks : pc'[u] = "save" =>
          pc[u] = "save" /\ arg'[u] = arg[u] /\ got'[u] = got[u]
    BY <1>0, <1>6 DEF CreateDelivery, Insert, InsertRefused, InsertUnconfirmed,
      ScanSender, DelSender, ScanReceiver, DelReceiver, Reply, InvalidateThrows,
      ReplyThrows, Continue, Finish, TypeOK
  <2>3. pc[t] \in CreateSteps
    BY <1>6 DEF CreateDelivery, Insert, InsertRefused, InsertUnconfirmed,
      ScanSender, DelSender, ScanReceiver, DelReceiver, Reply, InvalidateThrows,
      ReplyThrows
  <2>4. arg[t] \in Deliveries
    BY <1>0, <2>3, Typed
  <2>5. UNCHANGED pos \/ Insertion(arg[t])
    BY <1>6 DEF CreateDelivery, Insert, InsertRefused, InsertUnconfirmed,
      ScanSender, DelSender, ScanReceiver, DelReceiver, Reply, InvalidateThrows,
      ReplyThrows
  <2>6. Stored \subseteq Stored'
    BY <1>0, <2>4, <2>5, StoredGrows
  <2>. QED
    BY <1>1, <2>1, <2>2, <2>6
<1>7. CASE Crash
  BY <1>0, <1>1, <1>2, <1>7 DEF Crash, Goal
<1>8. CASE Tick
  <2>1. \A q \in Asked : ~Cached(q)' \/ (Cached(q) /\ cache'[q].list = cache[q].list)
    BY <1>0, <1>8, ExpireType DEF Tick, TypeOK, Cached
  <2>. QED
    BY <1>1, <1>2, <1>8, <2>1 DEF Tick, Goal
<1>9. CASE UNCHANGED vars
  BY <1>1, <1>2, <1>9 DEF vars, Goal
<1>. QED
  BY <1>3, <1>4, <1>5, <1>6, <1>7, <1>8, <1>9 DEF Next, Goal

-----------------------------------------------------------------------------
(* Stale pages                                                             *)

\* A key of one kind is not of another, so a delivery that matches it does so
\* by the owner of that kind.
LEMMA MatchingOwner ==
  ASSUME NEW k \in Asked, NEW d \in Deliveries, Matches(k, d)
  PROVE  /\ k.kind = "sender" => k.owner = Sender[d]
         /\ k.kind = "receiver" => k.owner = Receiver[d]
  BY DEF Matches

\* A step that inserts nothing explains every stale page if no new page is stale
\* without being late, and no create in progress drops a plan to remove a page
\* without the page being gone or the create being abandoned.
LEMMA KeepsExplained ==
  ASSUME StaleIsExplained, UNCHANGED pos, abandoned \subseteq abandoned',
         \A k \in Asked : Cached(k)' =>
           \/ Cached(k) /\ cache'[k].list = cache[k].list /\ cache'[k].late = cache[k].late
           \/ cache'[k].late
           \/ cache'[k].list = Listing(k),
         \A t \in Tasks, d \in Deliveries, k \in Asked :
           Cached(k) /\ Cached(k)' /\ Matches(k, d) /\ WillDrop(t, d, k) =>
             d \in abandoned' \/ WillDrop(t, d, k)'
  PROVE  StaleIsExplained'
<1>. SUFFICES ASSUME NEW k \in Asked, Stale(k)', ~cache'[k].late
              PROVE  \E d \in Stored' : Matches(k, d)' /\
                       (d \in abandoned' \/ \E t \in Tasks : WillDrop(t, d, k)')
  BY DEF StaleIsExplained
<1>1. Stored' = Stored /\ Listing(k)' = Listing(k)
  BY DEF Stored, Listing, PageOf, Rank, Matches
<1>2. Cached(k) /\ Cached(k)' /\ Stale(k) /\ ~cache[k].late
  BY <1>1 DEF Stale
<1>3. PICK d \in Stored : Matches(k, d) /\
        (d \in abandoned \/ \E t \in Tasks : WillDrop(t, d, k))
  BY <1>2 DEF StaleIsExplained
<1>4. d \in Deliveries /\ Matches(k, d)'
  BY <1>3 DEF Stored, Matches
<1>. QED
  BY <1>1, <1>2, <1>3, <1>4

\* An insert explains the pages it makes stale: its task is going to remove them
\* or the create is abandoned.
LEMMA InsertExplained ==
  ASSUME IInv, TrackingInv', NEW t \in Tasks, Insert(t) \/ InsertUnconfirmed(t)
  PROVE  StaleIsExplained'
<1>0. PICK d \in Deliveries : d = arg[t]
  BY Typed DEF IInv, Insert, InsertUnconfirmed, CreateSteps
<1>1. Insertion(d) /\ UNCHANGED cache /\ pc[t] = "insert"
      /\ abandoned \subseteq abandoned'
  BY <1>0 DEF Insert, InsertUnconfirmed
<1>2. \/ d \in abandoned'
      \/ arg'[t] = d /\ pc'[t] = "scanSender"
  BY <1>0 DEF IInv, TypeOK, Insert, InsertUnconfirmed, Continue
<1>3. \A u \in Tasks : u # t => pc'[u] = pc[u] /\ arg'[u] = arg[u] /\ got'[u] = got[u]
  BY DEF IInv, TypeOK, Insert, InsertUnconfirmed, Continue, Finish
<1>4. d \in Stored' /\ Stored \subseteq Stored'
  <2>1. pos'[d] = Cardinality(Stored) + 1
    BY <1>1 DEF IInv, TypeOK, Insertion
  <2>2. d \in Stored'
    BY <2>1, StoredCount DEF Stored
  <2>. QED
    BY <1>1, <2>2, StoredGrows DEF IInv
<1>. SUFFICES ASSUME NEW k \in Asked, Stale(k)', ~cache'[k].late
              PROVE  \E e \in Stored' : Matches(k, e)' /\
                       (e \in abandoned' \/ \E u \in Tasks : WillDrop(u, e, k)')
  BY DEF StaleIsExplained
<1>5. CASE Matches(k, d)
  <2>1. k.kind # "tracking"
    <3>. SUFFICES ASSUME k.kind = "tracking" PROVE FALSE
      OBVIOUS
    <3>1. TypeOK'
      BY NextType DEF IInv, Next, CreateDelivery
    <3>2. TrackingAnswers'
      BY <3>1, TrackingListing, PTL
    <3>3. Listing(k)' = IF k.owner \in Stored' THEN {k.owner} ELSE {}
      BY <3>2 DEF TrackingAnswers
    <3>. QED
      BY <3>3 DEF TrackingInv, Stale
  <2>2. k.kind \in {"sender", "receiver"}
    BY <2>1, KeyKinds
  <2>3. d \in abandoned' \/ WillDrop(t, d, k)'
    BY <1>2, <2>2 DEF WillDrop
  <2>4. Matches(k, d)'
    BY <1>5 DEF Matches
  <2>. QED
    BY <1>4, <2>3, <2>4
<1>6. CASE ~Matches(k, d)
  <2>1. Listing(k)' = Listing(k)
    BY <1>1, <1>6, OtherListing DEF IInv
  <2>2. Stale(k) /\ ~cache[k].late
    BY <1>1, <2>1 DEF Stale, Cached
  <2>3. PICK e \in Stored : Matches(k, e) /\
          (e \in abandoned \/ \E u \in Tasks : WillDrop(u, e, k))
    BY <2>2 DEF IInv, StaleIsExplained
  <2>4. \A u \in Tasks : WillDrop(u, e, k) => WillDrop(u, e, k)'
    BY <1>1, <1>3 DEF WillDrop
  <2>5. Matches(k, e)'
    BY <2>3 DEF Matches
  <2>. QED
    BY <1>1, <1>4, <2>3, <2>4, <2>5
<1>. QED
  BY <1>5, <1>6

\* The step of a reader explains every stale page: only Save writes a page, and
\* marks it late when it is out of date.
LEMMA ReadExplained ==
  ASSUME IInv, NEW t \in Tasks, GetDeliveries(t)
  PROVE  StaleIsExplained'
<1>. USE DEF ReadSteps, CreateSteps, InvalidateSteps
<1>1. pc[t] \in ReadSteps /\ UNCHANGED <<pos, abandoned>>
  BY DEF GetDeliveries, CacheHit, CacheMiss, ReadPage, ReadTracking, Save, ReadThrows
<1>2. \A u \in Tasks : u # t => pc'[u] = pc[u] /\ arg'[u] = arg[u] /\ got'[u] = got[u]
  BY DEF GetDeliveries, CacheHit, CacheMiss, ReadPage, ReadTracking, Save, ReadThrows,
    Continue, Finish, IInv, TypeOK
<1>3. ASSUME NEW u \in Tasks, NEW d \in Deliveries, NEW k \in Asked, WillDrop(u, d, k)
      PROVE  WillDrop(u, d, k)'
  BY <1>1, <1>2, <1>3 DEF WillDrop
<1>4. ASSUME NEW k \in Asked, Cached(k)'
      PROVE  \/ Cached(k) /\ cache'[k].list = cache[k].list /\ cache'[k].late = cache[k].late
             \/ cache'[k].late
             \/ cache'[k].list = Listing(k)
  <2>1. CASE Save(t)
    <3>1. arg[t] \in Asked
      BY <2>1, Typed DEF IInv, Save
    <3>2. CASE k # arg[t]
      BY <1>4, <2>1, <3>1, <3>2 DEF Save, Cached, IInv, TypeOK
    <3>3. CASE k = arg[t]
      BY <2>1, <3>1, <3>3 DEF Save, IInv, TypeOK
    <3>. QED
      BY <3>2, <3>3
  <2>2. CASE UNCHANGED cache
    BY <1>4, <2>2 DEF Cached
  <2>. QED
    BY <2>1, <2>2 DEF GetDeliveries, CacheHit, CacheMiss, ReadPage, ReadTracking, ReadThrows
<1>. QED
  BY <1>1, <1>3, <1>4, KeepsExplained DEF IInv

\* The steps of a create after its insert explain every stale page: what a SCAN
\* has not found is not in the cache, and what it has found the DEL removes.
LEMMA InvalidateExplained ==
  ASSUME IInv, NEW t \in Tasks, CreateDelivery(t), ~Insert(t), ~InsertUnconfirmed(t)
  PROVE  StaleIsExplained'
<1>. USE DEF ReadSteps, CreateSteps, InvalidateSteps
<1>1. pc[t] \in CreateSteps /\ UNCHANGED pos /\ abandoned \subseteq abandoned'
  BY DEF CreateDelivery, InsertRefused, ScanSender, DelSender, ScanReceiver, DelReceiver,
    Reply, InvalidateThrows, ReplyThrows
<1>2. \A u \in Tasks : u # t => pc'[u] = pc[u] /\ arg'[u] = arg[u] /\ got'[u] = got[u]
  BY DEF CreateDelivery, InsertRefused, ScanSender, DelSender, ScanReceiver, DelReceiver,
    Reply, InvalidateThrows, ReplyThrows, Continue, Finish, IInv, TypeOK
<1>3. \A k \in Asked : Cached(k)' =>
        /\ Cached(k)
        /\ cache'[k].list = cache[k].list /\ cache'[k].late = cache[k].late
  BY DEF CreateDelivery, InsertRefused, ScanSender, DelSender, ScanReceiver, DelReceiver,
    Reply, InvalidateThrows, ReplyThrows, Drop, Cached, NoEntry
<1>4. ASSUME NEW d \in Deliveries, NEW k \in Asked,
             Cached(k), Cached(k)', Matches(k, d), WillDrop(t, d, k)
      PROVE  d \in abandoned' \/ WillDrop(t, d, k)'
  <2>0. /\ k.kind \in {"sender", "receiver"} /\ arg[t] = d
        /\ k.kind = "sender" => k.owner = Sender[d]
        /\ k.kind = "receiver" => k.owner = Receiver[d]
    BY <1>4, MatchingOwner DEF WillDrop
  <2>1. CASE ScanSender(t)
    BY <1>4, <2>0, <2>1 DEF ScanSender, Continue, WillDrop, IInv, TypeOK
  <2>2. CASE DelSender(t)
    <3>1. k \notin got[t]
      BY <1>4, <2>2 DEF DelSender, Drop, NoEntry, Cached
    <3>. QED
      BY <1>4, <2>0, <2>2, <3>1 DEF DelSender, Continue, WillDrop, IInv, TypeOK
  <2>3. CASE ScanReceiver(t)
    BY <1>4, <2>0, <2>3 DEF ScanReceiver, Continue, WillDrop, IInv, TypeOK
  <2>4. CASE DelReceiver(t)
    <3>1. k \notin got[t]
      BY <1>4, <2>4 DEF DelReceiver, Drop, NoEntry, Cached
    <3>. QED
      BY <1>4, <2>0, <2>4, <3>1 DEF DelReceiver, WillDrop
  <2>5. CASE InvalidateThrows(t)
    BY <2>0, <2>5 DEF InvalidateThrows
  <2>6. CASE InsertRefused(t) \/ Reply(t) \/ ReplyThrows(t)
    BY <1>4, <2>6 DEF InsertRefused, Reply, ReplyThrows, WillDrop
  <2>. QED
    BY <2>1, <2>2, <2>3, <2>4, <2>5, <2>6 DEF CreateDelivery
<1>5. ASSUME NEW u \in Tasks, NEW d \in Deliveries, NEW k \in Asked,
             u # t, WillDrop(u, d, k)
      PROVE  WillDrop(u, d, k)'
  BY <1>2, <1>5 DEF WillDrop
<1>. QED
  BY <1>1, <1>3, <1>4, <1>5, KeepsExplained DEF IInv

\* A crash ends every create, which counts as abandoned if it had inserted.
LEMMA CrashExplained ==
  ASSUME IInv, Crash
  PROVE  StaleIsExplained'
<1>1. \A u \in Tasks, d \in Deliveries, k \in Asked : WillDrop(u, d, k) => d \in abandoned'
  BY DEF Crash, WillDrop, InvalidateSteps
<1>2. UNCHANGED <<pos, cache>> /\ abandoned \subseteq abandoned'
  BY DEF Crash
<1>3. \A k \in Asked : Cached(k)' = Cached(k) /\ cache'[k] = cache[k]
  BY <1>2 DEF Cached
<1>. QED
  BY <1>1, <1>2, <1>3, KeepsExplained DEF IInv

\* Time only removes pages.
LEMMA TickExplained ==
  ASSUME IInv, Tick
  PROVE  StaleIsExplained'
<1>1. \A k \in Asked : Cached(k)' =>
        Cached(k) /\ cache'[k].list = cache[k].list /\ cache'[k].late = cache[k].late
  BY ExpireType DEF IInv, TypeOK, Tick, Cached
<1>2. \A u \in Tasks, d \in Deliveries, k \in Asked : WillDrop(u, d, k) => WillDrop(u, d, k)'
  BY DEF Tick, WillDrop
<1>. QED
  BY <1>1, <1>2, KeepsExplained DEF IInv, Tick

\* Accepting a request touches neither the cache nor the creates in progress.
LEMMA StartExplained ==
  ASSUME IInv, NEW t \in Tasks, NEW first \in {"get", "insert"}, NEW a, Begin(t, first, a)
  PROVE  StaleIsExplained'
<1>1. \A k \in Asked : Cached(k)' = Cached(k) /\ cache'[k] = cache[k]
  BY DEF Begin, Cached
<1>2. ASSUME NEW u \in Tasks, NEW d \in Deliveries, NEW k \in Asked, WillDrop(u, d, k)
      PROVE  WillDrop(u, d, k)'
  <2>1. u # t
    BY <1>2 DEF Begin, WillDrop
  <2>. QED
    BY <1>2, <2>1 DEF Begin, WillDrop, IInv, TypeOK
<1>. QED
  BY <1>1, <1>2, KeepsExplained DEF IInv, Begin

\* The inductive invariant holds at the start: nothing is cached.
LEMMA InitIInv == Init => IInv
  BY DEF Init, IInv, TypeOK, TrackingInv, StaleIsExplained, Stale, Cached, Entry, NoEntry,
    ReadSteps, CreateSteps, InvalidateSteps, MaxAge

\* The inductive invariant is kept by every step.
LEMMA NextIInv == IInv /\ [Next]_vars => IInv'
<1>. SUFFICES ASSUME IInv, [Next]_vars PROVE IInv'
  OBVIOUS
<1>0. TypeOK' /\ TrackingInv'
  BY NextType, NextTracking DEF IInv
<1>1. ASSUME NEW t \in Tasks, NEW k \in Asked, StartGet(t, k) PROVE StaleIsExplained'
  BY <1>1, StartExplained DEF StartGet
<1>2. ASSUME NEW t \in Tasks, NEW d \in Deliveries, StartCreate(t, d) PROVE StaleIsExplained'
  BY <1>2, StartExplained DEF StartCreate
<1>3. ASSUME NEW t \in Tasks, CreateDelivery(t) PROVE StaleIsExplained'
  BY <1>0, <1>3, InsertExplained, InvalidateExplained
<1>4. CASE UNCHANGED vars
  <2>1. \A k \in Asked : Cached(k)' = Cached(k) /\ cache'[k] = cache[k]
    BY <1>4 DEF vars, Cached
  <2>2. \A u \in Tasks, d \in Deliveries, k \in Asked :
          WillDrop(u, d, k) => WillDrop(u, d, k)'
    BY <1>4 DEF vars, WillDrop
  <2>3. UNCHANGED <<pos, abandoned>>
    BY <1>4 DEF vars
  <2>. QED
    BY <1>0, <2>1, <2>2, <2>3, KeepsExplained DEF IInv
<1>. QED
  BY <1>0, <1>1, <1>2, <1>3, <1>4, ReadExplained, CrashExplained, TickExplained
  DEF Next, IInv

\* The inductive invariant holds in every reachable state.
THEOREM Invariance == Spec => []IInv
  BY InitIInv, NextIInv, PTL DEF Spec

\* The variables of the cache model keep their types.
THEOREM TypeCorrect == Spec => []TypeOK
<1>1. IInv => TypeOK
  BY DEF IInv
<1>. QED
  BY <1>1, Invariance, PTL

\* Every stale page was saved late, belongs to a create that broke off, or is
\* about to be removed by a create in progress.
THEOREM StaleSafety == Spec => []StaleIsExplained
<1>1. IInv => StaleIsExplained
  BY DEF IInv
<1>. QED
  BY <1>1, Invariance, PTL

-----------------------------------------------------------------------------
(* Pages are answers that were true, and they grow                         *)

\* Places are given out in order, and a delivery gets one once.
PlacesInv ==
  /\ \A d \in Stored : pos[d] <= Cardinality(Stored)
  /\ \A t \in Tasks : pc[t] = "insert" => pos[arg[t]] = 0
  /\ \A t, u \in Tasks : pc[t] = "insert" /\ pc[u] = "insert" /\ arg[t] = arg[u] => t = u

\* The answers MongoDB has given to the query behind k so far.
Answers(k) ==
  {PageOf(k, {d \in Stored : pos[d] <= n}) : n \in 0..Cardinality(Stored)}

\* A page, in the cache or with a reader, is one of these answers, and what it
\* lacks was inserted after it was read.
PagesInv ==
  \A k \in Asked :
    /\ Cached(k) =>
         /\ cache[k].ttl <= Ttl(k)
         /\ cache[k].list \in Answers(k)
         /\ cache[k].list \subseteq Listing(k)
         /\ \A d \in Listing(k) \ cache[k].list :
              age[d] <= Ttl(k) - cache[k].ttl + cache[k].held
    /\ \A t \in Tasks : pc[t] = "save" /\ arg[t] = k =>
         /\ got[t] \in Answers(k)
         /\ got[t] \subseteq Listing(k)
         /\ \A d \in Listing(k) \ got[t] : age[d] <= wait[t]

PInv == TypeOK /\ PlacesInv /\ PagesInv

\* What an insert does to the places: the new delivery has the last one.
LEMMA InsertionPlaces ==
  ASSUME TypeOK, PlacesInv, NEW d \in Deliveries, pos[d] = 0, Insertion(d)
  PROVE  /\ Stored' = Stored \cup {d} /\ d \notin Stored
         /\ Cardinality(Stored') = Cardinality(Stored) + 1
         /\ pos'[d] = Cardinality(Stored) + 1
         /\ \A e \in Deliveries \ {d} : pos'[e] = pos[e]
<1>1. /\ Cardinality(Stored) \in Nat
      /\ pos' = [pos EXCEPT ![d] = Cardinality(Stored) + 1]
  BY StoredCount DEF Insertion
<1>2. Stored' = Stored \cup {d} /\ d \notin Stored
  <2>1. pos'[d] > 0 /\ \A e \in Deliveries \ {d} : pos'[e] = pos[e]
    BY <1>1 DEF TypeOK
  <2>. QED
    BY <2>1 DEF Stored
<1>3. IsFiniteSet(Stored)
  BY FS_Subset DEF Stored
<1>4. Cardinality(Stored \cup {d}) = Cardinality(Stored) + 1
  BY <1>2, <1>3, FS_AddElement
<1>. QED
  BY <1>1, <1>2, <1>4 DEF TypeOK

\* An insert lengthens the lists it belongs to at their end: no page loses a
\* delivery, none gains another one than d, and old answers stay answers.
LEMMA ListingGrows ==
  ASSUME TypeOK, PlacesInv, NEW k \in Asked,
         NEW d \in Deliveries, pos[d] = 0, Insertion(d)
  PROVE  /\ Listing(k) \subseteq Listing(k)'
         /\ Listing(k)' \subseteq Listing(k) \cup {d}
         /\ Answers(k) \subseteq Answers(k)'
<1>1. /\ Stored' = Stored \cup {d} /\ d \notin Stored
      /\ Cardinality(Stored') = Cardinality(Stored) + 1
      /\ pos'[d] = Cardinality(Stored) + 1
      /\ \A e \in Stored : pos'[e] = pos[e] /\ pos[e] \in Nat /\ pos[e] <= Cardinality(Stored)
  BY InsertionPlaces DEF TypeOK, PlacesInv, Stored
<1>2. Cardinality(Stored) \in Nat
  BY StoredCount
<1>3. ASSUME NEW x \in Stored
      PROVE  {e \in Stored' : Matches(k, e)' /\ pos'[e] <= pos'[x]}
               = {e \in Stored : Matches(k, e) /\ pos[e] <= pos[x]}
  BY <1>1, <1>2, <1>3 DEF Matches
<1>4. \A x \in Stored : x \in Listing(k)' <=> x \in Listing(k)
  BY <1>1, <1>3 DEF Listing, PageOf, Rank, Matches
<1>5. Listing(k)' \subseteq Stored'
  BY DEF Listing, PageOf
<1>6. ASSUME NEW n \in 0..Cardinality(Stored)
      PROVE  PageOf(k, {e \in Stored : pos[e] <= n})
               = PageOf(k, {e \in Stored : pos[e] <= n})'
  <2> DEFINE S == {e \in Stored : pos[e] <= n}
  <2>1. S' = S /\ S \subseteq Stored
    BY <1>1, <1>2
  <2>2. ASSUME NEW x \in S
        PROVE  {e \in S' : Matches(k, e)' /\ pos'[e] <= pos'[x]}
                 = {e \in S : Matches(k, e) /\ pos[e] <= pos[x]}
    <3> HIDE DEF S
    <3>. QED
      BY <1>1, <2>1, <2>2 DEF Matches
  <2>. HIDE DEF S
  <2>3. PageOf(k, S) = PageOf(k, S)'
    BY <2>1, <2>2 DEF PageOf, Rank, Matches
  <2>. QED
    BY <2>3 DEF S
<1>7. Answers(k) \subseteq Answers(k)'
  <2>1. ASSUME NEW n \in 0..Cardinality(Stored')
        PROVE  PageOf(k, {e \in Stored : pos[e] <= n})' \in Answers(k)'
    BY <2>1 DEF Answers
  <2>2. 0..Cardinality(Stored) \subseteq 0..Cardinality(Stored')
    BY <1>1, <1>2
  <2>3. ASSUME NEW n \in 0..Cardinality(Stored)
        PROVE  PageOf(k, {e \in Stored : pos[e] <= n}) \in Answers(k)'
    BY <1>6, <2>1, <2>2
  <2>. QED
    BY <2>3 DEF Answers
<1>. QED
  BY <1>1, <1>4, <1>5, <1>7, ListingType

\* Without an insert the answers stay.
LEMMA AnswersStay ==
  ASSUME UNCHANGED pos, NEW k \in Asked
  PROVE  Listing(k)' = Listing(k) /\ Answers(k)' = Answers(k) /\ Stored' = Stored
  BY DEF Answers, Listing, PageOf, Rank, Matches, Stored

\* The answer of this moment is one of the answers.
LEMMA ListingIsAnswer ==
  ASSUME PlacesInv, NEW k \in Asked
  PROVE  Listing(k) \in Answers(k)
<1>1. Stored = {d \in Stored : pos[d] <= Cardinality(Stored)}
  BY DEF PlacesInv
<1>2. Cardinality(Stored) \in 0..Cardinality(Stored)
  BY StoredCount
<1>. QED
  BY <1>1, <1>2 DEF Answers, Listing

\* The create run by t is the only one of its delivery, which has no place yet.
LEMMA InsertFacts ==
  ASSUME PInv, NEW t \in Tasks, Insert(t) \/ InsertUnconfirmed(t)
  PROVE  \E d \in Deliveries :
           /\ arg[t] = d /\ pos[d] = 0 /\ Insertion(d) /\ UNCHANGED cache
           /\ pc'[t] \notin {"insert", "save"}
           /\ \A u \in Tasks \ {t} : /\ pc'[u] = pc[u] /\ arg'[u] = arg[u]
                                     /\ got'[u] = got[u] /\ wait'[u] = wait[u]
                                     /\ pc[u] = "insert" => arg[u] # d
<1>1. pc[t] = "insert" /\ arg[t] \in Deliveries /\ pos[arg[t]] = 0
  BY Typed DEF PInv, PlacesInv, Insert, InsertUnconfirmed, CreateSteps
<1>2. Insertion(arg[t]) /\ UNCHANGED cache
  BY DEF Insert, InsertUnconfirmed
<1>3. /\ pc'[t] \notin {"insert", "save"}
      /\ \A u \in Tasks \ {t} : /\ pc'[u] = pc[u] /\ arg'[u] = arg[u]
                                /\ got'[u] = got[u] /\ wait'[u] = wait[u]
  BY DEF PInv, TypeOK, Insert, InsertUnconfirmed, Continue, Finish
<1>4. \A u \in Tasks \ {t} : pc[u] = "insert" => arg[u] # arg[t]
  BY <1>1 DEF PInv, PlacesInv
<1>. QED
  BY <1>1, <1>2, <1>3, <1>4

\* A step that inserts nothing and starts no create keeps the places.
LEMMA KeepsPlaces ==
  ASSUME PlacesInv, UNCHANGED pos,
         \A t \in Tasks : pc'[t] = "insert" => pc[t] = "insert" /\ arg'[t] = arg[t]
  PROVE  PlacesInv'
<1>1. Stored' = Stored
  BY DEF Stored
<1>. QED
  BY <1>1 DEF PlacesInv

\* The places after an insert.
LEMMA InsertPlaces ==
  ASSUME PInv, NEW t \in Tasks, Insert(t) \/ InsertUnconfirmed(t)
  PROVE  PlacesInv'
<1>1. PICK d \in Deliveries :
        /\ arg[t] = d /\ pos[d] = 0 /\ Insertion(d)
        /\ pc'[t] # "insert"
        /\ \A u \in Tasks \ {t} : /\ pc'[u] = pc[u] /\ arg'[u] = arg[u]
                                  /\ pc[u] = "insert" => arg[u] # d
  BY InsertFacts
<1>2. /\ Stored' = Stored \cup {d} /\ d \notin Stored
      /\ Cardinality(Stored') = Cardinality(Stored) + 1
      /\ pos'[d] = Cardinality(Stored) + 1
      /\ \A e \in Deliveries \ {d} : pos'[e] = pos[e]
  BY <1>1, InsertionPlaces DEF PInv
<1>3. \A e \in Stored : pos[e] <= Cardinality(Stored) /\ pos[e] \in Nat /\ e \in Deliveries
  BY DEF PInv, PlacesInv, TypeOK, Stored
<1>4. \A e \in Stored' : pos'[e] <= Cardinality(Stored')
  BY <1>2, <1>3, StoredCount
<1>5. ASSUME NEW u \in Tasks, pc'[u] = "insert"
      PROVE  pc[u] = "insert" /\ arg'[u] = arg[u] /\ pos'[arg'[u]] = 0
  <2>1. u # t /\ pc[u] = "insert" /\ arg'[u] = arg[u] /\ arg[u] # d
    BY <1>1, <1>5
  <2>2. arg[u] \in Deliveries /\ pos[arg[u]] = 0
    BY <2>1, Typed DEF PInv, PlacesInv, CreateSteps
  <2>. QED
    BY <1>2, <2>1, <2>2
<1>6. \A u, v \in Tasks :
        pc'[u] = "insert" /\ pc'[v] = "insert" /\ arg'[u] = arg'[v] => u = v
  BY <1>5 DEF PInv, PlacesInv
<1>. QED
  BY <1>4, <1>5, <1>6 DEF PlacesInv

\* Every step keeps the places.
LEMMA NextPlaces == PInv /\ [Next]_vars => PlacesInv'
<1>. SUFFICES ASSUME PInv, [Next]_vars PROVE PlacesInv'
  OBVIOUS
<1>1. ASSUME NEW t \in Tasks, NEW k \in Asked, StartGet(t, k) PROVE PlacesInv'
  BY <1>1, KeepsPlaces DEF StartGet, Begin, PInv, TypeOK
<1>2. ASSUME NEW t \in Tasks, NEW d \in Deliveries, StartCreate(t, d) PROVE PlacesInv'
  <2>1. /\ UNCHANGED pos /\ pos[d] = 0 /\ \A u \in Tasks : arg[u] # d
        /\ arg'[t] = d
        /\ \A u \in Tasks \ {t} : pc'[u] = pc[u] /\ arg'[u] = arg[u]
    BY <1>2 DEF StartCreate, Begin, PInv, TypeOK
  <2>2. Stored' = Stored
    BY <2>1 DEF Stored
  <2>. QED
    BY <2>1, <2>2 DEF PInv, PlacesInv
<1>3. ASSUME NEW t \in Tasks, GetDeliveries(t) PROVE PlacesInv'
  BY <1>3, KeepsPlaces DEF GetDeliveries, CacheHit, CacheMiss, ReadPage, ReadTracking, Save,
    ReadThrows, Continue, Finish, PInv, TypeOK
<1>4. ASSUME NEW t \in Tasks, CreateDelivery(t), ~Insert(t), ~InsertUnconfirmed(t)
      PROVE  PlacesInv'
  BY <1>4, KeepsPlaces DEF CreateDelivery, InsertRefused, ScanSender, DelSender,
    ScanReceiver, DelReceiver, Reply, InvalidateThrows, ReplyThrows, Continue, Finish,
    PInv, TypeOK
<1>5. CASE Crash
  BY <1>5, KeepsPlaces DEF Crash, PInv
<1>6. CASE Tick
  BY <1>6, KeepsPlaces DEF Tick, PInv
<1>7. CASE UNCHANGED vars
  BY <1>7, KeepsPlaces DEF vars, PInv
<1>8. ASSUME NEW t \in Tasks, CreateDelivery(t) PROVE PlacesInv'
  BY <1>4, <1>8, InsertPlaces
<1>. QED
  BY <1>1, <1>2, <1>3, <1>5, <1>6, <1>7, <1>8 DEF Next

\* A step that only removes pages and begins no save keeps what is said of them.
LEMMA KeepsPages ==
  ASSUME PagesInv, UNCHANGED <<pos, age>>,
         \A k \in Asked : Cached(k)' => Cached(k) /\ cache'[k] = cache[k],
         \A t \in Tasks : pc'[t] = "save" =>
           pc[t] = "save" /\ arg'[t] = arg[t] /\ got'[t] = got[t] /\ wait'[t] = wait[t]
  PROVE  PagesInv'
<1>1. \A k \in Asked : Listing(k)' = Listing(k) /\ Answers(k)' = Answers(k)
  BY AnswersStay
<1>. QED
  BY <1>1 DEF PagesInv

\* A reader gets the answer of the moment and saves it under its key.
LEMMA ReadPages ==
  ASSUME PInv, NEW t \in Tasks, GetDeliveries(t)
  PROVE  PagesInv'
<1>. USE DEF ReadSteps
<1>0. TypeOK /\ PagesInv /\ PlacesInv
  BY DEF PInv
<1>1. /\ UNCHANGED <<pos, age>>
      /\ \A u \in Tasks \ {t} : /\ pc'[u] = pc[u] /\ arg'[u] = arg[u]
                                /\ got'[u] = got[u] /\ wait'[u] = wait[u]
  BY <1>0 DEF GetDeliveries, CacheHit, CacheMiss, ReadPage, ReadTracking, Save, ReadThrows,
    Continue, Finish, TypeOK
<1>2. \A k \in Asked : Listing(k)' = Listing(k) /\ Answers(k)' = Answers(k)
  BY <1>1, AnswersStay
<1>3. CASE CacheHit(t) \/ CacheMiss(t) \/ ReadThrows(t)
  <2>1. UNCHANGED cache /\ pc'[t] # "save"
    BY <1>0, <1>3 DEF CacheHit, CacheMiss, ReadThrows, Continue, Finish, TypeOK
  <2>2. \A k \in Asked : Cached(k)' => Cached(k) /\ cache'[k] = cache[k]
    BY <2>1 DEF Cached
  <2>. QED
    BY <1>0, <1>1, <2>1, <2>2, KeepsPages
<1>4. CASE ReadPage(t) \/ ReadTracking(t)
  <2>1. UNCHANGED cache /\ arg[t] \in Asked
    BY <1>4, <1>0, Typed DEF ReadPage, ReadTracking
  <2>2. pc'[t] = "save" => arg'[t] = arg[t] /\ got'[t] = Listing(arg[t])
    BY <1>0, <1>4 DEF ReadPage, ReadTracking, Continue, Finish, TypeOK
  <2>3. \A k \in Asked : Cached(k)' = Cached(k)
    BY <2>1 DEF Cached
  <2>4. \A k \in Asked : Listing(k) \in Answers(k)
    BY <1>0, ListingIsAnswer
  <2>. QED
    BY <1>0, <1>1, <1>2, <2>1, <2>2, <2>3, <2>4 DEF PagesInv
<1>5. CASE Save(t)
  <2>1. PICK q \in Asked : q = arg[t]
    BY <1>5, <1>0, Typed DEF Save
  <2>2. /\ cache'[q].ttl = Ttl(q) /\ cache'[q].list = got[t] /\ cache'[q].held = wait[t]
        /\ \A k \in Asked \ {q} : cache'[k] = cache[k]
    BY <1>0, <1>5, <2>1 DEF Save, TypeOK
  <2>3. pc[t] = "save" /\ pc'[t] # "save"
    BY <1>0, <1>5 DEF Save, Finish, TypeOK
  <2>4. \A k \in Asked \ {q} : Cached(k)' = Cached(k)
    BY <2>2 DEF Cached
  <2>5. wait[t] \in Nat /\ Ttl(q) \in Nat
    BY <1>0, TtlType DEF TypeOK
  <2>6. ASSUME NEW e \in Listing(q) \ got[t]
        PROVE  age[e] <= Ttl(q) - Ttl(q) + wait[t]
    <3>1. age[e] <= wait[t]
      BY <1>0, <2>1, <2>3, <2>6 DEF PagesInv
    <3>. QED
      BY <2>5, <3>1
  <2>7. got[t] \in Answers(q) /\ got[t] \subseteq Listing(q) /\ Ttl(q) <= Ttl(q)
    BY <1>0, <2>1, <2>3, <2>5 DEF PagesInv
  <2>. QED
    BY <1>0, <1>1, <1>2, <2>2, <2>3, <2>4, <2>6, <2>7 DEF PagesInv
<1>. QED
  BY <1>3, <1>4, <1>5 DEF GetDeliveries

\* An insert leaves pages behind that lack only what is new.
LEMMA InsertPages ==
  ASSUME PInv, NEW t \in Tasks, Insert(t) \/ InsertUnconfirmed(t)
  PROVE  PagesInv'
<1>0. TypeOK /\ PagesInv /\ PlacesInv
  BY DEF PInv
<1>1. PICK d \in Deliveries :
        /\ pos[d] = 0 /\ Insertion(d) /\ UNCHANGED cache
        /\ pc'[t] # "save"
        /\ \A u \in Tasks \ {t} : /\ pc'[u] = pc[u] /\ arg'[u] = arg[u]
                                  /\ got'[u] = got[u] /\ wait'[u] = wait[u]
  BY InsertFacts
<1>2. age'[d] = 0 /\ \A e \in Deliveries \ {d} : age'[e] = age[e]
  BY <1>0, <1>1 DEF Insertion, TypeOK
<1>3. \A k \in Asked : /\ Listing(k) \subseteq Listing(k)'
                       /\ Listing(k)' \subseteq Listing(k) \cup {d}
                       /\ Answers(k) \subseteq Answers(k)'
                       /\ Listing(k) \subseteq Deliveries
                       /\ Cached(k)' = Cached(k)
  BY <1>0, <1>1, ListingGrows, ListingType DEF Cached
<1>. SUFFICES ASSUME NEW k \in Asked
              PROVE  /\ Cached(k)' =>
                          /\ cache'[k].ttl <= Ttl(k)
                          /\ cache'[k].list \in Answers(k)'
                          /\ cache'[k].list \subseteq Listing(k)'
                          /\ \A e \in Listing(k)' \ cache'[k].list :
                               age'[e] <= Ttl(k) - cache'[k].ttl + cache'[k].held
                     /\ \A u \in Tasks : pc'[u] = "save" /\ arg'[u] = k =>
                          /\ got'[u] \in Answers(k)'
                          /\ got'[u] \subseteq Listing(k)'
                          /\ \A e \in Listing(k)' \ got'[u] : age'[e] <= wait'[u]
  BY DEF PagesInv, Ttl
<1>4. ASSUME Cached(k)'
      PROVE  /\ cache'[k].ttl <= Ttl(k)
             /\ cache'[k].list \in Answers(k)'
             /\ cache'[k].list \subseteq Listing(k)'
             /\ \A e \in Listing(k)' \ cache'[k].list :
                  age'[e] <= Ttl(k) - cache'[k].ttl + cache'[k].held
  <2>1. /\ cache[k].ttl <= Ttl(k)
        /\ cache[k].list \in Answers(k)
        /\ cache[k].list \subseteq Listing(k)
        /\ \A e \in Listing(k) \ cache[k].list :
             age[e] <= Ttl(k) - cache[k].ttl + cache[k].held
    BY <1>0, <1>3, <1>4 DEF PagesInv
  <2>2. cache[k].ttl \in Nat /\ cache[k].held \in Nat /\ Ttl(k) \in Nat
    BY <1>0, TtlType DEF TypeOK, Entry
  <2>3. 0 <= Ttl(k) - cache[k].ttl + cache[k].held
    BY <2>1, <2>2
  <2>. QED
    BY <1>1, <1>2, <1>3, <2>1, <2>3
<1>5. ASSUME NEW u \in Tasks, pc'[u] = "save", arg'[u] = k
      PROVE  /\ got'[u] \in Answers(k)'
             /\ got'[u] \subseteq Listing(k)'
             /\ \A e \in Listing(k)' \ got'[u] : age'[e] <= wait'[u]
  <2>1. u # t /\ got'[u] = got[u] /\ wait'[u] = wait[u] /\ pc[u] = "save" /\ arg[u] = k
    BY <1>1, <1>5
  <2>2. /\ got[u] \in Answers(k)
        /\ got[u] \subseteq Listing(k)
        /\ \A e \in Listing(k) \ got[u] : age[e] <= wait[u]
    BY <1>0, <2>1 DEF PagesInv
  <2>3. 0 <= wait[u]
    BY <1>0 DEF TypeOK
  <2>. QED
    BY <1>2, <1>3, <2>1, <2>2, <2>3
<1>. QED
  BY <1>4, <1>5

\* A tick makes every page and what it lacks older by the same.
LEMMA TickPages ==
  ASSUME PInv, Tick
  PROVE  PagesInv'
<1>0. TypeOK /\ PagesInv
  BY DEF PInv
<1>1. \A k \in Asked : Listing(k)' = Listing(k) /\ Answers(k)' = Answers(k)
                       /\ Listing(k) \subseteq Deliveries
  BY AnswersStay, ListingType DEF Tick
<1>2. \A e \in Deliveries : age[e] \in Nat /\ age'[e] \in Nat /\ age'[e] <= age[e] + 1
  BY <1>0 DEF Tick, TypeOK, MaxAge
<1>3. \A u \in Tasks : pc[u] = "save" => wait'[u] = wait[u] + 1 /\ wait[u] \in Nat
  BY <1>0 DEF Tick, TypeOK
<1>4. ASSUME NEW k \in Asked, Cached(k)'
      PROVE  /\ Cached(k) /\ cache'[k].list = cache[k].list /\ cache'[k].held = cache[k].held
             /\ cache'[k].ttl = cache[k].ttl - 1
             /\ cache[k].ttl \in Nat /\ cache[k].held \in Nat /\ Ttl(k) \in Nat
  <2>1. cache[k] \in Entry /\ cache'[k] = Expire(cache[k])
    BY <1>0 DEF Tick, TypeOK
  <2>. QED
    BY <1>4, <2>1, TtlType DEF Expire, Entry, NoEntry, Cached
<1>5. ASSUME NEW k \in Asked, Cached(k)'
      PROVE  /\ cache'[k].ttl <= Ttl(k)
             /\ cache'[k].list \in Answers(k)
             /\ cache'[k].list \subseteq Listing(k)
             /\ \A e \in Listing(k) \ cache'[k].list :
                  age'[e] <= Ttl(k) - cache'[k].ttl + cache'[k].held
  <2>1. /\ cache[k].ttl <= Ttl(k)
        /\ cache[k].list \in Answers(k)
        /\ cache[k].list \subseteq Listing(k)
        /\ \A e \in Listing(k) \ cache[k].list :
             age[e] <= Ttl(k) - cache[k].ttl + cache[k].held
    BY <1>0, <1>4, <1>5 DEF PagesInv
  <2>. QED
    BY <1>1, <1>2, <1>4, <1>5, <2>1
<1>6. ASSUME NEW k \in Asked, NEW u \in Tasks, pc'[u] = "save", arg'[u] = k
      PROVE  /\ got'[u] \in Answers(k)
             /\ got'[u] \subseteq Listing(k)
             /\ \A e \in Listing(k) \ got'[u] : age'[e] <= wait'[u]
  <2>1. pc[u] = "save" /\ arg[u] = k /\ got'[u] = got[u]
    BY <1>6 DEF Tick
  <2>2. /\ got[u] \in Answers(k)
        /\ got[u] \subseteq Listing(k)
        /\ \A e \in Listing(k) \ got[u] : age[e] <= wait[u]
    BY <1>0, <2>1 DEF PagesInv
  <2>. QED
    BY <1>1, <1>2, <1>3, <2>1, <2>2
<1>. QED
  BY <1>1, <1>5, <1>6 DEF PagesInv, Ttl

\* Every step keeps what is said of pages.
LEMMA NextPages == PInv /\ [Next]_vars => PagesInv'
<1>. SUFFICES ASSUME PInv, [Next]_vars PROVE PagesInv'
  OBVIOUS
<1>0. TypeOK /\ PagesInv
  BY DEF PInv
<1>1. ASSUME UNCHANGED cache
      PROVE  \A k \in Asked : Cached(k)' => Cached(k) /\ cache'[k] = cache[k]
  BY <1>1 DEF Cached
<1>2. ASSUME NEW t \in Tasks, NEW k \in Asked, StartGet(t, k) PROVE PagesInv'
  BY <1>0, <1>1, <1>2, KeepsPages DEF StartGet, Begin, TypeOK
<1>3. ASSUME NEW t \in Tasks, NEW d \in Deliveries, StartCreate(t, d) PROVE PagesInv'
  BY <1>0, <1>1, <1>3, KeepsPages DEF StartCreate, Begin, TypeOK
<1>4. ASSUME NEW t \in Tasks, CreateDelivery(t), ~Insert(t), ~InsertUnconfirmed(t)
      PROVE  PagesInv'
  <2>1. UNCHANGED <<pos, age>>
    BY <1>4 DEF CreateDelivery, InsertRefused, ScanSender, DelSender, ScanReceiver,
      DelReceiver, Reply, InvalidateThrows, ReplyThrows
  <2>2. \A k \in Asked : Cached(k)' => Cached(k) /\ cache'[k] = cache[k]
    BY <1>4 DEF CreateDelivery, InsertRefused, ScanSender, DelSender, ScanReceiver,
      DelReceiver, Reply, InvalidateThrows, ReplyThrows, Drop, Cached, NoEntry
  <2>3. \A u \in Tasks : pc'[u] = "save" =>
          pc[u] = "save" /\ arg'[u] = arg[u] /\ got'[u] = got[u] /\ wait'[u] = wait[u]
    BY <1>0, <1>4 DEF CreateDelivery, InsertRefused, ScanSender, DelSender, ScanReceiver,
      DelReceiver, Reply, InvalidateThrows, ReplyThrows, Continue, Finish, TypeOK
  <2>. QED
    BY <1>0, <2>1, <2>2, <2>3, KeepsPages
<1>5. ASSUME NEW t \in Tasks, CreateDelivery(t) PROVE PagesInv'
  BY <1>4, <1>5, InsertPages
<1>6. CASE Crash
  BY <1>0, <1>1, <1>6, KeepsPages DEF Crash
<1>7. CASE UNCHANGED vars
  BY <1>0, <1>1, <1>7, KeepsPages DEF vars
<1>. QED
  BY <1>2, <1>3, <1>5, <1>6, <1>7, ReadPages, TickPages DEF Next

\* This invariant holds in every reachable state.
LEMMA PagesInvariance == Spec => []PInv
<1>1. Init => PInv
  BY InitIInv DEF IInv, Init, PInv, PlacesInv, PagesInv, Stored, Cached, NoEntry
<1>2. PInv /\ [Next]_vars => PInv'
  BY NextType, NextPlaces, NextPages DEF PInv
<1>. QED
  BY <1>1, <1>2, PTL DEF Spec

\* A cached page is the answer over the first n documents, for some n: no hole,
\* no phantom and nobody else's delivery.
THEOREM SnapshotSafety == Spec => []CachedPagesAreSnapshots
<1>1. PInv => CachedPagesAreSnapshots
  BY DEF PInv, PagesInv, CachedPagesAreSnapshots, SnapshotOf, Answers
<1>. QED
  BY <1>1, PagesInvariance, PTL

\* A cached page lacks no delivery for longer than the page's time in Redis and
\* the time its task had held it.
THEOREM StalenessSafety == Spec => []StalenessIsBounded
<1>1. PInv => StalenessIsBounded
  BY DEF PInv, PagesInv, StalenessIsBounded
<1>. QED
  BY <1>1, PagesInvariance, PTL

\* Only a late task can replace a page by one that lacks a delivery of it.
THEOREM GrowthSafety == Spec => PagesOnlyGrow
<1> DEFINE Grows == \A k \in Asked :
             Cached(k) /\ cache'[k].ttl > 0 /\ ~cache'[k].late
               => cache[k].list \subseteq cache'[k].list
<1>1. ASSUME PInv, Next PROVE Grows
  <2>0. TypeOK /\ PagesInv
    BY <1>1 DEF PInv
  <2>. SUFFICES ASSUME NEW k \in Asked, Cached(k), cache'[k].ttl > 0, ~cache'[k].late
                PROVE  cache[k].list \subseteq cache'[k].list
    OBVIOUS
  <2>1. ASSUME NEW t \in Tasks, Save(t) PROVE cache[k].list \subseteq cache'[k].list
    <3>1. arg[t] \in Asked
      BY <2>0, <2>1, Typed DEF Save, ReadSteps
    <3>2. CASE k = arg[t]
      <4>1. cache'[k].list = got[t] /\ cache'[k].late = (got[t] # Listing(k))
        BY <2>0, <2>1, <3>1, <3>2 DEF Save, TypeOK
      <4>. QED
        BY <2>0, <4>1 DEF PagesInv
    <3>3. CASE k # arg[t]
      BY <2>0, <2>1, <3>1, <3>3 DEF Save, TypeOK
    <3>. QED
      BY <3>2, <3>3
  <2>2. CASE Tick
    BY <2>0, <2>2, ExpireType DEF Tick, TypeOK
  <2>3. ASSUME NEW t \in Tasks, CreateDelivery(t) PROVE cache[k].list \subseteq cache'[k].list
    BY <2>3 DEF CreateDelivery, Insert, InsertRefused, InsertUnconfirmed, ScanSender,
      DelSender, ScanReceiver, DelReceiver, Reply, InvalidateThrows, ReplyThrows, Drop, NoEntry
  <2>4. CASE UNCHANGED cache
    BY <2>4
  <2>. QED
    BY <1>1, <2>1, <2>2, <2>3, <2>4 DEF Next, StartGet, StartCreate, Begin, GetDeliveries,
      CacheHit, CacheMiss, ReadPage, ReadTracking, ReadThrows, Crash
<1>2. PInv /\ [Next]_vars => [Grows]_vars
  BY <1>1
<1>. HIDE DEF Grows
<1>3. Spec => [][Grows]_vars
  BY <1>2, PagesInvariance, PTL DEF Spec
<1>. QED
  BY <1>3 DEF PagesOnlyGrow, Grows

=============================================================================
