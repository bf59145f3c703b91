-------------------------- MODULE RateLimiterProofs --------------------------
(***************************************************************************)
(* The safety of the token bucket for any number of threads and clients,   *)
(* any size and any rate.                                                  *)
(*                                                                         *)
(* The argument is about tokens[c] - ts[c] * Limit, the units of the       *)
(* bucket less those that have flowed past it.  A refill cannot raise it,  *)
(* whether its time stamp goes forward or back, and a grant lowers it by   *)
(* TimeSec; so from the first grant stamped in a window on it pays for     *)
(* every other one (WindowInv).                                            *)
(***************************************************************************)
EXTENDS RateLimiter, TLAPS

\* The thread in the mutex is the one that stamped its client's bucket last.
StampInv ==
  \A t \in Threads : pc[t] = "take" => ts[client[t]] = now[t]

\* Requests granted in the window have been paid for since it began.
WindowInv ==
  \A c \in Clients : since[c] > 0 =>
    /\ mark > 0
    /\ ts[c] > 0
    /\ since[c] * TimeSec + tokens[c] <= Capacity + (ts[c] - mark) * Limit

\* Without a late thread, only grants empty a bucket.
SpentInv ==
  \A c \in Clients : c \notin regressed => tokens[c] + granted[c] * TimeSec >= Capacity

IInv ==
  /\ TypeOK
  /\ DebtIsCoveredByTime
  /\ StampInv
  /\ WindowInv
  /\ SpentInv
  /\ NoEarlyRefusal

USE ParameterAssumption, NoneAssumption

\* A product of naturals is a natural.
LEMMA ProductNat == \A a, b \in Nat : a * b \in Nat /\ a * b >= 0
  OBVIOUS

\* Capacity is a natural number.
LEMMA CapacityNat == Capacity \in Nat
  BY ProductNat DEF Capacity

\* The initial states satisfy the inductive invariant.
LEMMA InitIInv == Init => IInv
  BY CapacityNat DEF Init, IInv, TypeOK, DebtIsCoveredByTime, StampInv, WindowInv,
    SpentInv, NoEarlyRefusal

\* What a refill leaves in a bucket: no more than a bucket holds, and no more
\* than there was and flowed in since.
LEMMA RefilledBounds ==
  ASSUME TypeOK, NEW c \in Clients, NEW n \in Nat
  PROVE  /\ Refilled(c, n) \in Int
         /\ Refilled(c, n) <= Capacity
         /\ ts[c] = 0 => Refilled(c, n) = Capacity
         /\ ts[c] > 0 => \/ Refilled(c, n) = Capacity
                         \/ Refilled(c, n) = tokens[c] + (n - ts[c]) * Limit
         /\ ts[c] > 0 => Refilled(c, n) <= tokens[c] + (n - ts[c]) * Limit
<1>1. ts[c] \in Nat /\ tokens[c] \in Int /\ Capacity \in Int
  BY CapacityNat DEF TypeOK
<1>2. (n - ts[c]) * Limit \in Int
  BY <1>1
<1>. QED
  BY <1>1, <1>2 DEF Refilled, Least

\* Reading the clock keeps the invariant.
LEMMA ReadClockIInv ==
  ASSUME IInv, NEW t \in Threads, NEW c \in Clients, ReadClock(t, c)
  PROVE  IInv'
  BY DEF IInv, TypeOK, DebtIsCoveredByTime, StampInv, WindowInv, SpentInv,
    NoEarlyRefusal, ReadClock, Capacity

\* Refilling a bucket under the mutex keeps the invariant.
LEMMA RefillIInv ==
  ASSUME IInv, NEW t \in Threads, Refill(t)
  PROVE  IInv'
<1> DEFINE c == client[t]
           n == now[t]
           new == Refilled(c, n)
<1>1. c \in Clients /\ n \in Nat /\ 0 < n /\ n <= clock
  BY DEF IInv, TypeOK, Refill
<1>2. /\ tokens' = [tokens EXCEPT ![c] = new]
      /\ ts' = [ts EXCEPT ![c] = n]
      /\ regressed' = IF n < ts[c] THEN regressed \cup {c} ELSE regressed
      /\ pc' = [pc EXCEPT ![t] = "take"]
      /\ mutex = None /\ mutex' = t
      /\ UNCHANGED <<clock, client, now, answer, remaining, granted, mark, since>>
  BY DEF Refill
<1>3. /\ new \in Int /\ new <= Capacity
      /\ ts[c] = 0 => new = Capacity
      /\ ts[c] > 0 => new = Capacity \/ new = tokens[c] + (n - ts[c]) * Limit
      /\ ts[c] > 0 => new <= tokens[c] + (n - ts[c]) * Limit
  BY <1>1, RefilledBounds DEF IInv
<1>. HIDE DEF c, n, new
<1>4. TypeOK'
  BY <1>1, <1>2, <1>3, CapacityNat DEF IInv, TypeOK, Capacity, Refill
<1>5. StampInv'
  <2>. SUFFICES ASSUME NEW u \in Threads, pc'[u] = "take"
                PROVE  ts'[client'[u]] = now'[u]
    BY DEF StampInv
  <2>1. u = t
    BY <1>2 DEF IInv, TypeOK
  <2>. QED
    BY <1>1, <1>2, <2>1 DEF IInv, TypeOK, c, n
<1>6. DebtIsCoveredByTime'
  <2>. SUFFICES ASSUME NEW d \in Clients, ts'[d] > 0
                PROVE  tokens'[d] + (clock - ts'[d]) * Limit >= 0
    BY <1>2 DEF DebtIsCoveredByTime
  <2>1. CASE d # c
    BY <1>2, <2>1 DEF IInv, TypeOK, DebtIsCoveredByTime
  <2>2. CASE d = c
    <3>1. tokens'[d] = new /\ ts'[d] = n
      BY <1>1, <1>2, <2>2 DEF IInv, TypeOK
    <3>2. (clock - n) * Limit \in Nat
      BY <1>1, ProductNat DEF IInv, TypeOK
    <3>3. CASE new = Capacity
      BY <3>1, <3>2, <3>3, CapacityNat
    <3>4. CASE ts[c] > 0 /\ new = tokens[c] + (n - ts[c]) * Limit
      <4>1. tokens[c] + (clock - ts[c]) * Limit >= 0
        BY <1>1, <3>4 DEF IInv, DebtIsCoveredByTime
      <4>2. (n - ts[c]) * Limit + (clock - n) * Limit = (clock - ts[c]) * Limit
        BY <1>1 DEF IInv, TypeOK
      <4>. QED
        BY <1>1, <3>1, <3>4, <4>1, <4>2 DEF IInv, TypeOK
    <3>. QED
      BY <1>1, <1>3, <3>3, <3>4 DEF IInv, TypeOK
  <2>. QED
    BY <2>1, <2>2
<1>7. WindowInv'
  <2>. SUFFICES ASSUME NEW d \in Clients, since[d] > 0
                PROVE  /\ mark > 0
                       /\ ts'[d] > 0
                       /\ since[d] * TimeSec + tokens'[d] <= Capacity' + (ts'[d] - mark) * Limit
    BY <1>2 DEF WindowInv
  <2>1. /\ mark > 0 /\ ts[d] > 0
        /\ since[d] * TimeSec + tokens[d] <= Capacity + (ts[d] - mark) * Limit
    BY DEF IInv, WindowInv
  <2>2. CASE d # c
    BY <1>2, <2>1, <2>2 DEF IInv, TypeOK, Capacity
  <2>3. CASE d = c
    <3>1. tokens'[d] = new /\ ts'[d] = n
      BY <1>1, <1>2, <2>3 DEF IInv, TypeOK
    <3>2. (n - ts[d]) * Limit + (ts[d] - mark) * Limit = (n - mark) * Limit
      BY <1>1 DEF IInv, TypeOK
    <3>3. since[d] * TimeSec \in Nat
      BY ProductNat DEF IInv, TypeOK
    <3>. QED
      BY <1>1, <1>3, <2>1, <2>3, <3>1, <3>2, <3>3, CapacityNat DEF IInv, TypeOK, Capacity
  <2>. QED
    BY <2>2, <2>3
<1>8. SpentInv'
  <2>. SUFFICES ASSUME NEW d \in Clients, d \notin regressed'
                PROVE  tokens'[d] + granted[d] * TimeSec >= Capacity
    BY <1>2 DEF SpentInv, Capacity
  <2>1. d \notin regressed /\ tokens[d] + granted[d] * TimeSec >= Capacity
    BY <1>2 DEF IInv, SpentInv
  <2>2. CASE d # c
    BY <1>2, <2>1, <2>2 DEF IInv, TypeOK
  <2>3. CASE d = c
    <3>1. tokens'[d] = new /\ ts[c] <= n
      BY <1>1, <1>2, <2>3 DEF IInv, TypeOK
    <3>2. granted[d] * TimeSec \in Nat /\ (n - ts[c]) * Limit \in Nat
      BY <1>1, <3>1, ProductNat DEF IInv, TypeOK
    <3>. QED
      BY <1>1, <1>3, <2>1, <2>3, <3>1, <3>2, CapacityNat DEF IInv, TypeOK
  <2>. QED
    BY <2>2, <2>3
<1>9. NoEarlyRefusal'
  BY <1>2 DEF IInv, TypeOK, NoEarlyRefusal
<1>. QED
  BY <1>4, <1>5, <1>6, <1>7, <1>8, <1>9 DEF IInv

\* Taking a token keeps the invariant.
LEMMA TakeIInv ==
  ASSUME IInv, NEW t \in Threads, Take(t)
  PROVE  IInv'
<1> DEFINE c == client[t]
<1>1. c \in Clients /\ pc[t] = "take" /\ ts[c] = now[t] /\ now[t] \in Nat /\ now[t] > 0
  BY DEF IInv, TypeOK, Take, StampInv
<1>2. /\ tokens[c] >= TimeSec
      /\ tokens' = [tokens EXCEPT ![c] = @ - TimeSec]
      /\ granted' = [granted EXCEPT ![c] = @ + 1]
      /\ since' = IF mark > 0 /\ now[t] >= mark
                  THEN [since EXCEPT ![c] = @ + 1] ELSE since
      /\ answer' = [answer EXCEPT ![t] = TRUE]
      /\ mutex' = None
      /\ pc' = [pc EXCEPT ![t] = "header"]
      /\ UNCHANGED <<clock, ts, client, now, remaining, regressed, mark>>
  BY DEF Take
<1>. HIDE DEF c
<1>3. TypeOK'
  BY <1>1, <1>2, CapacityNat DEF IInv, TypeOK, Capacity
<1>4. StampInv'
  BY <1>1, <1>2 DEF IInv, TypeOK, StampInv
<1>5. DebtIsCoveredByTime'
  <2>. SUFFICES ASSUME NEW d \in Clients, ts[d] > 0
                PROVE  tokens'[d] + (clock - ts[d]) * Limit >= 0
    BY <1>2 DEF DebtIsCoveredByTime
  <2>1. CASE d # c
    BY <1>2, <2>1 DEF IInv, TypeOK, DebtIsCoveredByTime
  <2>2. CASE d = c
    <3>1. (clock - ts[d]) * Limit \in Nat
      BY ProductNat DEF IInv, TypeOK
    <3>2. tokens'[d] \in Int /\ tokens'[d] >= 0
      BY <1>1, <1>2, <2>2 DEF IInv, TypeOK
    <3>. QED
      BY <3>1, <3>2
  <2>. QED
    BY <2>1, <2>2
<1>6. WindowInv'
  <2>. SUFFICES ASSUME NEW d \in Clients, since'[d] > 0
                PROVE  /\ mark > 0
                       /\ ts[d] > 0
                       /\ since'[d] * TimeSec + tokens'[d] <= Capacity + (ts[d] - mark) * Limit
    BY <1>2 DEF WindowInv, Capacity
  <2>1. CASE d # c
    BY <1>2, <2>1 DEF IInv, TypeOK, WindowInv
  <2>2. CASE d = c /\ since'[d] = since[d]
    <3>1. tokens'[d] <= tokens[d] /\ tokens'[d] \in Int /\ since[d] * TimeSec \in Int
      BY <1>1, <1>2, <2>2 DEF IInv, TypeOK
    <3>2. (ts[d] - mark) * Limit \in Int
      BY DEF IInv, TypeOK
    <3>. QED
      BY <2>2, <3>1, <3>2, CapacityNat DEF IInv, TypeOK, WindowInv
  <2>3. CASE d = c /\ since'[d] # since[d]
    <3>1. since'[d] = since[d] + 1 /\ tokens'[d] = tokens[d] - TimeSec
          /\ mark > 0 /\ ts[d] >= mark
      BY <1>1, <1>2, <2>3 DEF IInv, TypeOK
    <3>2. since'[d] * TimeSec + tokens'[d] = since[d] * TimeSec + tokens[d]
      BY <3>1 DEF IInv, TypeOK
    <3>3. CASE since[d] = 0
      <4>1. (ts[d] - mark) * Limit \in Nat
        BY <3>1, ProductNat DEF IInv, TypeOK
      <4>2. tokens[d] \in Int /\ tokens[d] <= Capacity
        BY DEF IInv, TypeOK
      <4>. QED
        BY <1>1, <2>3, <3>1, <3>2, <3>3, <4>1, <4>2, CapacityNat
    <3>4. CASE since[d] # 0
      BY <3>1, <3>2, <3>4 DEF IInv, TypeOK, WindowInv
    <3>. QED
      BY <3>3, <3>4
  <2>. QED
    BY <2>1, <2>2, <2>3
<1>7. SpentInv'
  <2>. SUFFICES ASSUME NEW d \in Clients, d \notin regressed
                PROVE  tokens'[d] + granted'[d] * TimeSec >= Capacity
    BY <1>2 DEF SpentInv, Capacity
  <2>1. tokens'[d] + granted'[d] * TimeSec = tokens[d] + granted[d] * TimeSec
    BY <1>1, <1>2 DEF IInv, TypeOK
  <2>. QED
    BY <2>1 DEF IInv, SpentInv
<1>8. NoEarlyRefusal'
  BY <1>1, <1>2 DEF IInv, TypeOK, NoEarlyRefusal
<1>. QED
  BY <1>3, <1>4, <1>5, <1>6, <1>7, <1>8 DEF IInv

\* A refusal keeps the invariant: without a late thread, a bucket that lacks a
\* whole token has been emptied by at least Limit grants.
LEMMA RefuseIInv ==
  ASSUME IInv, NEW t \in Threads, Refuse(t)
  PROVE  IInv'
<1>1. TypeOK' /\ DebtIsCoveredByTime' /\ StampInv' /\ WindowInv' /\ SpentInv'
  BY DEF IInv, TypeOK, DebtIsCoveredByTime, StampInv, WindowInv, SpentInv, Refuse,
    Capacity
<1>2. NoEarlyRefusal'
  <2>. SUFFICES ASSUME NEW u \in Threads, pc'[u] = "header", ~answer'[u],
                       client[u] \notin regressed
                PROVE  granted[client[u]] >= Limit
    BY DEF NoEarlyRefusal, Refuse
  <2>1. CASE u # t
    BY <2>1 DEF IInv, TypeOK, NoEarlyRefusal, Refuse
  <2>2. CASE u = t
    <3> DEFINE g == granted[client[t]]
    <3>1. client[t] \in Clients /\ g \in Nat /\ tokens[client[t]] < TimeSec
          /\ tokens[client[t]] \in Int
      BY DEF IInv, TypeOK, Refuse
    <3>2. tokens[client[t]] + g * TimeSec >= Limit * TimeSec
      BY <2>2, <3>1 DEF IInv, SpentInv, Capacity
    <3>. HIDE DEF g
    <3>3. (g + 1) * TimeSec > Limit * TimeSec
      BY <3>1, <3>2
    <3>4. g >= Limit
      <4>. SUFFICES ASSUME g < Limit PROVE FALSE
        BY <3>1
      <4>1. Limit - (g + 1) \in Nat
        BY <3>1
      <4>2. (Limit - (g + 1)) * TimeSec >= 0
        BY <4>1, ProductNat
      <4>. QED
        BY <3>1, <3>3, <4>2
    <3>. QED
      BY <2>2, <3>4 DEF g
  <2>. QED
    BY <2>1, <2>2
<1>. QED
  BY <1>1, <1>2 DEF IInv

\* The whole tokens of a bucket are at most Limit.
LEMMA WholeTokens ==
  ASSUME NEW x \in Int, x <= Capacity
  PROVE  Greatest(x, 0) \div TimeSec \in 0..Limit
<1> DEFINE y == Greatest(x, 0)
           q == y \div TimeSec
<1>1. y \in Nat /\ y <= Limit * TimeSec
  BY CapacityNat DEF Greatest, Capacity
<1>. HIDE DEF y
<1>2. q \in Nat /\ q * TimeSec <= y
  BY <1>1
<1>. HIDE DEF q
<1>3. q <= Limit
  <2>. SUFFICES ASSUME q >= Limit + 1 PROVE FALSE
    BY <1>2
  <2>1. (q - (Limit + 1)) * TimeSec >= 0
    BY <1>2, ProductNat
  <2>. QED
    BY <1>1, <1>2, <2>1
<1>. QED
  BY <1>2, <1>3 DEF q, y

\* Reading what remains keeps the invariant.
LEMMA GetRemainingIInv ==
  ASSUME IInv, NEW t \in Threads, GetRemaining(t)
  PROVE  IInv'
<1>1. Greatest(tokens[client[t]], 0) \div TimeSec \in 0..Limit
  BY WholeTokens DEF IInv, TypeOK, GetRemaining
<1>. HIDE DEF Greatest
<1>2. TypeOK'
  BY <1>1 DEF IInv, TypeOK, GetRemaining, Capacity
<1>3. /\ DebtIsCoveredByTime' /\ StampInv' /\ WindowInv' /\ SpentInv'
      /\ NoEarlyRefusal'
  BY DEF IInv, TypeOK, DebtIsCoveredByTime, StampInv, WindowInv, SpentInv,
    NoEarlyRefusal, GetRemaining, Capacity
<1>. QED
  BY <1>2, <1>3 DEF IInv

\* The passing of time keeps the invariant.
LEMMA TickIInv ==
  ASSUME IInv, Tick
  PROVE  IInv'
<1>1. TypeOK' /\ StampInv' /\ WindowInv' /\ SpentInv' /\ NoEarlyRefusal'
  BY DEF IInv, TypeOK, StampInv, WindowInv, SpentInv, NoEarlyRefusal, Tick, Capacity
<1>2. DebtIsCoveredByTime'
  <2>. SUFFICES ASSUME NEW d \in Clients, ts[d] > 0
                PROVE  tokens[d] + (clock' - ts[d]) * Limit >= 0
    BY DEF DebtIsCoveredByTime, Tick
  <2> DEFINE e == clock - ts[d]
  <2>0. e \in Int /\ clock' - ts[d] = e + 1
    BY DEF IInv, TypeOK, Tick
  <2>. HIDE DEF e
  <2>1. (clock' - ts[d]) * Limit = e * Limit + Limit
    BY <2>0
  <2>2. e * Limit \in Int /\ tokens[d] \in Int /\ tokens[d] + e * Limit >= 0
    BY <2>0 DEF IInv, TypeOK, DebtIsCoveredByTime, e
  <2>. QED
    BY <2>1, <2>2
<1>. QED
  BY <1>1, <1>2 DEF IInv

\* The beginning of the window keeps the invariant: nothing was granted in it.
LEMMA BeginWindowIInv ==
  ASSUME IInv, BeginWindow
  PROVE  IInv'
  BY DEF IInv, TypeOK, DebtIsCoveredByTime, StampInv, WindowInv, SpentInv,
    NoEarlyRefusal, BeginWindow, Capacity

\* IInv is inductive.
LEMMA NextIInv == IInv /\ [Next]_vars => IInv'
<1>. SUFFICES ASSUME IInv, [Next]_vars PROVE IInv'
  OBVIOUS
<1>1. CASE \E t \in Threads : \E c \in Clients : ReadClock(t, c)
  BY <1>1, ReadClockIInv
<1>2. CASE \E t \in Threads : CheckRateLimit(t)
  BY <1>2, RefillIInv, TakeIInv, RefuseIInv DEF CheckRateLimit
<1>3. CASE \E t \in Threads : GetRemaining(t)
  BY <1>3, GetRemainingIInv
<1>4. CASE Tick
  BY <1>4, TickIInv
<1>5. CASE BeginWindow
  BY <1>5, BeginWindowIInv
<1>6. CASE UNCHANGED vars
  BY <1>6 DEF IInv, TypeOK, DebtIsCoveredByTime, StampInv, WindowInv, SpentInv,
    NoEarlyRefusal, vars, Capacity
<1>. QED
  BY <1>1, <1>2, <1>3, <1>4, <1>5, <1>6 DEF Next

\* The inductive invariant bounds what is granted in a window.
LEMMA IInvWindow == IInv => WindowIsBounded
<1>. SUFFICES ASSUME IInv, NEW c \in Clients, mark > 0
              PROVE  since[c] * TimeSec <= Capacity + (clock - mark) * Limit
  BY DEF WindowIsBounded
<1>1. (clock - mark) * Limit \in Nat
  BY ProductNat DEF IInv, TypeOK
<1>2. CASE since[c] = 0
  BY <1>1, <1>2, CapacityNat
<1>3. CASE since[c] # 0
  <2>1. since[c] * TimeSec + tokens[c] <= Capacity + (ts[c] - mark) * Limit
    BY <1>3 DEF IInv, TypeOK, WindowInv
  <2>2. tokens[c] + (clock - ts[c]) * Limit >= 0
    BY <1>3 DEF IInv, TypeOK, WindowInv, DebtIsCoveredByTime
  <2>3. (ts[c] - mark) * Limit + (clock - ts[c]) * Limit = (clock - mark) * Limit
    BY DEF IInv, TypeOK
  <2>4. since[c] * TimeSec \in Int /\ (ts[c] - mark) * Limit \in Int
        /\ (clock - ts[c]) * Limit \in Int /\ tokens[c] \in Int
    BY DEF IInv, TypeOK
  <2>. QED
    BY <1>1, <2>1, <2>2, <2>3, <2>4, CapacityNat
<1>. QED
  BY <1>2, <1>3

\* The inductive invariant holds in every reachable state.
THEOREM Invariance == Spec => []IInv
  BY InitIInv, NextIInv, PTL DEF Spec

\* The variables of the limiter keep their types; no bucket overflows.
THEOREM TypeCorrect == Spec => []TypeOK
<1>1. IInv => TypeOK
  BY DEF IInv
<1>. QED
  BY <1>1, Invariance, PTL

\* However threads are reordered between the clock and the mutex, the requests
\* granted to a client in a window are at most Limit plus what flowed in since.
THEOREM WindowSafety == Spec => []WindowIsBounded
  BY Invariance, IInvWindow, PTL

\* A refused client has spent a full bucket, unless a late thread passed.
THEOREM RefusalSafety == Spec => []NoEarlyRefusal
<1>1. IInv => NoEarlyRefusal
  BY DEF IInv
<1>. QED
  BY <1>1, Invariance, PTL

\* A bucket's debt is always covered by the time that has passed since its stamp.
THEOREM DebtSafety == Spec => []DebtIsCoveredByTime
<1>1. IInv => DebtIsCoveredByTime
  BY DEF IInv
<1>. QED
  BY <1>1, Invariance, PTL

=============================================================================
