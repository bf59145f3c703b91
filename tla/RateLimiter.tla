----------------------------- MODULE RateLimiter -----------------------------
(***************************************************************************)
(* The token bucket in front of GET /deliveries.  One bucket per client    *)
(* address; CheckRateLimit is called by any handler thread.  The thread    *)
(* reads the clock before it takes the mutex, so threads may enter in      *)
(* another order than they read it, and the time elapsed since the last    *)
(* entry may be negative.  GetRemaining reads the bucket without the mutex.*)
(*                                                                         *)
(* A token is counted as TimeSec units, so that a bucket gains exactly     *)
(* Limit units per second and everything is an integer: the double that    *)
(* the code keeps is the number of units divided by TimeSec.               *)
(***************************************************************************)
EXTENDS Integers

CONSTANTS
  Clients,   \* client addresses, the keys of data_
  Threads,   \* handler threads
  Limit,     \* tokens a bucket holds
  TimeSec,   \* seconds in which an empty bucket fills up
  MaxTime,   \* bound: the last second modelled
  None       \* no client, no thread

ASSUME ParameterAssumption ==
  /\ Limit \in Nat \ {0}
  /\ TimeSec \in Nat \ {0}
  /\ MaxTime \in Nat \ {0}

ASSUME NoneAssumption == None \notin Clients /\ None \notin Threads

VARIABLES
  clock,     \* steady_clock, in seconds
  tokens,    \* tokens[c]: units in the bucket of c
  ts,        \* ts[c]: the time stamp of the bucket, 0 if it was never used
  pc,        \* pc[t]: what thread t does next
  client,    \* client[t]: the address t's request came from
  now,       \* now[t]: the clock t read before it took the mutex
  mutex,     \* the thread that holds the mutex, or None
  answer,    \* answer[t]: what CheckRateLimit returned to t
  remaining, \* remaining[t]: the X-RateLimit-Remaining t's client was last sent
  granted,   \* history: requests of c granted
  regressed, \* history: clients whose bucket saw its time stamp go back
  mark,      \* history: the start of a window of observation, 0 before it
  since      \* history: requests of c granted that were stamped in the window

vars == <<clock, tokens, ts, pc, client, now, mutex, answer, remaining,
          granted, regressed, mark, since>>

Capacity == Limit * TimeSec

Least(a, b) == IF a <= b THEN a ELSE b
Greatest(a, b) == IF a >= b THEN a ELSE b

\* An entry springs into being full and with the time stamp of the epoch.
Init ==
  /\ clock = 1
  /\ tokens = [c \in Clients |-> Capacity]
  /\ ts = [c \in Clients |-> 0]
  /\ pc = [t \in Threads |-> "idle"]
  /\ client = [t \in Threads |-> None]
  /\ now = [t \in Threads |-> 0]
  /\ mutex = None
  /\ answer = [t \in Threads |-> FALSE]
  /\ remaining = [t \in Threads |-> 0]
  /\ granted = [c \in Clients |-> 0]
  /\ regressed = {}
  /\ mark = 0
  /\ since = [c \in Clients |-> 0]

\* now = steady_clock::now(), the first line of CheckRateLimit.
ReadClock(t, c) ==
  /\ pc[t] = "idle"
  /\ pc' = [pc EXCEPT ![t] = "lock"]
  /\ client' = [client EXCEPT ![t] = c]
  /\ now' = [now EXCEPT ![t] = clock]
  /\ UNCHANGED <<clock, tokens, ts, mutex, answer, remaining, granted, regressed,
                 mark, since>>

\* Mutant of Refilled: the refill is not capped at the size of the bucket.
RefilledUncapped(c, n) ==
  IF ts[c] = 0 THEN Capacity ELSE tokens[c] + (n - ts[c]) * Limit

\* Mutant of Refilled: an unused bucket is not set up but starts with one token.
RefilledFromEmpty(c, n) ==
  IF ts[c] = 0 THEN TimeSec ELSE Least(Capacity, tokens[c] + (n - ts[c]) * Limit)

\* What the bucket of c holds once it is refilled by a thread stamped n.
Refilled(c, n) ==
  IF ts[c] = 0 THEN Capacity ELSE Least(Capacity, tokens[c] + (n - ts[c]) * Limit)

\* Mutant of Refill: a late thread does not move the time stamp back, although
\* its negative elapsed time has been charged to the bucket.
RefillKeepsLaterStamp(t) ==
  /\ pc[t] = "lock"
  /\ mutex = None
  /\ mutex' = t
  /\ LET c == client[t] IN
       /\ tokens' = [tokens EXCEPT ![c] = Refilled(c, now[t])]
       /\ ts' = [ts EXCEPT ![c] = Greatest(ts[c], now[t])]
       /\ regressed' = IF now[t] < ts[c] THEN regressed \cup {c} ELSE regressed
  /\ pc' = [pc EXCEPT ![t] = "take"]
  /\ UNCHANGED <<clock, client, now, answer, remaining, granted, mark, since>>

\* The thread takes the mutex and refills the bucket.
Refill(t) ==
  /\ pc[t] = "lock"
  /\ mutex = None
  /\ mutex' = t
  /\ LET c == client[t] IN
       /\ tokens' = [tokens EXCEPT ![c] = Refilled(c, now[t])]
       /\ ts' = [ts EXCEPT ![c] = now[t]]
       /\ regressed' = IF now[t] < ts[c] THEN regressed \cup {c} ELSE regressed
  /\ pc' = [pc EXCEPT ![t] = "take"]
  /\ UNCHANGED <<clock, client, now, answer, remaining, granted, mark, since>>

\* Mutant of Take: the bucket is not checked for a whole token.
TakeUnchecked(t) ==
  /\ pc[t] = "take"
  /\ LET c == client[t] IN
       /\ tokens' = [tokens EXCEPT ![c] = @ - TimeSec]
       /\ granted' = [granted EXCEPT ![c] = @ + 1]
       /\ since' = IF mark > 0 /\ now[t] >= mark
                   THEN [since EXCEPT ![c] = @ + 1] ELSE since
  /\ answer' = [answer EXCEPT ![t] = TRUE]
  /\ mutex' = None
  /\ pc' = [pc EXCEPT ![t] = "header"]
  /\ UNCHANGED <<clock, ts, client, now, remaining, regressed, mark>>

\* It takes a token and leaves the mutex.
Take(t) ==
  /\ pc[t] = "take"
  /\ tokens[client[t]] >= TimeSec
  /\ LET c == client[t] IN
       /\ tokens' = [tokens EXCEPT ![c] = @ - TimeSec]
       /\ granted' = [granted EXCEPT ![c] = @ + 1]
       /\ since' = IF mark > 0 /\ now[t] >= mark
                   THEN [since EXCEPT ![c] = @ + 1] ELSE since
  /\ answer' = [answer EXCEPT ![t] = TRUE]
  /\ mutex' = None
  /\ pc' = [pc EXCEPT ![t] = "header"]
  /\ UNCHANGED <<clock, ts, client, now, remaining, regressed, mark>>

\* There is not a whole token: it leaves the mutex with a refusal.
Refuse(t) ==
  /\ pc[t] = "take"
  /\ tokens[client[t]] < TimeSec
  /\ answer' = [answer EXCEPT ![t] = FALSE]
  /\ mutex' = None
  /\ pc' = [pc EXCEPT ![t] = "header"]
  /\ UNCHANGED <<clock, tokens, ts, client, now, remaining, granted, regressed,
                 mark, since>>

\* GetRemaining, at any moment of another thread's stay in the mutex; the
\* whole tokens that are left.
GetRemaining(t) ==
  /\ pc[t] = "header"
  /\ remaining' = [remaining EXCEPT ![t] = Greatest(tokens[client[t]], 0) \div TimeSec]
  /\ pc' = [pc EXCEPT ![t] = "idle"]
  /\ client' = [client EXCEPT ![t] = None]
  /\ now' = [now EXCEPT ![t] = 0]
  /\ UNCHANGED <<clock, tokens, ts, mutex, answer, granted, regressed, mark, since>>

CheckRateLimit(t) == Refill(t) \/ Take(t) \/ Refuse(t)

Tick ==
  /\ clock < MaxTime
  /\ clock' = clock + 1
  /\ UNCHANGED <<tokens, ts, pc, client, now, mutex, answer, remaining, granted,
                 regressed, mark, since>>

\* A window of observation begins (once, at any time).
BeginWindow ==
  /\ mark = 0
  /\ mark' = clock
  /\ UNCHANGED <<clock, tokens, ts, pc, client, now, mutex, answer, remaining,
                 granted, regressed, since>>

Next ==
  \/ \E t \in Threads :
       \/ \E c \in Clients : ReadClock(t, c)
       \/ CheckRateLimit(t)
       \/ GetRemaining(t)
  \/ Tick
  \/ BeginWindow

Spec == Init /\ [][Next]_vars

-----------------------------------------------------------------------------
(* Properties                                                              *)

TypeOK ==
  /\ clock \in 1..MaxTime
  /\ tokens \in [Clients -> Int] /\ \A c \in Clients : tokens[c] <= Capacity
  /\ ts \in [Clients -> 0..clock]
  /\ pc \in [Threads -> {"idle", "lock", "take", "header"}]
  /\ client \in [Threads -> Clients \cup {None}]
  /\ now \in [Threads -> 0..clock]
  /\ \A t \in Threads : pc[t] # "idle" => client[t] \in Clients /\ now[t] > 0
  /\ mutex \in Threads \cup {None}
  /\ \A t \in Threads : pc[t] = "take" <=> mutex = t
  /\ answer \in [Threads -> BOOLEAN]
  /\ remaining \in [Threads -> 0..Limit]
  /\ granted \in [Clients -> Nat]
  /\ regressed \subseteq Clients
  /\ mark \in 0..clock
  /\ since \in [Clients -> Nat]

\* In any window, wherever it begins and in whatever order threads pass the
\* mutex, the requests of one client stamped in the window and granted are at
\* most a full bucket and what flowed in since: Limit + elapsed * Limit/TimeSec.
WindowIsBounded ==
  \A c \in Clients : mark > 0 => since[c] * TimeSec <= Capacity + (clock - mark) * Limit

\* A client is refused only when it has spent a full bucket, unless threads
\* passed the mutex out of the order in which they had read the clock.
NoEarlyRefusal ==
  \A t \in Threads :
    pc[t] = "header" /\ ~answer[t]
      => client[t] \in regressed \/ granted[client[t]] >= Limit

\* Threads that pass the mutex late may leave a bucket in debt, but by no more
\* than the clock has already run past its time stamp: a request that reads the
\* clock now and enters next finds no debt.
DebtIsCoveredByTime ==
  \A c \in Clients : ts[c] > 0 => tokens[c] + (clock - ts[c]) * Limit >= 0

\* What the README says of the limiter: 100 requests a minute, the 101st within
\* a minute is answered 429.
LimitPerMinute ==
  \A c \in Clients : mark > 0 /\ clock - mark < TimeSec => since[c] <= Limit

=============================================================================
