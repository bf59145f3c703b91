------------------------------ MODULE AuthTokens ------------------------------
(***************************************************************************)
(* Login and the table of active tokens.  A login looks for a token of its *)
(* user and, when there is none, signs a new one and stores it.  Look-up   *)
(* and store each hold tokens_mutex_, but the clock is read and the token  *)
(* signed between them without it, so two logins of one user may both sign *)
(* and the older token may replace the newer one.                          *)
(*                                                                         *)
(* The table is in memory and remembers the expiry to a fraction of a      *)
(* second; the token itself carries whole seconds (iat, exp), and requests *)
(* are checked against the token alone.                                    *)
(***************************************************************************)
EXTENDS Naturals, FiniteSets

CONSTANTS
  Users,     \* ids of registered users
  Threads,   \* handler threads
  Lifetime,  \* token_lifetime_seconds_
  Second,    \* ticks of the clock in a second
  MaxTime,   \* bound: the last tick modelled
  None       \* no user

ASSUME TimeAssumption ==
  /\ Lifetime \in Nat \ {0}
  /\ Second \in Nat \ {0}
  /\ MaxTime \in Nat \ {0}

ASSUME NoneAssumption == None \notin Users

\* The server runs its handlers on a pool of threads.
ASSUME ThreadsAssumption == IsFiniteSet(Threads)

VARIABLES
  clock,   \* system_clock, in ticks
  table,   \* active_tokens_: table[u], or NoEntry
  pc,      \* pc[t]: what the login run by thread t does next
  user,    \* user[t]: the user who logs in
  now,     \* now[t]: the clock t read before it signed
  answer,  \* answer[t]: what t's last login was answered
  issued,  \* history: the tokens this process has signed
  rivals   \* history: threads for whose user another login stored a token
           \*          after they had found none

vars == <<clock, table, pc, user, now, answer, issued, rivals>>

-----------------------------------------------------------------------------
\* A token: signing is a function of the user and of the second it is signed in.
Token(u, n) == [user |-> u, iat |-> n \div Second]

\* The exp claim, in ticks.
Exp(tok) == (tok.iat + Lifetime) * Second

\* CheckAuth of a request: the signature and exp, and nothing of the table.
Accepts(tok) == clock <= Exp(tok)

\* An entry of the table: the second the token was signed in, and expiry.
NoEntry == [iat |-> 0, expiry |-> 0]
Active(u) == table[u] # NoEntry /\ clock <= table[u].expiry

\* Mutant of Cleaned: expired entries are never removed.
CleanedNever == table

\* CleanupExpiredTokens: the table without the entries that have expired.
Cleaned == [u \in Users |-> IF clock > table[u].expiry THEN NoEntry ELSE table[u]]

\* An answer: the token, when it was given, and whether it was an old one.
NoAnswer == [user |-> None, iat |-> 0, at |-> 0, found |-> FALSE]
Answer(u, iat, found) == [user |-> u, iat |-> iat, at |-> clock, found |-> found]

Init ==
  /\ clock = 1
  /\ table = [u \in Users |-> NoEntry]
  /\ pc = [t \in Threads |-> "idle"]
  /\ user = [t \in Threads |-> None]
  /\ now = [t \in Threads |-> 0]
  /\ answer = [t \in Threads |-> NoAnswer]
  /\ issued = {}
  /\ rivals = {}

\* The credentials have been verified and the user read; a login that fails
\* there ends with 401 or 500 and touches nothing of this.
StartLogin(t, u) ==
  /\ pc[t] = "idle"
  /\ pc' = [pc EXCEPT ![t] = "find"]
  /\ user' = [user EXCEPT ![t] = u]
  /\ answer' = [answer EXCEPT ![t] = NoAnswer]
  /\ UNCHANGED <<clock, table, now, issued, rivals>>

\* GetActiveToken finds a token, and the login is answered with it.
TokenFound(t) ==
  /\ pc[t] = "find"
  /\ table' = Cleaned
  /\ Cleaned[user[t]] # NoEntry
  /\ answer' = [answer EXCEPT ![t] = Answer(user[t], Cleaned[user[t]].iat, TRUE)]
  /\ pc' = [pc EXCEPT ![t] = "idle"]
  /\ user' = [user EXCEPT ![t] = None]
  /\ UNCHANGED <<clock, now, issued, rivals>>

\* Mutant of TokenMissing: a login never looks for an active token.
TokenMissingAlways(t) ==
  /\ pc[t] = "find"
  /\ table' = Cleaned
  /\ pc' = [pc EXCEPT ![t] = "sign"]
  /\ UNCHANGED <<clock, user, now, answer, issued, rivals>>

\* GetActiveToken finds none.
TokenMissing(t) ==
  /\ pc[t] = "find"
  /\ table' = Cleaned
  /\ Cleaned[user[t]] = NoEntry
  /\ pc' = [pc EXCEPT ![t] = "sign"]
  /\ UNCHANGED <<clock, user, now, answer, issued, rivals>>

\* Mutant of SignToken: the clock that is signed is not the one kept for expiry.
SignTokenUnread(t) ==
  /\ pc[t] = "sign"
  /\ issued' = issued \cup {Token(user[t], clock)}
  /\ pc' = [pc EXCEPT ![t] = "store"]
  /\ UNCHANGED <<clock, table, user, now, answer, rivals>>

\* GenerateToken reads the clock and signs.
SignToken(t) ==
  /\ pc[t] = "sign"
  /\ now' = [now EXCEPT ![t] = clock]
  /\ issued' = issued \cup {Token(user[t], clock)}
  /\ pc' = [pc EXCEPT ![t] = "store"]
  /\ UNCHANGED <<clock, table, user, answer, rivals>>

\* The threads whose logins of u have found no token.
Signing(u) == {t \in Threads : user[t] = u /\ pc[t] \in {"sign", "store"}}

\* Mutant of StoreToken: the entry is given the time of signing for expiry.
StoreTokenExpired(t) ==
  /\ pc[t] = "store"
  /\ table' = [Cleaned EXCEPT ![user[t]] =
                 [iat |-> now[t] \div Second, expiry |-> now[t]]]
  /\ answer' = [answer EXCEPT ![t] = Answer(user[t], now[t] \div Second, FALSE)]
  /\ rivals' = (rivals \cup Signing(user[t])) \ {t}
  /\ pc' = [pc EXCEPT ![t] = "idle"]
  /\ user' = [user EXCEPT ![t] = None]
  /\ now' = [now EXCEPT ![t] = 0]
  /\ UNCHANGED <<clock, issued>>

\* GenerateToken stores the token and the login is answered with it.
StoreToken(t) ==
  /\ pc[t] = "store"
  /\ table' = [Cleaned EXCEPT ![user[t]] =
                 [iat |-> now[t] \div Second, expiry |-> now[t] + Lifetime * Second]]
  /\ answer' = [answer EXCEPT ![t] = Answer(user[t], now[t] \div Second, FALSE)]
  /\ rivals' = (rivals \cup Signing(user[t])) \ {t}
  /\ pc' = [pc EXCEPT ![t] = "idle"]
  /\ user' = [user EXCEPT ![t] = None]
  /\ now' = [now EXCEPT ![t] = 0]
  /\ UNCHANGED <<clock, issued>>

Login(t) == TokenFound(t) \/ TokenMissing(t) \/ SignToken(t) \/ StoreToken(t)

\* The process dies and is started again: the table is lost, the tokens live on.
Restart ==
  /\ table' = [u \in Users |-> NoEntry]
  /\ pc' = [t \in Threads |-> "idle"]
  /\ user' = [t \in Threads |-> None]
  /\ now' = [t \in Threads |-> 0]
  /\ answer' = [t \in Threads |-> NoAnswer]
  /\ issued' = {}
  /\ rivals' = {}
  /\ UNCHANGED clock

Tick ==
  /\ clock < MaxTime
  /\ clock' = clock + 1
  /\ UNCHANGED <<table, pc, user, now, answer, issued, rivals>>

Next ==
  \/ \E t \in Threads :
       \/ \E u \in Users : StartLogin(t, u)
       \/ Login(t)
  \/ Restart
  \/ Tick

Spec == Init /\ [][Next]_vars

-----------------------------------------------------------------------------
(* Properties                                                              *)

TypeOK ==
  /\ clock \in 1..MaxTime
  /\ table \in [Users -> [iat : Nat, expiry : Nat]]
  /\ \A u \in Users : table[u] # NoEntry => [user |-> u, iat |-> table[u].iat] \in issued
  /\ pc \in [Threads -> {"idle", "find", "sign", "store"}]
  /\ user \in [Threads -> Users \cup {None}]
  /\ now \in [Threads -> 0..clock]
  /\ \A t \in Threads : pc[t] = "idle" <=> user[t] = None
  /\ answer \in [Threads -> [user : Users \cup {None}, iat : Nat, at : 0..clock,
                             found : BOOLEAN]]
  /\ issued \subseteq [user : Users, iat : Nat]
  /\ rivals \subseteq {t \in Threads : pc[t] \in {"sign", "store"}}

\* A login is about to replace a token that is still active only if another
\* login of the same user has stored one since this one looked: logins that do
\* not overlap share one token.  (login_handler.cpp 77-85)
DuplicateNeedsOverlap ==
  \A t \in Threads : pc[t] \in {"sign", "store"} /\ Active(user[t]) => t \in rivals

\* A user cannot gather tokens by logging in again and again.  Within one
\* lifetime an active token can be lost only to a thread that signed before it,
\* stalled and stores now, which each thread does once; in between, each of the
\* threads that have not done so signs at most once more.  So n threads leave a
\* user at most n + (n-1) + ... + 1 tokens that requests are accepted with.
LiveTokensBounded ==
  LET n == Cardinality(Threads) IN
  \A u \in Users :
    2 * Cardinality({tok \in issued : tok.user = u /\ Accepts(tok)}) <= n * (n + 1)

\* The table and the claims of the token disagree by less than a second: a
\* token a login finds in the table is at most that much past its exp.
FoundTokenIsNearlyAlive ==
  \A t \in Threads : answer[t].found => answer[t].at < Exp(answer[t]) + Second

=============================================================================
