--------------------------- MODULE AuthTokensProofs ---------------------------
(***************************************************************************)
(* Proofs about AuthTokens: typing, that an active token is replaced only  *)
(* by overlapping logins, and that the expiry of the table runs ahead of   *)
(* the claim of the token by less than a second.  Each is preserved by     *)
(* every step given typing, so the proof takes them one action at a time.  *)
(* The bound on a user's live tokens comes last, from a budget of tokens   *)
(* for every window of a lifetime.                                         *)
(***************************************************************************)
EXTENDS AuthTokens, FiniteSetTheorems, TLAPS

\* A thread that is about to store has signed the token it stores.
SignedBeforeStore ==
  \A t \in Threads : pc[t] = "store" => Token(user[t], now[t]) \in issued

\* The expiry of an entry is past its claim by less than a second.
ExpiryNearClaim ==
  \A u \in Users : table[u] # NoEntry =>
    table[u].expiry < (table[u].iat + Lifetime) * Second + Second

IInv ==
  /\ TypeOK
  /\ SignedBeforeStore
  /\ ExpiryNearClaim
  /\ DuplicateNeedsOverlap
  /\ FoundTokenIsNearlyAlive

USE TimeAssumption, NoneAssumption

\* Cutting off the fraction of a second loses less than a second.
LEMMA WholeSeconds ==
  ASSUME NEW n \in Nat
  PROVE  /\ n \div Second \in Nat
         /\ n < (n \div Second) * Second + Second
  OBVIOUS

\* The same for a time to which a lifetime is added.
LEMMA WholeSecondsLater ==
  ASSUME NEW n \in Nat
  PROVE  /\ n \div Second \in Nat
         /\ n + Lifetime * Second \in Nat \ {0}
         /\ n + Lifetime * Second < (n \div Second + Lifetime) * Second + Second
<1> DEFINE k == n \div Second
<1>1. k \in Nat /\ n < k * Second + Second
  BY WholeSeconds
<1> HIDE DEF k
<1>2. (k + Lifetime) * Second = k * Second + Lifetime * Second
  BY <1>1
<1>3. Lifetime * Second \in Nat \ {0} /\ k * Second \in Nat
  BY <1>1
<1>4. n + Lifetime * Second < (k + Lifetime) * Second + Second
  <2> DEFINE a == k * Second
             b == Lifetime * Second
  <2>1. a \in Nat /\ b \in Nat /\ n < a + Second /\ (k + Lifetime) * Second = a + b
    BY <1>1, <1>2, <1>3
  <2> HIDE DEF a, b
  <2>2. n + b < a + b + Second
    BY <2>1
  <2> QED
    BY <2>1, <2>2 DEF b
<1> QED
  BY <1>1, <1>3, <1>4 DEF k

\* Removing what has expired leaves the other entries as they are.
LEMMA CleanedFacts ==
  ASSUME TypeOK
  PROVE  /\ Cleaned \in [Users -> [iat : Nat, expiry : Nat]]
         /\ \A u \in Users : Cleaned[u] # NoEntry =>
              Cleaned[u] = table[u] /\ clock <= Cleaned[u].expiry
  BY DEF TypeOK, Cleaned, NoEntry

LEMMA InitInv == Init => IInv
  BY DEF Init, IInv, TypeOK, SignedBeforeStore, ExpiryNearClaim, DuplicateNeedsOverlap,
         FoundTokenIsNearlyAlive, NoEntry, NoAnswer, Active, Exp

LEMMA NextInv == IInv /\ [Next]_vars => IInv'
<1> SUFFICES ASSUME IInv, [Next]_vars PROVE IInv'
  OBVIOUS
<1> USE DEF IInv
<1>1. ASSUME NEW t \in Threads, NEW u \in Users, StartLogin(t, u) PROVE IInv'
  <2> USE <1>1 DEF StartLogin, NoAnswer, Answer
  <2>1. TypeOK'
    BY DEF TypeOK, NoEntry
  <2>2. SignedBeforeStore' /\ ExpiryNearClaim'
    BY DEF SignedBeforeStore, ExpiryNearClaim, TypeOK, Token
  <2>3. DuplicateNeedsOverlap'
    BY DEF DuplicateNeedsOverlap, TypeOK, Active
  <2>4. FoundTokenIsNearlyAlive'
    BY DEF FoundTokenIsNearlyAlive, TypeOK, Exp
  <2> QED BY <2>1, <2>2, <2>3, <2>4
<1>2. ASSUME NEW t \in Threads, TokenFound(t) PROVE IInv'
  <2> USE <1>2 DEF TokenFound
  <2>0. user[t] \in Users /\ Cleaned[user[t]] \in [iat : Nat, expiry : Nat]
    BY CleanedFacts DEF TypeOK
  <2>1. TypeOK'
    BY <2>0, CleanedFacts DEF TypeOK, Answer
  <2>2. SignedBeforeStore' /\ ExpiryNearClaim'
    BY CleanedFacts DEF SignedBeforeStore, ExpiryNearClaim, TypeOK, Token
  <2>3. DuplicateNeedsOverlap'
    BY CleanedFacts DEF DuplicateNeedsOverlap, TypeOK, Active
  <2>4. FoundTokenIsNearlyAlive'
    <3> DEFINE sec == Cleaned[user[t]].iat
               end == Cleaned[user[t]].expiry
    <3>1. sec \in Nat /\ end \in Nat /\ clock <= end
          /\ end < (sec + Lifetime) * Second + Second
      BY <2>0, CleanedFacts DEF ExpiryNearClaim
    <3>2. clock \in Nat /\ (sec + Lifetime) * Second \in Nat
      BY <3>1 DEF TypeOK
    <3>3. answer' = [answer EXCEPT ![t] =
            [user |-> user[t], iat |-> sec, at |-> clock, found |-> TRUE]]
      BY DEF Answer
    <3> HIDE DEF sec, end
    <3>4. clock < (sec + Lifetime) * Second + Second
      BY <3>1, <3>2
    <3>5. answer'[t].at = clock /\ answer'[t].iat = sec
      <4> DEFINE ans == [user |-> user[t], iat |-> sec, at |-> clock, found |-> TRUE]
      <4>1. ans.at = clock /\ ans.iat = sec
        OBVIOUS
      <4> HIDE DEF ans
      <4>2. answer' = [answer EXCEPT ![t] = ans]
        BY <3>3 DEF ans
      <4> HIDE <1>2 DEF TokenFound
      <4>3. answer'[t] = ans
        BY <4>2 DEF TypeOK
      <4> QED BY <4>1, <4>3
    <3>6. \A t2 \in Threads : t2 # t => answer'[t2] = answer[t2]
      BY <3>3 DEF TypeOK
    <3> QED
      BY <3>4, <3>5, <3>6 DEF FoundTokenIsNearlyAlive, Exp
  <2> QED BY <2>1, <2>2, <2>3, <2>4
<1>3. ASSUME NEW t \in Threads, TokenMissing(t) PROVE IInv'
  <2> USE <1>3 DEF TokenMissing
  <2>0. user[t] \in Users
    BY DEF TypeOK
  <2>1. TypeOK'
    BY <2>0, CleanedFacts DEF TypeOK
  <2>2. SignedBeforeStore' /\ ExpiryNearClaim'
    BY CleanedFacts DEF SignedBeforeStore, ExpiryNearClaim, TypeOK, Token
  <2>3. DuplicateNeedsOverlap'
    BY <2>0, CleanedFacts DEF DuplicateNeedsOverlap, TypeOK, Active
  <2>4. FoundTokenIsNearlyAlive'
    BY DEF FoundTokenIsNearlyAlive, TypeOK, Exp
  <2> QED BY <2>1, <2>2, <2>3, <2>4
<1>4. ASSUME NEW t \in Threads, SignToken(t) PROVE IInv'
  <2> USE <1>4 DEF SignToken
  <2>0. user[t] \in Users /\ clock \in Nat /\ clock \div Second \in Nat
    BY WholeSeconds DEF TypeOK
  <2>1. TypeOK'
    BY <2>0 DEF TypeOK, Token
  <2>2. SignedBeforeStore' /\ ExpiryNearClaim'
    BY DEF SignedBeforeStore, ExpiryNearClaim, TypeOK, Token
  <2>3. DuplicateNeedsOverlap'
    BY DEF DuplicateNeedsOverlap, TypeOK, Active
  <2>4. FoundTokenIsNearlyAlive'
    BY DEF FoundTokenIsNearlyAlive, TypeOK, Exp
  <2> QED BY <2>1, <2>2, <2>3, <2>4
<1>5. ASSUME NEW t \in Threads, StoreToken(t) PROVE IInv'
  <2> USE <1>5 DEF StoreToken
  <2> DEFINE sec == now[t] \div Second
             end == now[t] + Lifetime * Second
  <2>0. /\ user[t] \in Users /\ now[t] \in Nat /\ sec \in Nat /\ end \in Nat \ {0}
        /\ end < (sec + Lifetime) * Second + Second
        /\ [user |-> user[t], iat |-> sec] \in issued
    <3>1. user[t] \in Users /\ now[t] \in Nat
      BY DEF TypeOK
    <3>2. [user |-> user[t], iat |-> sec] \in issued
      BY DEF SignedBeforeStore, Token
    <3> QED BY <3>1, <3>2, WholeSecondsLater
  <2>a. /\ table' = [Cleaned EXCEPT ![user[t]] = [iat |-> sec, expiry |-> end]]
        /\ answer' = [answer EXCEPT ![t] = Answer(user[t], sec, FALSE)]
    OBVIOUS
  <2> HIDE DEF sec, end
  <2>1. TypeOK'
    <3>1. \A t2 \in Threads : t2 # t => pc'[t2] = pc[t2] /\ user'[t2] = user[t2]
      BY DEF TypeOK
    <3>2. (rivals \subseteq {t2 \in Threads : pc[t2] \in {"sign", "store"}})'
      BY <3>1 DEF TypeOK, Signing
    <3> QED
      BY <2>0, <2>a, <3>2, CleanedFacts DEF TypeOK, Answer
  <2>2. SignedBeforeStore'
    BY DEF SignedBeforeStore, TypeOK, Token
  <2>3. ExpiryNearClaim'
    BY <2>0, <2>a, CleanedFacts DEF ExpiryNearClaim, TypeOK
  <2>4. DuplicateNeedsOverlap'
    BY <2>0, <2>a, CleanedFacts DEF DuplicateNeedsOverlap, TypeOK, Active, Signing
  <2>5. FoundTokenIsNearlyAlive'
    BY <2>a DEF FoundTokenIsNearlyAlive, TypeOK, Exp, Answer
  <2> QED BY <2>1, <2>2, <2>3, <2>4, <2>5
<1>6. CASE Restart
  BY <1>6 DEF Restart, TypeOK, SignedBeforeStore, ExpiryNearClaim, DuplicateNeedsOverlap,
              FoundTokenIsNearlyAlive, NoEntry, NoAnswer, Active, Exp
<1>7. CASE Tick
  <2> USE <1>7 DEF Tick
  <2>1. TypeOK'
    BY DEF TypeOK
  <2>2. SignedBeforeStore' /\ ExpiryNearClaim'
    BY DEF SignedBeforeStore, ExpiryNearClaim, TypeOK, Token
  <2>3. DuplicateNeedsOverlap'
    BY DEF DuplicateNeedsOverlap, TypeOK, Active
  <2>4. FoundTokenIsNearlyAlive'
    BY DEF FoundTokenIsNearlyAlive, TypeOK, Exp
  <2> QED BY <2>1, <2>2, <2>3, <2>4
<1>8. CASE UNCHANGED vars
  BY <1>8 DEF vars, TypeOK, SignedBeforeStore, ExpiryNearClaim, DuplicateNeedsOverlap,
              FoundTokenIsNearlyAlive, Active, Exp, Token
<1> QED
  BY <1>1, <1>2, <1>3, <1>4, <1>5, <1>6, <1>7, <1>8 DEF Next, Login

LEMMA Invariance == Spec => []IInv
  BY InitInv, NextInv, PTL DEF Spec

\* Every reachable state is well typed; an entry of the table is of a token
\* that was signed.  (auth_component.cpp 45-109)
THEOREM TypeCorrect == Spec => []TypeOK
  BY Invariance, PTL DEF IInv

\* Logins of a user that do not overlap share its active token, for any number
\* of users and threads.  (login_handler.cpp 77-85)
THEOREM SharedToken == Spec => []DuplicateNeedsOverlap
  BY Invariance, PTL DEF IInv

\* A token found in the table is past its exp claim by less than a second,
\* whatever its lifetime.  (auth_component.cpp 74-79, 87-104)
THEOREM FoundTokenAge == Spec => []FoundTokenIsNearlyAlive
  BY Invariance, PTL DEF IInv

-----------------------------------------------------------------------------
(* How many live tokens a user may have.                                   *)

\* Threads that signed a token of u before s, or from s on, and will store it.
Stalled(u, s) == {t \in Threads : pc[t] = "store" /\ user[t] = u /\ now[t] < s}
Storing(u, s) == {t \in Threads : pc[t] = "store" /\ user[t] = u /\ now[t] >= s}

\* Threads that have found no token of u and will sign one.
AboutToSign(u) == {t \in Threads : pc[t] = "sign" /\ user[t] = u}

\* The active token of u was signed at s or later.
Renewed(u, s) == table[u].expiry >= s + Lifetime * Second

\* The tokens of u whose second begins at s or later.
SignedSince(u, s) == {tok \in issued : tok.user = u /\ tok.iat * Second >= s}

\* How often u's threads can sign before a stalled one displaces the active token.
Chances(u, s) ==
  IF Renewed(u, s)
  THEN Cardinality(AboutToSign(u))
  ELSE Cardinality(Threads) - Cardinality(Stalled(u, s)) - Cardinality(Storing(u, s))

\* The tokens u has got since s, those it may get before the next stalled thread
\* stores, and those that the k stalled threads can bring about, n + ... + (n-k+1).
Budget(u, s) ==
  LET n == Cardinality(Threads)
      k == Cardinality(Stalled(u, s)) IN
  2 * Cardinality(SignedSince(u, s)) + 2 * Chances(u, s) + k * (2 * n - k + 1)
    <= n * (n + 1)

\* The budget is kept in every window no longer than a lifetime that reaches now.
BudgetKept ==
  \A u \in Users, s \in 0..clock : clock <= s + Lifetime * Second => Budget(u, s)

\* Only finitely many tokens have been signed, each in a second that has begun.
SignedByNow ==
  /\ IsFiniteSet(issued)
  /\ \A tok \in issued : tok.iat * Second <= clock

\* Two finite sets with no member in common.
LEMMA DisjointUnion ==
  ASSUME NEW A, NEW B, IsFiniteSet(A), IsFiniteSet(B), A \cap B = {}
  PROVE  /\ IsFiniteSet(A \cup B)
         /\ Cardinality(A \cup B) = Cardinality(A) + Cardinality(B)
<1>1. Cardinality(A \cap B) = 0
  BY FS_EmptySet, Zenon
<1>2. /\ IsFiniteSet(A \cup B)
      /\ Cardinality(A \cup B) = Cardinality(A) + Cardinality(B) - Cardinality(A \cap B)
  BY FS_Union, Zenon
<1>3. Cardinality(A) \in Nat /\ Cardinality(B) \in Nat
  BY FS_CardinalityType
<1> QED
  BY <1>1, <1>2, <1>3

\* The sets above are finite, and no thread is in two of them.
LEMMA ThreadSets ==
  ASSUME TypeOK, NEW u, NEW s \in Nat
  PROVE  /\ Cardinality(Threads) \in Nat
         /\ IsFiniteSet(Stalled(u, s)) /\ Cardinality(Stalled(u, s)) \in Nat
         /\ IsFiniteSet(Storing(u, s)) /\ Cardinality(Storing(u, s)) \in Nat
         /\ IsFiniteSet(AboutToSign(u)) /\ Cardinality(AboutToSign(u)) \in Nat
         /\ Cardinality(Stalled(u, s)) + Cardinality(Storing(u, s))
              + Cardinality(AboutToSign(u)) <= Cardinality(Threads)
<1> DEFINE A == Stalled(u, s)
           B == Storing(u, s)
           C == AboutToSign(u)
<1>1. /\ A \subseteq Threads /\ B \subseteq Threads /\ C \subseteq Threads
      /\ A \cap B = {} /\ (A \cup B) \cap C = {}
  BY DEF Stalled, Storing, AboutToSign, TypeOK
<1> HIDE DEF A, B, C
<1>2. IsFiniteSet(A) /\ IsFiniteSet(B) /\ IsFiniteSet(C)
  BY <1>1, FS_Subset, ThreadsAssumption
<1>3. /\ Cardinality(Threads) \in Nat /\ Cardinality(A) \in Nat
      /\ Cardinality(B) \in Nat /\ Cardinality(C) \in Nat
  BY <1>2, FS_CardinalityType, ThreadsAssumption
<1>4. IsFiniteSet(A \cup B) /\ Cardinality(A \cup B) = Cardinality(A) + Cardinality(B)
  BY <1>1, <1>2, <1>3, DisjointUnion
<1>5. Cardinality((A \cup B) \cup C) = Cardinality(A) + Cardinality(B) + Cardinality(C)
  BY <1>1, <1>2, <1>3, <1>4, DisjointUnion
<1>6. Cardinality((A \cup B) \cup C) <= Cardinality(Threads)
  BY <1>1, FS_Subset, ThreadsAssumption
<1> QED
  BY <1>2, <1>3, <1>5, <1>6 DEF A, B, C

\* The tokens of a window are finitely many, since those of the process are.
LEMMA TokenSets ==
  ASSUME SignedByNow, NEW u, NEW s
  PROVE  IsFiniteSet(SignedSince(u, s)) /\ Cardinality(SignedSince(u, s)) \in Nat
<1>1. SignedSince(u, s) \subseteq issued
  BY DEF SignedSince
<1> QED
  BY <1>1, FS_Subset, FS_CardinalityType DEF SignedByNow

\* n * (n - 1) is not negative.
LEMMA FallingProduct == ASSUME NEW m \in Nat PROVE m * m >= m
<1>1. CASE m = 0
  BY <1>1
<1>2. CASE m >= 1
  <2>1. m * m = (m - 1) * m + m
    OBVIOUS
  <2>2. (m - 1) * m \in Nat
    BY <1>2
  <2> QED
    BY <2>1, <2>2
<1> QED
  BY <1>1, <1>2

\* A user who got no token in a window and to whom at most the threads that do
\* not stall are left keeps the budget.
LEMMA FreshBudget ==
  ASSUME NEW n \in Nat, NEW k \in 0..n, NEW p \in Int, p <= n - k
  PROVE  2 * 0 + 2 * p + k * (2 * n - k + 1) <= n * (n + 1)
<1> DEFINE m == n - k
<1>1. m \in Nat /\ n = m + k /\ p <= m
  OBVIOUS
<1>2. m * m >= m
  BY <1>1, FallingProduct
<1> HIDE DEF m
<1>3. k * (2 * (m + k) - k + 1) = 2 * (m * k) + k * k + k
  BY <1>1
<1>4. (m + k) * ((m + k) + 1) = m * m + 2 * (m * k) + k * k + m + k
  BY <1>1
<1>5. m * m \in Int /\ m * k \in Int /\ k * k \in Int
  BY <1>1
<1> QED
  BY <1>1, <1>2, <1>3, <1>4, <1>5

\* A stalled thread that stores uses up its share.
LEMMA StalledShare ==
  ASSUME NEW n \in Nat, NEW k \in Nat \ {0}
  PROVE  k * (2 * n - k + 1) = (k - 1) * (2 * n - (k - 1) + 1) + 2 * (n - k + 1)
  OBVIOUS

\* What a step leaves alone costs the user nothing.
LEMMA SameBudget ==
  ASSUME NEW u, NEW s, Budget(u, s),
         Stalled(u, s)' = Stalled(u, s), Storing(u, s)' = Storing(u, s),
         AboutToSign(u)' = AboutToSign(u), SignedSince(u, s)' = SignedSince(u, s),
         Renewed(u, s)' <=> Renewed(u, s)
  PROVE  Budget(u, s)'
<1>1. Chances(u, s)' = Chances(u, s)
  BY DEF Chances
<1> QED
  BY <1>1 DEF Budget

\* A token that was signed in the window is not removed from the table in it.
LEMMA CleanedRenewed ==
  ASSUME TypeOK, NEW u \in Users, NEW s \in Nat, clock <= s + Lifetime * Second
  PROVE  /\ Renewed(u, s) => Cleaned[u] = table[u] /\ Cleaned[u] # NoEntry
         /\ Cleaned[u].expiry >= s + Lifetime * Second <=> Renewed(u, s)
<1> DEFINE w == Lifetime * Second
<1>1. w \in Nat \ {0} /\ clock <= s + w /\ clock \in Nat
  BY DEF TypeOK
<1>2. Renewed(u, s) <=> table[u].expiry >= s + w
  BY DEF Renewed
<1>3. table[u].expiry \in Nat
  BY DEF TypeOK
<1> HIDE DEF w
<1>4. Cleaned[u].expiry >= s + w <=> table[u].expiry >= s + w
  BY <1>1, <1>3 DEF Cleaned, NoEntry
<1>5. table[u].expiry >= s + w => Cleaned[u] = table[u] /\ Cleaned[u] # NoEntry
  BY <1>1, <1>3 DEF Cleaned, NoEntry
<1> QED
  BY <1>2, <1>4, <1>5 DEF w

\* Signing takes one of the user's chances and yields at most one token.
LEMMA SignBudget ==
  ASSUME TypeOK, SignedByNow, NEW t \in Threads, SignToken(t), NEW u \in Users,
         NEW s \in 0..clock, Budget(u, s)
  PROVE  Budget(u, s)'
<1> USE DEF SignToken
<1>0. s \in Nat /\ clock \in Nat /\ clock >= s
  BY DEF TypeOK
<1>1. CASE user[t] # u
  <2>1. Stalled(u, s)' = Stalled(u, s) /\ Storing(u, s)' = Storing(u, s)
        /\ AboutToSign(u)' = AboutToSign(u)
    BY <1>1 DEF TypeOK, Stalled, Storing, AboutToSign
  <2>2. SignedSince(u, s)' = SignedSince(u, s)
    BY <1>1 DEF SignedSince, Token
  <2>3. Renewed(u, s)' <=> Renewed(u, s)
    BY DEF Renewed
  <2> QED
    BY <2>1, <2>2, <2>3, SameBudget
<1>2. CASE user[t] = u
  <2>1. Stalled(u, s)' = Stalled(u, s)
    BY <1>0 DEF TypeOK, Stalled
  <2>2. Storing(u, s)' = Storing(u, s) \cup {t} /\ t \notin Storing(u, s)
    BY <1>0, <1>2 DEF TypeOK, Storing
  <2>3. AboutToSign(u)' = AboutToSign(u) \ {t} /\ t \in AboutToSign(u)
    BY <1>2 DEF TypeOK, AboutToSign
  <2>4. SignedSince(u, s)' \in {SignedSince(u, s), SignedSince(u, s) \cup {Token(user[t], clock)}}
    BY DEF SignedSince
  <2>5. /\ Cardinality(Storing(u, s)') = Cardinality(Storing(u, s)) + 1
        /\ Cardinality(AboutToSign(u)') = Cardinality(AboutToSign(u)) - 1
    <3>1. IsFiniteSet(Storing(u, s)) /\ IsFiniteSet(AboutToSign(u))
      BY <1>0, ThreadSets
    <3>2. Cardinality(Storing(u, s) \cup {t}) = Cardinality(Storing(u, s)) + 1
      BY <2>2, <3>1, FS_AddElement, Zenon
    <3>3. Cardinality(AboutToSign(u) \ {t}) = Cardinality(AboutToSign(u)) - 1
      BY <2>3, <3>1, FS_RemoveElement, Zenon
    <3> QED
      BY <2>2, <2>3, <3>2, <3>3
  <2>6. Cardinality(SignedSince(u, s)') <= Cardinality(SignedSince(u, s)) + 1
        /\ Cardinality(SignedSince(u, s)') \in Nat
    <3> DEFINE S == SignedSince(u, s)
               T == S \cup {Token(user[t], clock)}
    <3>1. IsFiniteSet(S) /\ Cardinality(S) \in Nat
      BY TokenSets
    <3>2. Cardinality(T) = Cardinality(S) \/ Cardinality(T) = Cardinality(S) + 1
      BY <3>1, FS_AddElement, Zenon
    <3>3. SignedSince(u, s)' = S \/ SignedSince(u, s)' = T
      BY <2>4
    <3> HIDE DEF S, T
    <3>4. \A C : C = S \/ C = T => Cardinality(C) <= Cardinality(S) + 1 /\ Cardinality(C) \in Nat
      BY <3>1, <3>2
    <3>5. Cardinality(SignedSince(u, s)') <= Cardinality(S) + 1
          /\ Cardinality(SignedSince(u, s)') \in Nat
      BY <3>3, <3>4, Zenon
    <3> QED
      BY <3>5 DEF S
  <2>7. Renewed(u, s)' <=> Renewed(u, s)
    BY DEF Renewed
  <2> DEFINE n == Cardinality(Threads)
             k == Cardinality(Stalled(u, s))
             c == Cardinality(SignedSince(u, s))
             d == Cardinality(SignedSince(u, s)')
             p == Chances(u, s)
             q == Chances(u, s)'
  <2>8. n \in Nat /\ k \in Nat /\ c \in Nat /\ d \in Nat /\ d <= c + 1
    BY <1>0, <2>6, ThreadSets, TokenSets
  <2>9. p \in Int /\ q = p - 1
    BY <1>0, <2>1, <2>5, <2>7, ThreadSets DEF Chances
  <2>10. 2 * c + 2 * p + k * (2 * n - k + 1) <= n * (n + 1)
    BY DEF Budget
  <2>11. Budget(u, s)' <=> 2 * d + 2 * q + k * (2 * n - k + 1) <= n * (n + 1)
    BY <2>1 DEF Budget
  <2> HIDE DEF n, k, c, d, p, q
  <2>12. k * (2 * n - k + 1) \in Int /\ n * (n + 1) \in Int
    BY <2>8
  <2> QED
    BY <2>8, <2>9, <2>10, <2>11, <2>12
<1> QED
  BY <1>1, <1>2

\* A thread that signed in the window makes the active token a new one; one that
\* stalled displaces it, and its share pays for the chances that brings back.
LEMMA StoreBudget ==
  ASSUME TypeOK, SignedByNow, NEW t \in Threads, StoreToken(t), NEW u \in Users,
         NEW s \in 0..clock, clock <= s + Lifetime * Second, Budget(u, s)
  PROVE  Budget(u, s)'
<1> USE DEF StoreToken
<1>0. s \in Nat /\ now[t] \in Nat /\ user[t] \in Users
  BY DEF TypeOK
<1>a. SignedSince(u, s)' = SignedSince(u, s) /\ AboutToSign(u)' = AboutToSign(u)
  BY DEF TypeOK, SignedSince, AboutToSign
<1>b. table'[u] = IF user[t] = u
                  THEN [iat |-> now[t] \div Second, expiry |-> now[t] + Lifetime * Second]
                  ELSE Cleaned[u]
  BY <1>0 DEF Cleaned
<1> DEFINE n == Cardinality(Threads)
           k == Cardinality(Stalled(u, s))
           l == Cardinality(Stalled(u, s)')
           b == Cardinality(Storing(u, s))
           a == Cardinality(AboutToSign(u))
           c == Cardinality(SignedSince(u, s))
           p == Chances(u, s)
           q == Chances(u, s)'
<1>c. /\ n \in Nat /\ k \in Nat /\ b \in Nat /\ a \in Nat /\ c \in Nat
      /\ k + b + a <= n
  BY <1>0, ThreadSets, TokenSets
<1>d. /\ p \in Int /\ p >= a
      /\ 2 * c + 2 * p + k * (2 * n - k + 1) <= n * (n + 1)
  BY <1>c DEF Chances, Budget
<1>e. Budget(u, s)' <=> 2 * c + 2 * q + l * (2 * n - l + 1) <= n * (n + 1)
  BY <1>a DEF Budget
<1>1. CASE user[t] # u
  <2>1. Stalled(u, s)' = Stalled(u, s) /\ Storing(u, s)' = Storing(u, s)
    BY <1>1 DEF TypeOK, Stalled, Storing
  <2>2. Renewed(u, s)' <=> Renewed(u, s)
    BY <1>0, <1>b, <1>1, CleanedRenewed DEF Renewed
  <2> QED
    BY <1>a, <2>1, <2>2, SameBudget
<1>2. CASE user[t] = u /\ now[t] >= s
  <2>1. Renewed(u, s)'
    <3>1. table'[u].expiry = now[t] + Lifetime * Second
      BY <1>b, <1>2
    <3> QED
      BY <1>0, <1>2, <3>1 DEF Renewed
  <2>2. Stalled(u, s)' = Stalled(u, s)
    BY <1>0, <1>2 DEF TypeOK, Stalled
  <2>3. q = a /\ l = k
    BY <1>a, <2>1, <2>2 DEF Chances
  <2> HIDE DEF n, k, l, b, a, c, p, q
  <2>4. k * (2 * n - k + 1) \in Int /\ n * (n + 1) \in Int
    BY <1>c
  <2> QED
    BY <1>c, <1>d, <1>e, <2>3, <2>4
<1>3. CASE user[t] = u /\ now[t] < s
  <2>1. ~Renewed(u, s)'
    <3>1. table'[u].expiry = now[t] + Lifetime * Second
      BY <1>b, <1>3
    <3>2. Lifetime * Second \in Nat
      OBVIOUS
    <3> QED
      BY <1>0, <1>3, <3>1, <3>2 DEF Renewed
  <2>2. Stalled(u, s)' = Stalled(u, s) \ {t} /\ t \in Stalled(u, s)
    BY <1>0, <1>3 DEF TypeOK, Stalled
  <2>3. Storing(u, s)' = Storing(u, s)
    BY <1>0, <1>3 DEF TypeOK, Storing
  <2>4. l = k - 1 /\ k # 0
    <3> DEFINE A == Stalled(u, s)
    <3>1. IsFiniteSet(A) /\ t \in A
      BY <1>0, <2>2, ThreadSets
    <3> HIDE DEF A
    <3>2. Cardinality(A \ {t}) = Cardinality(A) - 1 /\ Cardinality(A) # 0
      BY <3>1, FS_RemoveElement, FS_EmptySet, Zenon
    <3> QED
      BY <2>2, <3>2 DEF A
  <2>5. q = n - l - b
    BY <2>1, <2>3 DEF Chances
  <2> HIDE DEF n, k, l, b, a, c, p, q
  <2>6. k * (2 * n - k + 1) = (k - 1) * (2 * n - (k - 1) + 1) + 2 * (n - k + 1)
    BY <1>c, <2>4, StalledShare
  <2>7. l * (2 * n - l + 1) = k * (2 * n - k + 1) - 2 * (n - k + 1)
    BY <1>c, <2>4, <2>6
  <2>8. k * (2 * n - k + 1) \in Int /\ n * (n + 1) \in Int
    BY <1>c
  <2> QED
    BY <1>c, <1>d, <1>e, <2>4, <2>5, <2>7, <2>8
<1> QED
  BY <1>0, <1>1, <1>2, <1>3

\* A window that begins now, or with a new process: the user has no token of it.
NewWindowIsFree ==
  \A u : \A s \in Nat : SignedSince(u, s) = {} => Budget(u, s)

LEMMA NewWindow == TypeOK => NewWindowIsFree
<1> SUFFICES ASSUME TypeOK, NEW u, NEW s \in Nat, SignedSince(u, s) = {}
             PROVE  Budget(u, s)
  BY DEF NewWindowIsFree
<1>1. Cardinality(SignedSince(u, s)) = 0
  BY FS_EmptySet
<1> DEFINE n == Cardinality(Threads)
           k == Cardinality(Stalled(u, s))
           p == Chances(u, s)
<1>2. n \in Nat /\ k \in 0..n /\ p \in Int /\ p <= n - k
  BY ThreadSets DEF Chances
<1> HIDE DEF n, k, p
<1>3. 2 * 0 + 2 * p + k * (2 * n - k + 1) <= n * (n + 1)
  BY <1>2, FreshBudget
<1> QED
  BY <1>1, <1>3 DEF Budget, n, k, p

LEMMA BudgetInit == Init => BudgetKept /\ SignedByNow
<1> SUFFICES ASSUME Init PROVE BudgetKept /\ SignedByNow
  OBVIOUS
<1>1. TypeOK
  BY InitInv DEF IInv
<1>2. SignedByNow
  BY FS_EmptySet DEF Init, SignedByNow
<1>3. \A u, s : SignedSince(u, s) = {}
  BY DEF Init, SignedSince
<1> QED
  BY <1>1, <1>2, <1>3, NewWindow DEF BudgetKept, TypeOK, NewWindowIsFree

LEMMA BudgetNext ==
  TypeOK /\ TypeOK' /\ BudgetKept /\ SignedByNow /\ [Next]_vars => BudgetKept' /\ SignedByNow'
<1> SUFFICES ASSUME TypeOK, TypeOK', BudgetKept, SignedByNow, [Next]_vars
             PROVE  BudgetKept' /\ SignedByNow'
  OBVIOUS
<1>1. SignedByNow'
  <2>1. \A n \in Nat : (n \div Second) * Second <= n
    OBVIOUS
  <2>2. ASSUME NEW t \in Threads, SignToken(t) PROVE SignedByNow'
    <3>1. IsFiniteSet(issued')
      BY <2>2, FS_AddElement DEF SignToken, SignedByNow
    <3>2. (clock \div Second) * Second <= clock
      BY <2>1 DEF TypeOK
    <3>3. \A tok \in issued' : tok \in issued \/ tok.iat = clock \div Second
      BY <2>2 DEF SignToken, Token
    <3> QED
      BY <2>2, <3>1, <3>2, <3>3 DEF SignToken, SignedByNow
  <2>3. CASE Restart
    BY <2>3, FS_EmptySet DEF Restart, SignedByNow
  <2>4. CASE Tick
    BY <2>4 DEF Tick, SignedByNow, TypeOK
  <2>5. CASE issued' = issued /\ clock' = clock
    BY <2>5 DEF SignedByNow
  <2> QED
    BY <2>2, <2>3, <2>4, <2>5
    DEF Next, Login, StartLogin, TokenFound, TokenMissing, StoreToken, vars
<1>2. ASSUME NEW u \in Users, NEW s \in 0..clock', clock' <= s + Lifetime * Second
      PROVE  Budget(u, s)'
  <2>0. clock \in Nat /\ s \in Nat /\ Lifetime * Second \in Nat
    BY DEF TypeOK
  <2>a. NewWindowIsFree'
    BY NewWindow, PTL
  <2>b. SignedSince(u, s)' = {} => Budget(u, s)'
    BY <2>0, <2>a, Zenon DEF NewWindowIsFree
  <2>1. CASE Tick
    <3>1. CASE s <= clock
      <4>1. Budget(u, s)
        BY <1>2, <2>0, <2>1, <3>1 DEF BudgetKept, Tick
      <4> QED
        BY <2>1, <4>1, SameBudget
        DEF Tick, Stalled, Storing, AboutToSign, SignedSince, Renewed
    <3>2. CASE s > clock
      <4>1. SignedSince(u, s)' = {}
        BY <2>0, <2>1, <3>2 DEF Tick, SignedSince, SignedByNow, TypeOK
      <4> QED
        BY <2>b, <4>1
    <3> QED
      BY <2>0, <3>1, <3>2
  <2>2. CASE Restart
    <3>1. SignedSince(u, s)' = {}
      BY <2>2 DEF Restart, SignedSince
    <3> QED
      BY <2>b, <3>1
  <2>3. CASE clock' = clock
    <3>1. Budget(u, s) /\ s \in 0..clock /\ clock <= s + Lifetime * Second
      BY <1>2, <2>3 DEF BudgetKept
    <3>2. ASSUME NEW t \in Threads, SignToken(t) PROVE Budget(u, s)'
      BY <3>1, <3>2, SignBudget
    <3>3. ASSUME NEW t \in Threads, StoreToken(t) PROVE Budget(u, s)'
      BY <3>1, <3>3, StoreBudget
    <3>4. ASSUME NEW t \in Threads, NEW v \in Users, StartLogin(t, v) PROVE Budget(u, s)'
      <4>1. Stalled(u, s)' = Stalled(u, s) /\ Storing(u, s)' = Storing(u, s)
            /\ AboutToSign(u)' = AboutToSign(u) /\ SignedSince(u, s)' = SignedSince(u, s)
            /\ (Renewed(u, s)' <=> Renewed(u, s))
        BY <3>4 DEF StartLogin, TypeOK, Stalled, Storing, AboutToSign, SignedSince, Renewed
      <4> QED
        BY <3>1, <4>1, SameBudget
    <3>5. ASSUME NEW t \in Threads, TokenFound(t) PROVE Budget(u, s)'
      <4>1. Stalled(u, s)' = Stalled(u, s) /\ Storing(u, s)' = Storing(u, s)
            /\ AboutToSign(u)' = AboutToSign(u) /\ SignedSince(u, s)' = SignedSince(u, s)
        BY <3>5 DEF TokenFound, TypeOK, Stalled, Storing, AboutToSign, SignedSince
      <4>2. Renewed(u, s)' <=> Renewed(u, s)
        BY <2>0, <3>1, <3>5, CleanedRenewed DEF TokenFound, Renewed
      <4> QED
        BY <3>1, <4>1, <4>2, SameBudget
    <3>6. ASSUME NEW t \in Threads, TokenMissing(t) PROVE Budget(u, s)'
      <4> USE <3>6 DEF TokenMissing
      <4>1. Stalled(u, s)' = Stalled(u, s) /\ Storing(u, s)' = Storing(u, s)
            /\ SignedSince(u, s)' = SignedSince(u, s)
        BY DEF TypeOK, Stalled, Storing, SignedSince
      <4>2. Renewed(u, s)' <=> Renewed(u, s)
        BY <2>0, <3>1, CleanedRenewed DEF Renewed
      <4>3. CASE user[t] # u
        <5>1. AboutToSign(u)' = AboutToSign(u)
          BY <4>3 DEF TypeOK, AboutToSign
        <5> QED
          BY <3>1, <4>1, <4>2, <5>1, SameBudget
      <4>4. CASE user[t] = u
        <5>1. ~Renewed(u, s)
          BY <2>0, <3>1, <4>4, CleanedRenewed
        <5>2. Chances(u, s)' = Chances(u, s)
          BY <4>1, <4>2, <5>1 DEF Chances
        <5> QED
          BY <3>1, <4>1, <5>2 DEF Budget
      <4> QED
        BY <4>3, <4>4
    <3>7. CASE UNCHANGED vars
      BY <3>1, <3>7, SameBudget
      DEF vars, Stalled, Storing, AboutToSign, SignedSince, Renewed
    <3> QED
      BY <2>0, <2>3, <3>2, <3>3, <3>4, <3>5, <3>6, <3>7, <2>1, <2>2 DEF Next, Login
  <2> QED
    BY <2>1, <2>2, <2>3
    DEF Next, Login, StartLogin, TokenFound, TokenMissing, SignToken, StoreToken, vars
<1> QED
  BY <1>1, <1>2 DEF BudgetKept

\* The tokens requests are accepted with were signed in a window that the budget
\* covers, the one of the last lifetime.
LEMMA BudgetBoundsLive ==
  ASSUME TypeOK, BudgetKept, SignedByNow PROVE LiveTokensBounded
<1> DEFINE n == Cardinality(Threads)
           w == Lifetime * Second
           s == IF clock >= w THEN clock - w ELSE 0
<1>1. clock \in Nat /\ w \in Nat /\ s \in 0..clock /\ clock <= s + w
  BY DEF TypeOK
<1>2. ASSUME NEW u \in Users
      PROVE  2 * Cardinality({tok \in issued : tok.user = u /\ Accepts(tok)}) <= n * (n + 1)
  <2> DEFINE L == {tok \in issued : tok.user = u /\ Accepts(tok)}
             S == SignedSince(u, s)
             k == Cardinality(Stalled(u, s))
             p == Chances(u, s)
  <2>1. L \subseteq S
    <3> SUFFICES ASSUME NEW tok \in issued, tok.user = u, Accepts(tok)
                 PROVE  tok.iat * Second >= s
      BY DEF SignedSince
    <3>1. tok.iat \in Nat /\ clock <= (tok.iat + Lifetime) * Second
      BY DEF TypeOK, Accepts, Exp
    <3>2. (tok.iat + Lifetime) * Second = tok.iat * Second + w
      BY <3>1
    <3>3. tok.iat * Second \in Nat
      BY <3>1
    <3> HIDE DEF w
    <3> QED
      BY <1>1, <3>1, <3>2, <3>3
  <2>2. /\ IsFiniteSet(S) /\ Cardinality(S) \in Nat
        /\ n \in Nat /\ k \in 0..n /\ p \in Nat
    BY <1>1, TokenSets, ThreadSets DEF Chances
  <2>3. Cardinality(L) <= Cardinality(S) /\ Cardinality(L) \in Nat
    BY <2>1, <2>2, FS_Subset, FS_CardinalityType
  <2>4. 2 * Cardinality(S) + 2 * p + k * (2 * n - k + 1) <= n * (n + 1)
    BY <1>1 DEF BudgetKept, Budget
  <2> HIDE DEF L, S, k, p, n
  <2>5. k * (2 * n - k + 1) \in Nat /\ n * (n + 1) \in Nat
    BY <2>2
  <2>6. 2 * Cardinality(L) <= n * (n + 1)
    BY <2>2, <2>3, <2>4, <2>5
  <2> QED
    BY <2>6 DEF L
<1> QED
  BY <1>2 DEF LiveTokensBounded

\* However often a user logs in, and however long logins stall, n threads leave
\* the user at most n + (n-1) + ... + 1 tokens that requests are accepted with.
\* (login_handler.cpp 77-85, auth_component.cpp 45-109)
THEOREM LiveTokenBound == Spec => []LiveTokensBounded
<1>1. Init => BudgetKept /\ SignedByNow
  BY BudgetInit
<1>2. TypeOK /\ TypeOK' /\ (BudgetKept /\ SignedByNow) /\ [Next]_vars
        => (BudgetKept /\ SignedByNow)'
  BY BudgetNext
<1>3. TypeOK /\ BudgetKept /\ SignedByNow => LiveTokensBounded
  BY BudgetBoundsLive
<1> QED
  BY <1>1, <1>2, <1>3, TypeCorrect, PTL DEF Spec
=============================================================================
