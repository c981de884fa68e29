------------------------------ MODULE LoginProofs ------------------------------
(***************************************************************************)
(* Safety of Login for any number of requests, users, addresses and any    *)
(* limits. LockHolds is inductive with the types. GuessesBounded is not:   *)
(* before a lockout the guesses are the failures that were counted and     *)
(* those that are still to be, one by request; from the lockout on, only   *)
(* the requests that have not verified their password can add to them.     *)
(***************************************************************************)
EXTENDS Login, FiniteSetTheorems, TLAPS

Verifying(u) == At({"verify"}, u)
Registering(u) == At({"register"}, u)

\* Failures after which u is locked.
Allowed(u) == IF relapse[u] THEN 1 ELSE MaxFailedAttempts

\* The guesses at the password of u, and those that may still come while it is locked.
GuessesAccounted(u) ==
  /\ ~locked[u] /\ ~relapse[u] =>
       fails[u] < MaxFailedAttempts /\ guesses[u] <= fails[u] + Cardinality(Registering(u))
  /\ ~locked[u] /\ relapse[u] => guesses[u] <= Cardinality(Registering(u))
  /\ locked[u] =>
       guesses[u] + Cardinality(Verifying(u)) < Allowed(u) + Cardinality(Requests)

IInv == TypeOK /\ LockHolds /\ \A u \in Usernames : GuessesAccounted(u)

-----------------------------------------------------------------------------
(* Who is where.                                                           *)

\* The requests of any place can be counted.
LEMMA PlacesAreFinite ==
  ASSUME NEW S, S \subseteq Requests
  PROVE  /\ IsFiniteSet(S) /\ Cardinality(S) \in Nat
         /\ Cardinality(Requests) \in Nat \ {0} /\ Cardinality(S) <= Cardinality(Requests)
  <1>1. /\ IsFiniteSet(S) /\ Cardinality(S) \in Nat
        /\ Cardinality(Requests) \in Nat /\ Cardinality(S) <= Cardinality(Requests)
    BY RequestsAssumption, FS_Subset, FS_CardinalityType
  <1>2. Cardinality(Requests) # 0
    BY RequestsAssumption, FS_EmptySet
  <1>3. QED
    BY <1>1, <1>2

\* A request that is not in a place makes it larger by one, and one that is, smaller.
LEMMA Enters ==
  ASSUME NEW S, S \subseteq Requests, NEW r \in Requests \ S
  PROVE  Cardinality(S \cup {r}) = Cardinality(S) + 1
  BY PlacesAreFinite, FS_AddElement

\* One that leaves makes it smaller by one.
LEMMA Leaves ==
  ASSUME NEW S, S \subseteq Requests, NEW r \in S
  PROVE  Cardinality(S \ {r}) = Cardinality(S) - 1
  BY PlacesAreFinite, FS_RemoveElement

\* Nobody verifies and registers at once.
LEMMA Together ==
  ASSUME NEW u
  PROVE  Cardinality(Verifying(u)) + Cardinality(Registering(u)) <= Cardinality(Requests)
  <1> DEFINE V == Verifying(u)
             R == Registering(u)
  <1>1. V \subseteq Requests /\ R \subseteq Requests /\ V \cap R = {}
    BY DEF Verifying, Registering, At
  <1>2. IsFiniteSet(V) /\ IsFiniteSet(R) /\ Cardinality(V) \in Nat /\ Cardinality(R) \in Nat
    BY <1>1, PlacesAreFinite
  <1>3. Cardinality(V \cup R) = Cardinality(V) + Cardinality(R) - Cardinality({})
    BY <1>1, <1>2, FS_Union
  <1>4. Cardinality(V \cup R) <= Cardinality(Requests)
    <2>1. V \cup R \subseteq Requests
      BY <1>1
    <2>2. QED
      BY <2>1, PlacesAreFinite
  <1>5. QED
    BY <1>2, <1>3, <1>4, FS_EmptySet

-----------------------------------------------------------------------------
(* Every step keeps each part.                                             *)

\* Whatever a request, a clock or a restart does keeps the types.
LEMMA TypesStep == TypeOK /\ [Next]_vars => TypeOK'
  <1> SUFFICES ASSUME TypeOK, [Next]_vars PROVE TypeOK'
    OBVIOUS
  <1> USE OptionsAssumption, UsersAssumption
  <1>1. ASSUME NEW r \in Requests, NEW u \in Usernames, NEW i \in Addresses, Begin(r, u, i) PROVE TypeOK'
    <2>1. Counted(i) \in 0..MaxAttemptsPerWindow + 1
      BY DEF TypeOK, Counted, Limited
    <2>2. count' \in [Addresses -> 0..MaxAttemptsPerWindow + 1] /\ over' \in [Addresses -> BOOLEAN]
      BY <1>1, <2>1 DEF TypeOK, Begin
    <2>3. \/ UNCHANGED request
          \/ pc' = [pc EXCEPT ![r] = "check"] /\ user' = [user EXCEPT ![r] = u]
      BY <1>1 DEF Begin
    <2>4. UNCHANGED <<failures, history>>
      BY <1>1 DEF Begin
    <2>5. QED
      BY <2>2, <2>3, <2>4 DEF TypeOK, request, failures, history, PastCheck
  <1>2. ASSUME NEW r \in Requests, CheckLockout(r) PROVE TypeOK'
    <2>1. CASE pc' = [pc EXCEPT ![r] = "verify"] /\ UNCHANGED <<user, overtaken>>
      BY <1>2, <2>1 DEF TypeOK, CheckLockout, failures, rate, PastCheck
    <2>2. CASE Answer(r)
      BY <1>2, <2>2 DEF TypeOK, CheckLockout, Answer, failures, rate, PastCheck
    <2>3. QED
      BY <1>2, <2>1, <2>2 DEF CheckLockout
  <1>3. ASSUME NEW r \in Requests, Verify(r) PROVE TypeOK'
    <2>1. user[r] \in Usernames
      BY <1>3 DEF TypeOK, Verify
    <2>2. QED
      BY <1>3, <2>1 DEF TypeOK, Verify, failures, rate, PastCheck
  <1>4. ASSUME NEW r \in Requests, RegisterFailure(r) PROVE TypeOK'
    <2>1. user[r] \in Usernames
      BY <1>4 DEF TypeOK, RegisterFailure
    <2>2. PICK w \in Usernames : w = user[r]
      BY <2>1
    <2>3. CountFailure(w)
      BY <1>4, <2>2 DEF RegisterFailure
    <2>4. /\ fails' \in [Usernames -> 0..MaxFailedAttempts] /\ locked' \in [Usernames -> BOOLEAN]
          /\ \A v \in Usernames : locked'[v] \/ relapse[v] => fails'[v] = MaxFailedAttempts
      BY <2>3 DEF TypeOK, CountFailure
    <2>5. /\ pc' = [pc EXCEPT ![r] = "idle"] /\ user' = [user EXCEPT ![r] = Nobody]
          /\ overtaken' \subseteq Requests /\ UNCHANGED <<rate, guesses, relapse>>
      BY <1>4 DEF TypeOK, RegisterFailure, At
    <2>6. QED
      BY <2>4, <2>5 DEF TypeOK, rate, PastCheck
  <1>5. ASSUME NEW r \in Requests, Succeed(r) PROVE TypeOK'
    <2>1. user[r] \in Usernames
      BY <1>5 DEF TypeOK, Succeed
    <2>2. QED
      BY <1>5, <2>1 DEF TypeOK, Succeed, Forget, rate, PastCheck
  <1>6. ASSUME NEW u \in Usernames, LockoutEnds(u) PROVE TypeOK'
    BY <1>6 DEF TypeOK, LockoutEnds, rate, request
  <1>7. ASSUME NEW i \in Addresses, WindowEnds(i) PROVE TypeOK'
    BY <1>7 DEF TypeOK, WindowEnds, failures, request, history
  <1>8. CASE Restart
    BY <1>8 DEF TypeOK, Restart
  <1>9. CASE UNCHANGED vars
    BY <1>9 DEF TypeOK, vars, failures, rate, request, history
  <1>10. QED
    BY <1>1, <1>2, <1>3, <1>4, <1>5, <1>6, <1>7, <1>8, <1>9 DEF Next

\* Whoever is past the check of a locked name was there when it was locked.
LEMMA LockStep == TypeOK /\ LockHolds /\ [Next]_vars => LockHolds'
  <1> SUFFICES ASSUME TypeOK, LockHolds, [Next]_vars, NEW w \in Usernames, locked'[w],
                      NEW q \in Requests, pc'[q] \in PastCheck, user'[q] = w
               PROVE  q \in overtaken'
    BY DEF LockHolds, At
  <1> USE UsersAssumption
  <1>1. ASSUME pc[q] \in PastCheck, user[q] = w, locked[w] PROVE q \in overtaken
    BY <1>1 DEF LockHolds, At
  <1>2. ASSUME NEW r \in Requests, NEW u \in Usernames, NEW i \in Addresses, Begin(r, u, i) PROVE q \in overtaken'
    <2>1. q # r \/ UNCHANGED request
      BY <1>2 DEF TypeOK, Begin, PastCheck
    <2>2. pc[q] = pc'[q] /\ user[q] = user'[q] /\ locked' = locked /\ overtaken' = overtaken
      BY <1>2, <2>1 DEF TypeOK, Begin, request, failures, history
    <2>3. QED
      BY <1>1, <2>2
  <1>3. ASSUME NEW r \in Requests, CheckLockout(r) PROVE q \in overtaken'
    <2>1. locked' = locked
      BY <1>3 DEF CheckLockout, failures
    <2>2. CASE ~locked[user[r]] /\ pc' = [pc EXCEPT ![r] = "verify"] /\ UNCHANGED <<user, overtaken>>
      BY <1>1, <2>1, <2>2 DEF TypeOK
    <2>3. CASE Answer(r)
      <3>1. q # r
        BY <2>3 DEF Answer, TypeOK, PastCheck
      <3>2. QED
        BY <1>1, <2>1, <2>3, <3>1 DEF Answer, TypeOK
    <2>4. QED
      BY <1>3, <2>2, <2>3 DEF CheckLockout
  <1>4. ASSUME NEW r \in Requests, Verify(r) PROVE q \in overtaken'
    <2>1. user' = user /\ locked' = locked /\ overtaken' = overtaken
      BY <1>4 DEF Verify, failures
    <2>2. pc[q] \in PastCheck
      BY <1>4 DEF Verify, TypeOK, PastCheck
    <2>3. QED
      BY <1>1, <2>1, <2>2
  <1>5. ASSUME NEW r \in Requests, RegisterFailure(r) PROVE q \in overtaken'
    <2>1. q # r
      BY <1>5 DEF RegisterFailure, TypeOK, PastCheck
    <2>2. pc[q] = pc'[q] /\ user[q] = w
      BY <1>5, <2>1 DEF RegisterFailure, TypeOK
    <2>3. user[r] \in Usernames
      BY <1>5 DEF RegisterFailure, TypeOK
    <2>4. CASE locked[w]
      <3>1. overtaken \ {r} \subseteq overtaken'
        BY <1>5 DEF RegisterFailure
      <3>2. QED
        BY <1>1, <2>1, <2>2, <2>4, <3>1
    <2>5. CASE ~locked[w]
      <3>1. w = user[r]
        BY <1>5, <2>3, <2>5 DEF RegisterFailure, CountFailure, TypeOK
      <3>2. At(PastCheck, w) \ {r} \subseteq overtaken'
        BY <1>5, <2>5, <3>1 DEF RegisterFailure
      <3>3. q \in At(PastCheck, w)
        BY <2>2 DEF At
      <3>4. QED
        BY <2>1, <3>2, <3>3
    <2>6. QED
      BY <2>4, <2>5
  <1>6. ASSUME NEW r \in Requests, Succeed(r) PROVE q \in overtaken'
    <2>1. q # r /\ user[r] \in Usernames
      BY <1>6 DEF Succeed, TypeOK, PastCheck
    <2>2. pc[q] = pc'[q] /\ user[q] = w /\ w # user[r] /\ locked[w]
      BY <1>6, <2>1 DEF Succeed, Forget, TypeOK
    <2>3. q \notin At(PastCheck, user[r])
      BY <2>2 DEF At
    <2>4. QED
      BY <1>1, <1>6, <2>2, <2>3 DEF Succeed
  <1>7. ASSUME NEW u \in Usernames, LockoutEnds(u) PROVE q \in overtaken'
    <2>1. pc' = pc /\ user' = user /\ w # u /\ locked[w]
      BY <1>7 DEF LockoutEnds, request, TypeOK
    <2>2. q \notin At(PastCheck, u)
      BY <2>1 DEF At
    <2>3. QED
      BY <1>1, <1>7, <2>1, <2>2 DEF LockoutEnds
  <1>8. ASSUME NEW i \in Addresses, WindowEnds(i) PROVE q \in overtaken'
    BY <1>1, <1>8 DEF WindowEnds, failures, request, history
  <1>9. CASE Restart
    BY <1>9 DEF Restart
  <1>10. CASE UNCHANGED vars
    BY <1>1, <1>10 DEF vars, failures, request, history
  <1>11. QED
    BY <1>2, <1>3, <1>4, <1>5, <1>6, <1>7, <1>8, <1>9, <1>10 DEF Next

\* A request that does not verify or register with u, before or after, changes nothing.
LEMMA OthersAccounted ==
  ASSUME TypeOK, NEW w \in Usernames, GuessesAccounted(w),
         fails'[w] = fails[w], locked'[w] = locked[w], guesses'[w] = guesses[w], relapse'[w] = relapse[w],
         Registering(w)' = Registering(w) \/ locked[w],
         Verifying(w)' \subseteq Verifying(w) \/ ~locked[w]
  PROVE  GuessesAccounted(w)'
  <1>1. Allowed(w)' = Allowed(w)
    BY DEF Allowed
  <1>2. CASE ~locked[w]
    BY <1>2 DEF GuessesAccounted
  <1>3. CASE locked[w]
    <2>1. Verifying(w)' \subseteq Verifying(w) /\ Verifying(w) \subseteq Requests
      BY <1>3 DEF Verifying, At
    <2>2. /\ Cardinality(Verifying(w)') \in Nat /\ Cardinality(Verifying(w)) \in Nat
          /\ Cardinality(Verifying(w)') <= Cardinality(Verifying(w))
          /\ Cardinality(Requests) \in Nat
      <3>1. Verifying(w)' \subseteq Requests
        BY <2>1
      <3>2. IsFiniteSet(Verifying(w))
        BY <2>1, PlacesAreFinite
      <3>3. QED
        BY <2>1, <3>1, <3>2, PlacesAreFinite, FS_Subset
    <2>3. guesses[w] \in Nat /\ Allowed(w) \in Nat
      BY OptionsAssumption DEF TypeOK, Allowed
    <2>4. guesses[w] + Cardinality(Verifying(w)') < Allowed(w) + Cardinality(Requests)
      BY <1>3, <2>2, <2>3 DEF GuessesAccounted
    <2>5. QED
      BY <1>1, <1>3, <2>4 DEF GuessesAccounted
  <1>4. QED
    BY <1>2, <1>3 DEF TypeOK

\* A success, or the end of a lockout, starts the account again.
LEMMA StartsAgain ==
  ASSUME TypeOK, NEW w \in Usernames, ~locked'[w], guesses'[w] = 0,
         relapse'[w] \/ fails'[w] = 0
  PROVE  GuessesAccounted(w)'
  <1>1. Registering(w)' \subseteq Requests
    BY DEF Registering, At
  <1>2. Cardinality(Registering(w)') \in Nat
    BY <1>1, PlacesAreFinite
  <1>3. QED
    BY <1>2, OptionsAssumption DEF GuessesAccounted

\* A wrong password: one more guess, and one request less that may still make one.
LEMMA VerifyAccounted ==
  ASSUME TypeOK, NEW w \in Usernames, GuessesAccounted(w), NEW r \in Requests, Verify(r), user[r] = w
  PROVE  GuessesAccounted(w)'
  <1>1. /\ UNCHANGED <<fails, locked, relapse, user>> /\ guesses[w] \in Nat
        /\ \A q \in Requests \ {r} : pc'[q] = pc[q]
    BY DEF Verify, failures, TypeOK
  <1>2. /\ Verifying(w)' = Verifying(w) \ {r} /\ r \in Verifying(w) /\ r \notin Registering(w)
        /\ Verifying(w) \subseteq Requests /\ Registering(w) \subseteq Requests
    BY <1>1 DEF Verify, Verifying, Registering, At, TypeOK
  <1>3. CASE pc'[r] = "clear" /\ UNCHANGED guesses
    <2>1. Registering(w)' = Registering(w)
      BY <1>1, <1>2, <1>3 DEF Registering, At
    <2>2. QED
      BY <1>1, <1>2, <1>3, <2>1, OthersAccounted
  <1>4. CASE pc'[r] = "register" /\ guesses'[w] = guesses[w] + 1
    <2>1. Registering(w)' = Registering(w) \cup {r}
      BY <1>1, <1>2, <1>4 DEF Registering, At
    <2>2. /\ Cardinality(Registering(w)') = Cardinality(Registering(w)) + 1
          /\ Cardinality(Verifying(w)') = Cardinality(Verifying(w)) - 1
      BY <1>2, <2>1, Enters, Leaves
    <2>3. Cardinality(Registering(w)) \in Nat /\ Cardinality(Verifying(w)) \in Nat
      BY <1>2, PlacesAreFinite
    <2>4. Allowed(w)' = Allowed(w)
      BY <1>1 DEF Allowed
    <2>5. CASE ~locked[w]
      BY <1>1, <1>4, <2>2, <2>3, <2>5 DEF GuessesAccounted, TypeOK
    <2>6. CASE locked[w]
      BY <1>1, <1>4, <2>2, <2>3, <2>4, <2>6 DEF GuessesAccounted
    <2>7. QED
      BY <2>5, <2>6
  <1>5. QED
    BY <1>3, <1>4 DEF Verify, TypeOK

\* A failure that is counted: it leaves the ones that are still to be, or locks the user
\* with as many guesses as its limit allows and the others that register.
LEMMA RegisterAccounted ==
  ASSUME TypeOK, NEW w \in Usernames, GuessesAccounted(w), NEW r \in Requests, RegisterFailure(r), user[r] = w
  PROVE  GuessesAccounted(w)'
  <1> DEFINE R == Cardinality(Registering(w))
             V == Cardinality(Verifying(w))
             N == Cardinality(Requests)
             lock == fails[w] > 0 /\ fails[w] + 1 >= MaxFailedAttempts
  <1>1. /\ UNCHANGED <<guesses, relapse>> /\ guesses[w] \in Nat /\ fails[w] \in 0..MaxFailedAttempts
        /\ fails'[w] = (IF lock THEN MaxFailedAttempts ELSE fails[w] + 1)
        /\ locked'[w] = (locked[w] \/ lock)
        /\ \A q \in Requests \ {r} : pc'[q] = pc[q] /\ user'[q] = user[q]
        /\ pc[r] = "register" /\ pc'[r] = "idle"
    BY DEF RegisterFailure, CountFailure, TypeOK
  <1>2. /\ Registering(w)' = Registering(w) \ {r} /\ r \in Registering(w)
        /\ Verifying(w)' = Verifying(w)
        /\ Verifying(w) \subseteq Requests /\ Registering(w) \subseteq Requests
    BY <1>1 DEF Verifying, Registering, At
  <1>3. /\ Cardinality(Registering(w)') = R - 1 /\ Cardinality(Verifying(w)') = V
        /\ R \in Nat /\ V \in Nat /\ N \in Nat /\ R + V <= N
    BY <1>2, Leaves, PlacesAreFinite, Together
  <1>4. Allowed(w)' = Allowed(w) /\ Allowed(w) = IF relapse[w] THEN 1 ELSE MaxFailedAttempts
    BY <1>1 DEF Allowed
  <1>5. CASE locked[w]
    BY <1>1, <1>2, <1>5, OthersAccounted, <1>3, <1>4 DEF GuessesAccounted
  <1>6. CASE ~locked[w] /\ relapse[w]
    <2>1. fails[w] = MaxFailedAttempts
      BY <1>6 DEF TypeOK
    <2>2. lock
      BY <2>1, OptionsAssumption
    <2>3. guesses[w] <= R
      BY <1>6 DEF GuessesAccounted
    <2>4. guesses'[w] + V < Allowed(w) + N
      BY <1>1, <1>3, <1>4, <1>6, <2>3
    <2>5. locked'[w]
      BY <1>1, <2>2
    <2>6. QED
      BY <1>3, <1>4, <2>4, <2>5 DEF GuessesAccounted
  <1>7. CASE ~locked[w] /\ ~relapse[w]
    <2>1. fails[w] < MaxFailedAttempts /\ guesses[w] <= fails[w] + R
      BY <1>7 DEF GuessesAccounted
    <2>2. CASE lock
      <3>1. guesses'[w] + V < Allowed(w) + N
        BY <1>1, <1>3, <1>4, <1>7, <2>1, OptionsAssumption
      <3>2. locked'[w]
        BY <1>1, <2>2
      <3>3. QED
        BY <1>3, <1>4, <3>1, <3>2 DEF GuessesAccounted
    <2>3. CASE ~lock
      <3>1. fails'[w] = fails[w] + 1 /\ ~locked'[w] /\ ~relapse'[w]
        BY <1>1, <1>7, <2>3
      <3>2. fails'[w] < MaxFailedAttempts
        BY <1>1, <2>3, <3>1, OptionsAssumption
      <3>3. guesses'[w] <= fails'[w] + (R - 1)
        BY <1>1, <1>3, <2>1, <3>1
      <3>4. QED
        BY <1>3, <3>1, <3>2, <3>3 DEF GuessesAccounted
    <2>4. QED
      BY <2>2, <2>3
  <1>8. QED
    BY <1>5, <1>6, <1>7 DEF TypeOK

\* Each step moves one guess at most: from those verifying to those about to be counted,
\* from there into the counted failures, and out of all of them with a reset.
LEMMA GuessesStep ==
  ASSUME TypeOK, [Next]_vars, NEW w \in Usernames, GuessesAccounted(w)
  PROVE  GuessesAccounted(w)'
  <1> USE UsersAssumption
  <1>1. ASSUME NEW r \in Requests, NEW u \in Usernames, NEW i \in Addresses, Begin(r, u, i)
        PROVE  GuessesAccounted(w)'
    <2>1. fails' = fails /\ locked' = locked /\ guesses' = guesses /\ relapse' = relapse
      BY <1>1 DEF Begin, failures, history
    <2>2. CASE UNCHANGED request
      <3>1. /\ \A q \in Requests \ {r} : pc'[q] = pc[q] /\ user'[q] = user[q]
            /\ pc[r] = "idle" /\ pc'[r] = "idle"
        BY <1>1, <2>2 DEF Begin, request
      <3>2. Registering(w)' = Registering(w) /\ (Verifying(w)' \subseteq Verifying(w) \/ ~locked[w])
        BY <2>1, <3>1 DEF Registering, Verifying, At
      <3>3. QED
        BY <2>1, <3>2, OthersAccounted
    <2>3. CASE pc' = [pc EXCEPT ![r] = "check"] /\ user' = [user EXCEPT ![r] = u]
      <3>1. /\ \A q \in Requests \ {r} : pc'[q] = pc[q] /\ user'[q] = user[q]
            /\ pc[r] = "idle" /\ pc'[r] = "check"
        BY <1>1, <2>3 DEF Begin, TypeOK
      <3>2. Registering(w)' = Registering(w) /\ (Verifying(w)' \subseteq Verifying(w) \/ ~locked[w])
        BY <2>1, <3>1 DEF Registering, Verifying, At
      <3>3. QED
        BY <2>1, <3>2, OthersAccounted
    <2>4. QED
      BY <1>1, <2>2, <2>3 DEF Begin
  <1>2. ASSUME NEW r \in Requests, CheckLockout(r) PROVE GuessesAccounted(w)'
    <2>1. /\ fails' = fails /\ locked' = locked /\ guesses' = guesses /\ relapse' = relapse
          /\ pc[r] = "check"
      BY <1>2 DEF CheckLockout, failures
    <2>2. CASE ~locked[user[r]] /\ pc' = [pc EXCEPT ![r] = "verify"] /\ UNCHANGED <<user, overtaken>>
      <3>1. /\ \A q \in Requests \ {r} : pc'[q] = pc[q] /\ user'[q] = user[q]
            /\ user'[r] # w \/ (pc'[r] = "verify" /\ ~locked[w])
        BY <2>2 DEF TypeOK
      <3>2. Registering(w)' = Registering(w) /\ (Verifying(w)' \subseteq Verifying(w) \/ ~locked[w])
        BY <2>1, <3>1 DEF Registering, Verifying, At
      <3>3. QED
        BY <2>1, <3>2, OthersAccounted
    <2>3. CASE Answer(r)
      <3>1. /\ \A q \in Requests \ {r} : pc'[q] = pc[q] /\ user'[q] = user[q]
            /\ pc'[r] = "idle"
        BY <2>3 DEF Answer, TypeOK
      <3>2. Registering(w)' = Registering(w) /\ (Verifying(w)' \subseteq Verifying(w) \/ ~locked[w])
        BY <2>1, <3>1 DEF Registering, Verifying, At
      <3>3. QED
        BY <2>1, <3>2, OthersAccounted
    <2>4. QED
      BY <1>2, <2>2, <2>3 DEF CheckLockout
  <1>3. ASSUME NEW r \in Requests, Verify(r) PROVE GuessesAccounted(w)'
    <2>1. CASE user[r] = w
      BY <1>3, <2>1, VerifyAccounted
    <2>2. CASE user[r] # w
      <3>1. /\ UNCHANGED <<fails, locked, relapse, user>> /\ guesses'[w] = guesses[w]
            /\ \A q \in Requests \ {r} : pc'[q] = pc[q]
        BY <1>3, <2>2 DEF Verify, failures, TypeOK
      <3>2. Registering(w)' = Registering(w) /\ Verifying(w)' = Verifying(w)
        BY <2>2, <3>1 DEF Registering, Verifying, At
      <3>3. QED
        BY <3>1, <3>2, OthersAccounted
    <2>3. QED
      BY <2>1, <2>2
  <1>4. ASSUME NEW r \in Requests, RegisterFailure(r) PROVE GuessesAccounted(w)'
    <2>1. CASE user[r] = w
      BY <1>4, <2>1, RegisterAccounted
    <2>2. CASE user[r] # w
      <3>1. /\ fails'[w] = fails[w] /\ locked'[w] = locked[w] /\ UNCHANGED <<guesses, relapse>>
            /\ \A q \in Requests \ {r} : pc'[q] = pc[q] /\ user'[q] = user[q]
            /\ user'[r] = Nobody
        BY <1>4, <2>2 DEF RegisterFailure, CountFailure, TypeOK
      <3>2. Registering(w)' = Registering(w) /\ Verifying(w)' = Verifying(w)
        BY <2>2, <3>1 DEF Registering, Verifying, At
      <3>3. QED
        BY <3>1, <3>2, OthersAccounted
    <2>3. QED
      BY <2>1, <2>2
  <1>5. ASSUME NEW r \in Requests, Succeed(r) PROVE GuessesAccounted(w)'
    <2>1. CASE user[r] = w
      <3>1. ~locked'[w] /\ guesses'[w] = 0 /\ fails'[w] = 0
        BY <1>5, <2>1 DEF Succeed, Forget, TypeOK
      <3>2. QED
        BY <3>1, StartsAgain
    <2>2. CASE user[r] # w
      <3>1. /\ fails'[w] = fails[w] /\ locked'[w] = locked[w] /\ guesses'[w] = guesses[w] /\ relapse'[w] = relapse[w]
            /\ \A q \in Requests \ {r} : pc'[q] = pc[q] /\ user'[q] = user[q]
            /\ user'[r] = Nobody
        BY <1>5, <2>2 DEF Succeed, Forget, TypeOK
      <3>2. Registering(w)' = Registering(w) /\ Verifying(w)' = Verifying(w)
        BY <2>2, <3>1 DEF Registering, Verifying, At
      <3>3. QED
        BY <3>1, <3>2, OthersAccounted
    <2>3. QED
      BY <2>1, <2>2
  <1>6. ASSUME NEW u \in Usernames, LockoutEnds(u) PROVE GuessesAccounted(w)'
    <2>1. CASE u = w
      <3>1. ~locked'[w] /\ guesses'[w] = 0 /\ relapse'[w]
        BY <1>6, <2>1 DEF LockoutEnds, TypeOK
      <3>2. QED
        BY <3>1, StartsAgain
    <2>2. CASE u # w
      <3>1. /\ fails'[w] = fails[w] /\ locked'[w] = locked[w] /\ guesses'[w] = guesses[w] /\ relapse'[w] = relapse[w]
            /\ UNCHANGED <<pc, user>>
        BY <1>6, <2>2 DEF LockoutEnds, request, TypeOK
      <3>2. Registering(w)' = Registering(w) /\ Verifying(w)' = Verifying(w)
        BY <3>1 DEF Registering, Verifying, At
      <3>3. QED
        BY <3>1, <3>2, OthersAccounted
    <2>3. QED
      BY <2>1, <2>2
  <1>7. CASE UNCHANGED <<failures, request, history>>
    <2>1. UNCHANGED <<fails, locked, pc, user, guesses, relapse>>
      BY <1>7 DEF failures, request, history
    <2>2. Registering(w)' = Registering(w) /\ Verifying(w)' = Verifying(w)
      BY <2>1 DEF Registering, Verifying, At
    <2>3. QED
      BY <2>1, <2>2, OthersAccounted
  <1>8. CASE Restart
    <2>1. ~locked'[w] /\ guesses'[w] = 0 /\ fails'[w] = 0
      BY <1>8 DEF Restart
    <2>2. QED
      BY <2>1, StartsAgain
  <1>9. QED
    BY <1>1, <1>2, <1>3, <1>4, <1>5, <1>6, <1>7, <1>8 DEF Next, WindowEnds, vars

-----------------------------------------------------------------------------
(* The theorems.                                                           *)

\* IInv is an invariant: however the requests interleave.
THEOREM Invariance == Spec => []IInv
  <1>1. Init => IInv
    <2> SUFFICES ASSUME Init PROVE IInv
      OBVIOUS
    <2>1. TypeOK
      BY OptionsAssumption, UsersAssumption DEF Init, TypeOK
    <2>2. LockHolds
      BY DEF Init, LockHolds
    <2>3. ASSUME NEW u \in Usernames PROVE GuessesAccounted(u)
      <3>1. Registering(u) \subseteq Requests
        BY DEF Registering, At
      <3>2. Cardinality(Registering(u)) \in Nat
        BY <3>1, PlacesAreFinite
      <3>3. fails[u] = 0 /\ guesses[u] = 0 /\ ~locked[u] /\ ~relapse[u]
        BY DEF Init
      <3>4. QED
        BY <3>2, <3>3, OptionsAssumption DEF GuessesAccounted
    <2>4. QED
      BY <2>1, <2>2, <2>3 DEF IInv
  <1>2. IInv /\ [Next]_vars => IInv'
    BY TypesStep, LockStep, GuessesStep DEF IInv
  <1>3. QED
    BY <1>1, <1>2, PTL DEF Spec

\* Every variable of the login keeps to its type.
THEOREM TypesHold == Spec => []TypeOK
  BY Invariance, PTL DEF IInv

\* Only requests that were past the check when a user was locked verify a password of it.
THEOREM NobodyGetsPast == Spec => []LockHolds
  BY Invariance, PTL DEF IInv

\* Between two lockouts at most one guess by request comes on top of those that lock.
THEOREM GuessesAreFew == Spec => []GuessesBounded
  <1>1. IInv => GuessesBounded
    <2> SUFFICES ASSUME IInv, NEW u \in Usernames
                 PROVE  guesses[u] < Allowed(u) + Cardinality(Requests)
      BY DEF GuessesBounded, Allowed
    <2>1. /\ Verifying(u) \subseteq Requests /\ Registering(u) \subseteq Requests
          /\ GuessesAccounted(u) /\ TypeOK
      BY DEF IInv, Verifying, Registering, At
    <2>2. /\ Cardinality(Verifying(u)) \in Nat /\ Cardinality(Registering(u)) \in Nat
          /\ Cardinality(Requests) \in Nat \ {0} /\ Cardinality(Registering(u)) <= Cardinality(Requests)
      BY <2>1, PlacesAreFinite
    <2>3. guesses[u] \in Nat /\ fails[u] \in Nat /\ MaxFailedAttempts \in Nat
      BY <2>1, OptionsAssumption DEF TypeOK
    <2>4. CASE locked[u]
      <3>1. Allowed(u) \in Nat
        BY <2>3 DEF Allowed
      <3>2. QED
        BY <2>1, <2>2, <2>3, <2>4, <3>1 DEF GuessesAccounted
    <2>5. CASE ~locked[u]
      BY <2>1, <2>2, <2>3, <2>5 DEF GuessesAccounted, Allowed, TypeOK
    <2>6. QED
      BY <2>4, <2>5
  <1>2. QED
    BY <1>1, Invariance, PTL
==============================================================================
