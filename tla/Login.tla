-------------------------------- MODULE Login --------------------------------
(***************************************************************************)
(* AuthService.Authenticate: a fixed-window rate limit by address, a       *)
(* lockout by user and the verification of the password, run by several    *)
(* requests at once. Each dictionary operation is atomic; the requests     *)
(* interleave between them, and the password hash, which is slow on        *)
(* purpose, is computed between the look at the lockout and the failure    *)
(* that it counts.                                                         *)
(***************************************************************************)
EXTENDS Naturals, FiniteSets

CONSTANTS
  Requests,              \* requests that may be served at the same time
  Usernames,             \* usernames, up to case
  Stored,                \* those FindByUsername finds
  Addresses,             \* remote addresses
  Nobody,                \* the user or address of a request that is not being served
  MaxFailedAttempts,     \* AuthOptions
  MaxAttemptsPerWindow   \* AuthOptions

ASSUME RequestsAssumption == IsFiniteSet(Requests) /\ Requests # {}
ASSUME UsersAssumption == Stored \subseteq Usernames /\ Nobody \notin Usernames \cup Addresses
\* One failure never locks a user, so 1 means what 2 does.
ASSUME OptionsAssumption ==
  /\ MaxFailedAttempts \in Nat \ {0, 1}
  /\ MaxAttemptsPerWindow \in Nat \ {0}

VARIABLES
  fails,      \* _failures: failures since the last success, counted up to MaxFailedAttempts
  locked,     \* _failures: LockedUntil is in the future
  count,      \* _rate: attempts of the window, counted up to one more than allowed
  over,       \* _rate: the window is over, and the next attempt starts another
  pc,         \* where each request is
  user,       \* the username of each request
  guesses,    \* history: wrong passwords since the last success, lockout end or restart
  relapse,    \* history: a lockout has ended since the last success or restart
  overtaken   \* history: requests past the check when their user was locked

failures == <<fails, locked>>
rate == <<count, over>>
request == <<pc, user>>
history == <<guesses, relapse, overtaken>>
vars == <<failures, rate, request, history>>

Init ==
  /\ fails = [u \in Usernames |-> 0]
  /\ locked = [u \in Usernames |-> FALSE]
  /\ count = [i \in Addresses |-> 0]
  /\ over = [i \in Addresses |-> FALSE]
  /\ pc = [r \in Requests |-> "idle"]
  /\ user = [r \in Requests |-> Nobody]
  /\ guesses = [u \in Usernames |-> 0]
  /\ relapse = [u \in Usernames |-> FALSE]
  /\ overtaken = {}

\* Requests that work on u at one of the given places.
At(places, u) == {r \in Requests : pc[r] \in places /\ user[r] = u}

PastCheck == {"verify", "register", "clear"}

Answer(r) ==
  /\ pc' = [pc EXCEPT ![r] = "idle"]
  /\ user' = [user EXCEPT ![r] = Nobody]
  /\ overtaken' = overtaken \ {r}

-----------------------------------------------------------------------------
(* IsRateLimited: one AddOrUpdate counts the attempt, refused or not.      *)

Limited(n) == n > MaxAttemptsPerWindow

Counted(i) ==
  IF over[i] THEN 1
  ELSE IF Limited(count[i]) THEN count[i] ELSE count[i] + 1

Begin(r, u, i) ==
  /\ pc[r] = "idle"
  /\ count' = [count EXCEPT ![i] = Counted(i)]
  /\ over' = [over EXCEPT ![i] = FALSE]
  /\ IF Limited(Counted(i))
       THEN UNCHANGED request
       ELSE /\ pc' = [pc EXCEPT ![r] = "check"]
            /\ user' = [user EXCEPT ![r] = u]
  /\ UNCHANGED <<failures, history>>

WindowEnds(i) ==
  /\ count[i] > 0 /\ ~over[i]
  /\ over' = [over EXCEPT ![i] = TRUE]
  /\ UNCHANGED <<failures, count, request, history>>

-----------------------------------------------------------------------------
(* The lockout of the user.                                                *)

\* Mutated form: only the failures that were counted when the request came in matter.
CheckLockout_Count(r) ==
  /\ pc[r] = "check"
  /\ \/ /\ fails[user[r]] < MaxFailedAttempts \/ guesses[user[r]] = 0
        /\ pc' = [pc EXCEPT ![r] = "verify"] /\ UNCHANGED <<user, overtaken>>
     \/ locked[user[r]] /\ Answer(r)
  /\ UNCHANGED <<failures, rate, guesses, relapse>>

CheckLockout(r) ==
  /\ pc[r] = "check"
  /\ \/ /\ ~locked[user[r]]
        /\ pc' = [pc EXCEPT ![r] = "verify"] /\ UNCHANGED <<user, overtaken>>
     \/ locked[user[r]] /\ Answer(r)
  /\ UNCHANGED <<failures, rate, guesses, relapse>>

\* Any password may be right for a user that exists, and none is for the others.
Verify(r) ==
  /\ pc[r] = "verify"
  /\ \/ /\ user[r] \in Stored
        /\ pc' = [pc EXCEPT ![r] = "clear"]
        /\ UNCHANGED guesses
     \/ /\ pc' = [pc EXCEPT ![r] = "register"]
        /\ guesses' = [guesses EXCEPT ![user[r]] = @ + 1]
  /\ UNCHANGED <<failures, rate, user, relapse, overtaken>>

\* Mutated form: the failures start again when they lock the user.
CountFailure_Restarts(u) ==
  LET lock == fails[u] > 0 /\ fails[u] + 1 >= MaxFailedAttempts
  IN /\ fails' = [fails EXCEPT ![u] = IF lock THEN 0 ELSE @ + 1]
     /\ locked' = [locked EXCEPT ![u] = @ \/ lock]

\* The first failure never locks; one that reaches the maximum does, as every later one.
CountFailure(u) ==
  LET lock == fails[u] > 0 /\ fails[u] + 1 >= MaxFailedAttempts
  IN /\ fails' = [fails EXCEPT ![u] = IF lock THEN MaxFailedAttempts ELSE @ + 1]
     /\ locked' = [locked EXCEPT ![u] = @ \/ lock]

RegisterFailure(r) ==
  LET u == user[r] IN
  /\ pc[r] = "register"
  /\ CountFailure(u)
  /\ pc' = [pc EXCEPT ![r] = "idle"]
  /\ user' = [user EXCEPT ![r] = Nobody]
  /\ overtaken' = (IF ~locked[u] /\ locked'[u] THEN overtaken \cup At(PastCheck, u) ELSE overtaken) \ {r}
  /\ UNCHANGED <<rate, guesses, relapse>>

\* Mutated form: the lockout is lifted, but the entry stays and a failure is added to it.
Forget_KeepsFails(u) ==
  /\ locked' = [locked EXCEPT ![u] = FALSE]
  /\ fails' = [fails EXCEPT ![u] = @ + 1]

\* TryRemove: the failures and the lockout are forgotten.
Forget(u) ==
  /\ locked' = [locked EXCEPT ![u] = FALSE]
  /\ fails' = [fails EXCEPT ![u] = 0]

Succeed(r) ==
  LET u == user[r] IN
  /\ pc[r] = "clear"
  /\ Forget(u)
  /\ guesses' = [guesses EXCEPT ![u] = 0]
  /\ relapse' = [relapse EXCEPT ![u] = FALSE]
  /\ pc' = [pc EXCEPT ![r] = "idle"]
  /\ user' = [user EXCEPT ![r] = Nobody]
  /\ overtaken' = overtaken \ At(PastCheck, u)
  /\ UNCHANGED <<rate>>

\* LockedUntil passes. The count of failures stays.
LockoutEnds(u) ==
  /\ locked[u]
  /\ locked' = [locked EXCEPT ![u] = FALSE]
  /\ guesses' = [guesses EXCEPT ![u] = 0]
  /\ relapse' = [relapse EXCEPT ![u] = TRUE]
  /\ overtaken' = overtaken \ At(PastCheck, u)
  /\ UNCHANGED <<fails, rate, request>>

\* The process starts again: both dictionaries are in memory.
Restart ==
  /\ fails' = [u \in Usernames |-> 0] /\ locked' = [u \in Usernames |-> FALSE]
  /\ count' = [i \in Addresses |-> 0] /\ over' = [i \in Addresses |-> FALSE]
  /\ pc' = [r \in Requests |-> "idle"] /\ user' = [r \in Requests |-> Nobody]
  /\ guesses' = [u \in Usernames |-> 0] /\ relapse' = [u \in Usernames |-> FALSE]
  /\ overtaken' = {}

Next ==
  \/ \E r \in Requests :
       \/ \E u \in Usernames, i \in Addresses : Begin(r, u, i)
       \/ CheckLockout(r) \/ Verify(r) \/ RegisterFailure(r) \/ Succeed(r)
  \/ \E u \in Usernames : LockoutEnds(u)
  \/ \E i \in Addresses : WindowEnds(i)
  \/ Restart

Spec == Init /\ [][Next]_vars

-----------------------------------------------------------------------------
(* Properties.                                                             *)

\* Every variable holds a value of its type, a locked user has failed often enough, and
\* a request has a user exactly while it is served.
TypeOK ==
  /\ fails \in [Usernames -> 0..MaxFailedAttempts]
  /\ locked \in [Usernames -> BOOLEAN]
  /\ count \in [Addresses -> 0..MaxAttemptsPerWindow + 1]
  /\ over \in [Addresses -> BOOLEAN]
  /\ pc \in [Requests -> {"idle", "check"} \cup PastCheck]
  /\ user \in [Requests -> Usernames \cup {Nobody}]
  /\ guesses \in [Usernames -> Nat]
  /\ relapse \in [Usernames -> BOOLEAN]
  /\ overtaken \subseteq Requests
  /\ \A u \in Usernames : locked[u] \/ relapse[u] => fails[u] = MaxFailedAttempts
  /\ \A r \in Requests : pc[r] # "idle" <=> user[r] # Nobody

\* A lockout stops every request that was not past the check when it was set: none of
\* them verifies a password of that user, whatever else happens to it in between.
LockHolds == \A u \in Usernames : locked[u] => At(PastCheck, u) \subseteq overtaken

\* Requests that interleave get more guesses than the configuration says, and never more
\* than one each: between two lockouts of a user, as many wrong passwords are tried as
\* lock it (one, if a lockout has ended without a success since) and one by every other
\* request.
GuessesBounded ==
  \A u \in Usernames :
    guesses[u] < (IF relapse[u] THEN 1 ELSE MaxFailedAttempts) + Cardinality(Requests)
=============================================================================
