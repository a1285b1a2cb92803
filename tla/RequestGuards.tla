---------------------------- MODULE RequestGuards ----------------------------
(***************************************************************************)
(* What a request passes before it is served: the list of request times of *)
(* an IP address (auth.py), and for the heavy endpoints the token buckets, *)
(* the storm events and the safe mode of storm_guard.py, then the intervals*)
(* legacy_app.py asks for between two fetches of a user and of a session.  *)
(*                                                                         *)
(* All of it is in the memory of one process and one request is one step:  *)
(* the handlers await nothing before their guards have passed.  Time is    *)
(* the wall clock in ticks; a level of tokens, a float in the code, is     *)
(* counted in 1/Window of a token and so exactly.                          *)
(***************************************************************************)
EXTENDS SequenceFilter

CONSTANTS
  Clients,       \* sessions, each the session key of its requests
  Account,       \* the user of a session; of a login, the hash of its user name
  UserOf,        \* the user id behind an account: itself, or that of the name
  Address,       \* its IP address
  Heavy,         \* endpoints with a budget, among them "pending_fetch", "login"
  UserCap, SessionCap, Window,               \* _ENDPOINT_BUDGETS
  Threshold, EventSpan, SafeSpan,            \* _STORM_..., _SAFE_MODE_SECONDS
  MinInterval,                               \* PENDING_FETCH_MIN_INTERVAL_SECONDS
  IpLimit, IpWindow,                         \* check_rate_limit: the limit of
                                             \* an endpoint, 60 seconds
  MaxTime,       \* bound: the clock
  Never          \* no time yet

ASSUME BudgetAssumption ==
  /\ UserCap \in [Heavy -> Nat \ {0}] /\ SessionCap \in [Heavy -> Nat \ {0}]
  /\ Window \in Nat \ {0}
ASSUME SpanAssumption ==
  /\ {Threshold, EventSpan, SafeSpan, IpWindow} \subseteq Nat \ {0}
  /\ IpLimit \in [Heavy -> Nat \ {0}]
  /\ MinInterval \in Nat /\ MaxTime \in Nat /\ Never \notin 0 .. MaxTime + SafeSpan

People == {Account[c] : c \in Clients}
Buckets == ({"user"} \X Heavy \X People) \cup ({"session"} \X Heavy \X Clients)
CapOf(b) == IF b[1] = "user" THEN UserCap[b[2]] ELSE SessionCap[b[2]]

VARIABLES
  now,        \* time.time()
  calls,      \* ip_rate_limits
  bucket,     \* _BUCKETS: level and time of the last request
  storms,     \* _USER_STORM_EVENTS
  safe,       \* _SAFE_MODE_UNTIL
  polled,     \* _USER_PENDING_FETCH_LAST_AT
  asked,      \* _pending_fetch_last_at
  served,     \* whether the last request was served
  granted,    \* history: times at which a bucket gave a token
  denied,     \* history: the bucket that denied an account's last request,
              \* and the time it was told to come again
  upset,      \* history: times of all storm events of an account
  called      \* history: the last request of an account or an address

guards == <<now, calls, bucket, storms, safe, polled, asked, served,
            granted, denied, upset, called>>

GuardsInit ==
  /\ now = 0
  /\ calls = [a \in {Address[c] : c \in Clients} |-> <<>>]
  /\ bucket = [b \in Buckets |-> [level |-> CapOf(b) * Window, at |-> 0]]
  /\ storms = [u \in People |-> <<>>]
  /\ safe = [u \in People |-> Never]
  /\ polled = [u \in People |-> Never]
  /\ asked = [c \in Clients |-> Never]
  /\ served = FALSE
  /\ granted = [b \in Buckets |-> <<>>]
  /\ denied = [u \in People |-> Never]
  /\ upset = [u \in People |-> <<>>]
  /\ called = [x \in People \cup {Address[c] : c \in Clients} |-> Never]

-----------------------------------------------------------------------------
(* The guards, as functions of the present state *)

Recent(q, span) == Select(q, {t \in 0 .. now : now - t < span})

Least(m, n) == IF m < n THEN m ELSE n
Most(m, n) == IF m < n THEN n ELSE m

\* mutant: a bucket that denies keeps its old time
Unstamped(b, level) == [level |-> level, at |-> bucket[b].at]

\* What a denied request leaves behind
Stamped(b, level) == [level |-> level, at |-> now]

\* The level after the refill
Level(b) == Least(CapOf(b) * Window, bucket[b].level + (now - bucket[b].at) * CapOf(b))

\* _token_bucket_allow
Allows(b) == Level(b) >= Window
Charged(b) == IF Allows(b) THEN [level |-> Level(b) - Window, at |-> now]
                           ELSE Stamped(b, Level(b))

\* int(max(1.0, needed / refill_rate)), rounded down
RetryAfter(b) == Most(1, (Window - Level(b)) \div CapOf(b))

\* mutant: events are never forgotten
EverySince(u) == storms[u]

\* The rolling window of an account's storm events
EventsOf(u) == Select(storms[u], {t \in 0 .. now : t + EventSpan >= now})

\* mutant: a safe mode is never over
StaysSafe(u) == safe[u] # Never

\* get_safe_mode_retry_after: when it is over, the events go too.
InSafeMode(u) == safe[u] # Never /\ now < safe[u]
Eased(u) == safe[u] # Never /\ now >= safe[u]

\* _record_storm_event, of a denied request or a wrong password.  The request
\* has looked at the safe mode before.
Upsets(u) ==
  LET events == Append(IF Eased(u) THEN <<>> ELSE EventsOf(u), now)
  IN
  /\ storms' = [storms EXCEPT ![u] = events]
  /\ safe' = [safe EXCEPT ![u] = IF Len(events) >= Threshold THEN now + SafeSpan
                                 ELSE IF Eased(u) THEN Never ELSE @]
  /\ upset' = [upset EXCEPT ![u] = Append(@, now)]

\* The safe modes looked at that are over.
Calms(us) ==
  LET over == {u \in us : Eased(u)}
  IN
  /\ storms' = [u \in People |-> IF u \in over THEN <<>> ELSE storms[u]]
  /\ safe' = [u \in People |-> IF u \in over THEN Never ELSE safe[u]]
  /\ UNCHANGED upset

TooSoon(last) == last # Never /\ now - last < MinInterval

-----------------------------------------------------------------------------
(* Requests *)

UserBucket(c, e) == <<"user", e, Account[c]>>
SessionBucket(c, e) == <<"session", e, c>>

\* Takes a token from each bucket of given, and charges full for nothing.
Charges(given, full) ==
  /\ bucket' = [b \in Buckets |-> IF b \in given \cup full THEN Charged(b) ELSE bucket[b]]
  /\ granted' = [b \in Buckets |-> IF b \in given THEN Append(granted[b], now) ELSE granted[b]]

\* check_rate_limit: the address has too many requests in its window, of
\* whatever endpoints.
IpDenies(c, e) ==
  /\ Len(Recent(calls[Address[c]], IpWindow)) >= IpLimit[e]
  /\ calls' = [calls EXCEPT ![Address[c]] = Recent(@, IpWindow)]
  /\ served' = FALSE
  /\ denied' = [denied EXCEPT ![Account[c]] = Never]
  /\ UNCHANGED <<bucket, storms, safe, polled, asked, granted, upset>>

IpAllows(c, e) ==
  LET list == Recent(calls[Address[c]], IpWindow)
  IN Len(list) < IpLimit[e] /\ calls' = [calls EXCEPT ![Address[c]] = Append(list, now)]

\* allow_heavy_endpoint answers safe_mode: no token is charged, no event noted.
SafeModeDenies(c, e) ==
  /\ IpAllows(c, e)
  /\ InSafeMode(Account[c])
  /\ served' = FALSE
  /\ denied' = [denied EXCEPT ![Account[c]] = Never]
  /\ UNCHANGED <<bucket, storms, safe, polled, asked, granted, upset>>

\* user_budget or session_budget: the user's token is gone even when the
\* session's bucket denies.
BudgetDenies(c, e) ==
  LET ub == UserBucket(c, e)
      b == IF Allows(ub) THEN SessionBucket(c, e) ELSE ub
  IN
  /\ IpAllows(c, e)
  /\ ~ InSafeMode(Account[c]) /\ ~ Allows(b)
  /\ Charges({ub} \ {b}, {b})
  /\ Upsets(Account[c])
  /\ denied' = [denied EXCEPT ![Account[c]] = [bucket |-> b, again |-> now + RetryAfter(b)]]
  /\ served' = FALSE
  /\ UNCHANGED <<polled, asked>>

\* The budgets hold.  A pending fetch has still to keep the interval of its
\* user, then that of its session, and each look moves the stamp; a login has
\* to have the right password, then looks at the safe mode of the user id.
Passes(c, e) ==
  LET u == Account[c]
      byUser == e = "pending_fetch" /\ TooSoon(polled[u])
      bySession == e = "pending_fetch" /\ ~ byUser /\ TooSoon(asked[c])
  IN
  /\ IpAllows(c, e)
  /\ ~ InSafeMode(u) /\ Allows(UserBucket(c, e)) /\ Allows(SessionBucket(c, e))
  /\ Charges({UserBucket(c, e), SessionBucket(c, e)}, {})
  /\ polled' = [polled EXCEPT ![u] = IF e = "pending_fetch" THEN now ELSE @]
  /\ asked' = [asked EXCEPT ![c] = IF e = "pending_fetch" /\ ~ byUser THEN now ELSE @]
  /\ denied' = [denied EXCEPT ![u] = Never]
  /\ \/ e # "login" /\ Calms({u}) /\ served' = (~ byUser /\ ~ bySession)
     \/ e = "login" /\ Upsets(u) /\ served' = FALSE
     \/ e = "login" /\ Calms({u, UserOf[u]}) /\ served' = ~ InSafeMode(UserOf[u])

Request(c, e) ==
  /\ IpDenies(c, e) \/ SafeModeDenies(c, e) \/ BudgetDenies(c, e) \/ Passes(c, e)
  /\ called' = [called EXCEPT ![Account[c]] = now, ![UserOf[Account[c]]] = now, ![Address[c]] = now]
  /\ UNCHANGED now

Tick ==
  /\ now < MaxTime
  /\ now' = now + 1
  /\ served' = FALSE
  /\ UNCHANGED <<calls, bucket, storms, safe, polled, asked, granted, denied, upset, called>>

\* RATE_LIMIT_CLEANUP_INTERVAL is over: every list of calls is thrown away.
ForgetCalls ==
  /\ calls' = [a \in DOMAIN calls |-> <<>>]
  /\ UNCHANGED <<now, bucket, storms, safe, polled, asked, served, granted, denied, upset, called>>

\* A new process knows nothing of the requests before.
GuardsCrash ==
  /\ calls' = [a \in DOMAIN calls |-> <<>>]
  /\ bucket' = [b \in Buckets |-> [level |-> CapOf(b) * Window, at |-> now]]
  /\ storms' = [u \in People |-> <<>>] /\ upset' = storms'
  /\ safe' = [u \in People |-> Never] /\ polled' = safe' /\ denied' = safe'
  /\ asked' = [c \in Clients |-> Never]
  /\ granted' = [b \in Buckets |-> <<>>]
  /\ called' = [x \in DOMAIN called |-> Never]
  /\ served' = FALSE
  /\ UNCHANGED now

GuardsNext ==
  \/ \E c \in Clients, e \in Heavy : Request(c, e)
  \/ Tick
  \/ ForgetCalls

GuardsSpec == GuardsInit /\ [][GuardsNext \/ GuardsCrash]_guards

-----------------------------------------------------------------------------
(* Properties *)

GuardsTypeOK ==
  /\ now \in 0 .. MaxTime
  /\ \A b \in Buckets : bucket[b].level \in 0 .. CapOf(b) * Window /\ bucket[b].at \in 0 .. now
  /\ \A u \in People : safe[u] \in {Never} \cup (0 .. MaxTime + SafeSpan)
  /\ polled \in [People -> {Never} \cup (0 .. now)]
  /\ asked \in [Clients -> {Never} \cup (0 .. now)]

\* Over any stretch of time a bucket gives out its capacity and what was
\* refilled meanwhile, however its requests and denials are spread.
BudgetHolds ==
  \A b \in Buckets : \A i, j \in DOMAIN granted[b] :
    i <= j => (j - i + 1) * Window <= CapOf(b) * Window + (granted[b][j] - granted[b][i]) * CapOf(b)

\* The safe mode was earned: Threshold storm events within EventSpan led to it.
SafeModeIsEarned ==
  \A u \in People : safe[u] # Never =>
    LET began == safe[u] - SafeSpan
    IN Cardinality({i \in DOMAIN upset[u] :
                      upset[u][i] <= began /\ upset[u][i] + EventSpan >= began}) >= Threshold

\* The time a bucket tells a client to wait is at most a tick short, by its
\* rounding: after one more the bucket allows, if the account kept quiet.
RetrySuffices ==
  \A u \in People :
    denied[u] # Never /\ now > denied[u].again => Allows(denied[u].bucket)

\* Heavy requests are given out at the rate of their bucket, neither faster, however
\* they are spread, nor later than a client that was denied is told.
BudgetIsFair == BudgetHolds /\ RetrySuffices

\* Being throttled ends by itself: after a pause of its account and address as
\* long as every window, a request is served whatever was done before.
Pause == Most(Most(Window, SafeSpan), Most(MinInterval, IpWindow))
Rested(x) == called[x] = Never \/ now - called[x] >= Pause
QuietIsServed ==
  [][\A c \in Clients :
       (\E e \in Heavy \ {"login"} : Request(c, e))
         /\ Rested(Account[c]) /\ Rested(Address[c])
         => served']_guards
=============================================================================
