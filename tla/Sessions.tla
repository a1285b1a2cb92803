------------------------------- MODULE Sessions -------------------------------
(***************************************************************************)
(* Device sessions of chat_backend: login, logout, the main device, the    *)
(* removal of devices and accounts, and the cache validate_session_token   *)
(* answers from.                                                           *)
(*                                                                         *)
(* Coroutine endpoints run on the event loop and give it up at an await    *)
(* only; plain functions (deregister, account_reset, update_fcm_token) run *)
(* in a thread pool, between any two commits of the others.  A login       *)
(* commits three times without an await, so only they, and a crash, see    *)
(* the states in between.                                                  *)
(***************************************************************************)
EXTENDS Naturals, FiniteSets

CONSTANTS
  Users,
  Devices,     \* primary keys of sessions: a device id of a user
  Owner,       \* the user of each device
  Pooled,      \* bound: the devices that call endpoints of the thread pool
  Socketed,    \* bound: the devices that ask for tickets
  Secrets,     \* what secrets.token_hex returns, never twice; bounds the logins
  Blank,       \* the empty session_secret of a logged-out row
  None

ASSUME OwnerAssumption == Owner \in [Devices -> Users]
ASSUME NoneAssumption ==
  /\ None \notin Secrets \cup Devices /\ Blank \notin Secrets /\ Blank # None

VARIABLES
  accounts,   \* rows of users
  bootstrap,  \* _fresh_registration_main_bootstrap, entries not past 600 s
  secret,     \* sessions.session_secret of each device, None without a row
  main,       \* devices whose row has is_main = 1
  used,       \* secrets handed out so far
  cache,      \* secrets in _session_cache, entries not past their time
  tickets,    \* secrets with a ws_ticket that still opens a socket
  opening,    \* secrets whose socket has used its ticket and is not registered yet
  online,     \* secrets with a registered socket
  login,      \* the login on the event loop, between two of its commits
  kill,       \* kill_device requests that await their send: target secret
  call,       \* thread-pool requests past the start of validate_session_token
  holds,      \* the secret each device's client uses
  marked,     \* history: the device last made main and not removed since
  booted      \* history: accounts whose bootstrap made a device main

rows == <<accounts, secret, main>>
sockets == <<tickets, opening, online>>
requests == <<login, kill, call>>
history == <<marked, booted>>
vars == <<rows, bootstrap, used, cache, sockets, requests, holds, history>>

NoLogin == [dev |-> None, step |-> "none", main |-> FALSE, boot |-> FALSE]
NoCall == [op |-> "none", secret |-> None, found |-> FALSE]

DevicesOf(u) == {d \in Devices : Owner[d] = u}
HasRow(s) == \E d \in Devices : secret[d] = s
RowOf(s) == {d \in Devices : secret[d] = s}
SecretsOf(u) == {secret[d] : d \in DevicesOf(u)}

\* validate_session_token on the event loop: the cache, then the table.  An
\* empty token is nobody's.
Accepted(s) == s \in Secrets /\ (s \in cache \/ HasRow(s))

\* The event loop runs something else than a login.
LoopFree == login.step = "none"

\* The rows of D are deleted; a main mark goes with its row.
Deleted(D) ==
  /\ secret' = [d \in Devices |-> IF d \in D THEN None ELSE secret[d]]
  /\ main' = main \ D
  /\ marked' = [u \in Users |-> IF marked[u] \in D THEN None ELSE marked[u]]

Init ==
  /\ accounts = {} /\ bootstrap = {}
  /\ secret = [d \in Devices |-> None]
  /\ main = {} /\ used = {} /\ cache = {} /\ tickets = {} /\ opening = {} /\ online = {}
  /\ login = NoLogin
  /\ kill = [d \in Devices |-> None]
  /\ call = [d \in Devices |-> NoCall]
  /\ holds = [d \in Devices |-> None]
  /\ marked = [u \in Users |-> None]
  /\ booted = {}

-----------------------------------------------------------------------------
(* Registration and login *)

\* The client may choose the id of a removed account; a session row that a
\* login left behind then belongs to the new one.
Register(u) ==
  /\ LoopFree /\ u \notin accounts
  /\ accounts' = accounts \cup {u}
  /\ bootstrap' = bootstrap \cup {u}
  /\ booted' = booted \ {u}
  /\ UNCHANGED <<secret, main, used, cache, sockets, requests, holds, marked>>

\* The 600 seconds of the bootstrap are over.
BootstrapLapses(u) ==
  /\ u \in bootstrap
  /\ bootstrap' = bootstrap \ {u}
  /\ UNCHANGED <<rows, used, cache, sockets, requests, holds, history>>

\* First commit: whether the device was main is remembered, its row deleted.
LoginDelete(d, requested) ==
  LET u == Owner[d]
  IN
  /\ LoopFree /\ u \in accounts
  /\ login' = [dev |-> d, step |-> "deleted", main |-> d \in main,
               boot |-> requested /\ u \in bootstrap]
  /\ secret' = [secret EXCEPT ![d] = None]
  /\ main' = main \ {d}
  /\ UNCHANGED <<accounts, bootstrap, used, cache, sockets, kill, call, holds,
                 history>>

\* effective_is_main
BecomesMain(l) == l.main \/ l.boot

\* mutant: the other devices stay main
AllMains(l) == main

\* Second commit: the other devices of the user are not main any more.
OtherMains(l) == main \ (DevicesOf(Owner[l.dev]) \ {l.dev})

LoginDemote ==
  /\ login.step = "deleted"
  /\ login' = [login EXCEPT !.step = "demoted"]
  /\ IF BecomesMain(login)
       THEN /\ main' = OtherMains(login)
            /\ marked' = [marked EXCEPT ![Owner[login.dev]] = login.dev]
       ELSE UNCHANGED <<main, marked>>
  /\ UNCHANGED <<accounts, bootstrap, secret, used, cache, sockets, kill, call,
                 holds, booted>>

\* mutant: a main device that logs in again is not main
FreshOnly(l) == l.boot

\* is_main of the inserted row
InsertedMain(l) == l.main \/ l.boot

\* mutant: the bootstrap stays for its 600 seconds
NotPopped(l) == bootstrap

\* The bootstrap is used up with the row that it made main.
Popped(l) == IF l.boot THEN bootstrap \ {Owner[l.dev]} ELSE bootstrap

\* Third commit: the new row.  The answer may be lost on its way.
LoginInsert(s, arrives) ==
  LET d == login.dev
      u == Owner[d]
  IN
  /\ login.step = "demoted" /\ s \notin used
  /\ used' = used \cup {s}
  /\ secret' = [secret EXCEPT ![d] = s]
  /\ main' = IF InsertedMain(login) THEN main \cup {d} ELSE main
  /\ bootstrap' = Popped(login)
  /\ booted' = IF login.boot THEN booted \cup {u} ELSE booted
  /\ holds' = IF arrives THEN [holds EXCEPT ![d] = s] ELSE holds
  /\ login' = NoLogin
  /\ UNCHANGED <<accounts, cache, sockets, kill, call, marked>>

-----------------------------------------------------------------------------
(* Requests of a device that has a session *)

\* A request on the event loop: the token is accepted and cached, or its row
\* is too old and deleted when nobody of the user is online.
Validate(d) ==
  /\ LoopFree /\ Accepted(holds[d])
  /\ cache' = cache \cup {holds[d]}
  /\ UNCHANGED <<rows, bootstrap, used, sockets, requests, holds, history>>

Expire(d) ==
  /\ secret[d] # None
  /\ SecretsOf(Owner[d]) \cap online = {}
  /\ Deleted({d})
  /\ UNCHANGED <<accounts, bootstrap, used, cache, sockets, requests, holds,
                 booted>>

CacheLapses(s) ==
  /\ s \in cache
  /\ cache' = cache \ {s}
  /\ UNCHANGED <<rows, bootstrap, used, sockets, requests, holds, history>>

\* The row is kept with a blank secret, unless another row is blank already:
\* session_secret is UNIQUE and the update raises.  The client forgets.
Logout(d) ==
  LET s == holds[d]
  IN
  /\ LoopFree /\ Accepted(s)
  /\ cache' = cache \ {s}
  /\ secret' = IF HasRow(Blank) THEN secret
               ELSE [e \in Devices |-> IF secret[e] = s THEN Blank ELSE secret[e]]
  /\ holds' = [holds EXCEPT ![d] = None]
  /\ UNCHANGED <<accounts, bootstrap, main, used, sockets, requests, history>>

Promote(d) ==
  LET u == Owner[d]
  IN
  /\ LoopFree /\ holds[d] # None /\ secret[d] = holds[d]
  /\ main' = (main \ DevicesOf(u)) \cup {d}
  /\ marked' = [marked EXCEPT ![u] = d]
  /\ UNCHANGED <<accounts, bootstrap, secret, used, cache, sockets, requests, holds,
                 booted>>

\* The row with the target's secret is deleted, and its cache entry.
Killed(s) ==
  /\ Deleted(RowOf(s))
  /\ cache' = cache \ {s}

\* kill_device: a target that is online is told first, and that is awaited.
KillStart(d, t) ==
  /\ LoopFree /\ holds[d] # None /\ secret[d] = holds[d] /\ d \in main
  /\ kill[d] = None
  /\ Owner[t] = Owner[d] /\ secret[t] # None
  /\ IF secret[t] \in online
       THEN kill' = [kill EXCEPT ![d] = secret[t]] /\ UNCHANGED <<secret, main, marked, cache>>
       ELSE Killed(secret[t]) /\ UNCHANGED kill
  /\ UNCHANGED <<accounts, bootstrap, used, sockets, login, call, holds, booted>>

\* The send returned: the row goes.  Or it raised: the request ends, and the
\* device stays.
KillEnd(d) ==
  /\ LoopFree /\ kill[d] # None
  /\ kill' = [kill EXCEPT ![d] = None]
  /\ Killed(kill[d]) \/ UNCHANGED <<secret, main, marked, cache>>
  /\ UNCHANGED <<accounts, bootstrap, used, sockets, login, call, holds, booted>>

-----------------------------------------------------------------------------
(* Tickets and sockets *)

IssueTicket(d) ==
  /\ d \in Socketed /\ LoopFree /\ Accepted(holds[d])
  /\ cache' = cache \cup {holds[d]}
  /\ tickets' = tickets \cup {holds[d]}
  /\ UNCHANGED <<rows, bootstrap, used, opening, online, requests, holds, history>>

\* The handler trusts the ticket, not looking at the session again; it sends
\* ws_auth_ok, and that is awaited, before it registers the socket.
OpenSocket(s) ==
  /\ LoopFree /\ s \in tickets
  /\ tickets' = tickets \ {s}
  /\ opening' = opening \cup {s}
  /\ UNCHANGED <<rows, bootstrap, used, cache, online, requests, holds, history>>

RegisterSocket(s) ==
  /\ LoopFree /\ s \in opening
  /\ opening' = opening \ {s}
  /\ \/ online' = online \cup {s}
     \/ UNCHANGED online         \* the send raised
  /\ UNCHANGED <<rows, bootstrap, used, cache, tickets, requests, holds, history>>

CloseSocket(s) ==
  /\ LoopFree /\ s \in online
  /\ online' = online \ {s}
  /\ UNCHANGED <<rows, bootstrap, used, cache, tickets, opening, requests, holds,
                 history>>

\* 60 seconds are over; the row goes with the next healing or cleanup.
TicketLapses(s) ==
  /\ s \in tickets
  /\ tickets' = tickets \ {s}
  /\ UNCHANGED <<rows, bootstrap, used, cache, opening, online, requests, holds,
                 history>>
-----------------------------------------------------------------------------
(* The thread pool *)

\* mutant: an answer from the cache makes its entry new
AnyHit(s) == TRUE

\* Only an answer from the table is written to the cache.
FromTable(s) == s \notin cache

\* validate_session_token finds the cache entry or the row ...
CallStart(d, op) ==
  LET s == holds[d]
  IN
  /\ d \in Pooled /\ call[d] = NoCall /\ Accepted(s)
  /\ call' = [call EXCEPT ![d] = [op |-> op, secret |-> s, found |-> FromTable(s)]]
  /\ UNCHANGED <<rows, bootstrap, used, cache, sockets, login, kill, holds,
                 history>>

\* ... and caches what it found, whatever happened to the row since.
CallCaches(d) ==
  /\ call[d].found
  /\ call' = [call EXCEPT ![d].found = FALSE]
  /\ cache' = cache \cup {call[d].secret}
  /\ UNCHANGED <<rows, bootstrap, used, sockets, login, kill, holds, history>>

\* update_fcm_token changes nothing; account_reset removes the user's sessions.
CallEnds(d) ==
  LET u == Owner[d]
  IN
  /\ call[d].op # "none" /\ ~ call[d].found
  /\ call' = [call EXCEPT ![d] = NoCall]
  /\ IF call[d].op = "reset" /\ u \in accounts
       THEN /\ Deleted(DevicesOf(u))
            /\ tickets' = tickets \ SecretsOf(u)
            /\ online' = online \ SecretsOf(u)
            /\ cache' = cache \ {call[d].secret}
       ELSE UNCHANGED <<secret, main, marked, tickets, online, cache>>
  /\ UNCHANGED <<accounts, bootstrap, used, opening, login, kill, holds, booted>>

Deregister(u) ==
  /\ u \in accounts
  /\ accounts' = accounts \ {u}
  /\ Deleted(DevicesOf(u))
  /\ tickets' = tickets \ SecretsOf(u)
  /\ online' = online \ SecretsOf(u)
  /\ UNCHANGED <<bootstrap, used, cache, opening, requests, holds, booted>>

\* The process dies and is started again.  A login that had deleted its row has
\* lost the mark of a main device.
Crash ==
  /\ (bootstrap \cup cache \cup opening \cup online # {} \/ ~ LoopFree
      \/ \E d \in Devices : kill[d] # None \/ call[d] # NoCall)
  /\ bootstrap' = {} /\ cache' = {} /\ opening' = {} /\ online' = {}
  /\ login' = NoLogin
  /\ kill' = [d \in Devices |-> None]
  /\ call' = [d \in Devices |-> NoCall]
  /\ marked' = [u \in Users |-> IF marked[u] = login.dev THEN None ELSE marked[u]]
  /\ UNCHANGED <<rows, used, tickets, holds, booted>>
-----------------------------------------------------------------------------
Next ==
  \/ \E u \in Users : Register(u) \/ BootstrapLapses(u) \/ Deregister(u)
  \/ \E d \in Devices :
       \/ \E requested \in BOOLEAN : LoginDelete(d, requested)
       \/ Validate(d) \/ Expire(d) \/ Logout(d) \/ Promote(d)
       \/ \E t \in Devices : KillStart(d, t)
       \/ KillEnd(d) \/ IssueTicket(d)
       \/ \E op \in {"token", "reset"} : CallStart(d, op)
       \/ CallCaches(d) \/ CallEnds(d)
  \/ LoginDemote
  \/ \E s \in Secrets :
       \/ \E arrives \in BOOLEAN : LoginInsert(s, arrives)
       \/ CacheLapses(s) \/ TicketLapses(s)
       \/ OpenSocket(s) \/ RegisterSocket(s) \/ CloseSocket(s)
  \/ Crash

Spec == Init /\ [][Next]_vars

\* Time passes, and a request in the thread pool runs on.
Fairness ==
  /\ \A s \in Secrets : WF_vars(CacheLapses(s)) /\ WF_vars(TicketLapses(s))
  /\ \A d \in Devices : WF_vars(CallCaches(d))

FairSpec == Spec /\ Fairness
-----------------------------------------------------------------------------
(* Properties *)

TypeOK ==
  /\ accounts \subseteq Users /\ bootstrap \subseteq Users
  /\ secret \in [Devices -> Secrets \cup {Blank, None}]
  /\ main \subseteq Devices
  /\ used \subseteq Secrets /\ cache \subseteq used /\ tickets \subseteq used
  /\ opening \subseteq used /\ online \subseteq used
  /\ login \in [dev : Devices, step : {"deleted", "demoted"}, main : BOOLEAN,
                boot : BOOLEAN] \cup {NoLogin}
  /\ kill \in [Devices -> used \cup {None}]
  /\ call \in [Devices -> [op : {"token", "reset"}, secret : used, found : BOOLEAN]
                          \cup {NoCall}]
  /\ holds \in [Devices -> used \cup {None}]
  /\ \A u \in Users : marked[u] \in DevicesOf(u) \cup {None}
  /\ DOMAIN marked = Users
  /\ booted \subseteq Users

\* A user has at most one main device, between the commits of a login too, and
\* whatever the thread pool removes meanwhile.
OneMain ==
  \A d, e \in main : Owner[d] = Owner[e] => d = e

\* "keep the row so that is_main status is preserved" (logout): the device that
\* was made main last stays main through logouts and logins, until it or its
\* account is removed, or the process dies inside its login.
MainSurvives ==
  \A u \in Users : marked[u] # None =>
    \/ marked[u] \in main
    \/ login.dev = marked[u] /\ BecomesMain(login)

\* "One-time bootstrap for a freshly registered account" (login): a login with the
\* password alone makes a device main once in the life of an account.
BootstrapIsOnce ==
  login.step # "none" /\ login.boot => Owner[login.dev] \notin booted

\* A secret whose row is gone (login replaced it, its device was killed, its
\* account removed) is soon refused for good, by the cache and by tickets too,
\* even when a request that had found the row caches it after the removal.
RevokedEventuallyRejected ==
  \A s \in Secrets :
    (s \in used /\ ~ HasRow(s)) ~> [](~ Accepted(s) /\ s \notin tickets)

\* The comment of logout: "blank the session_secret so the session can no longer
\* be used for authentication".  The UPDATE fails while another row is blank, so
\* this does not hold.
LogoutEndsSession ==
  [][\A d \in Devices : Logout(d) => \A e \in Devices : secret'[e] # holds[d]]_vars
=============================================================================
