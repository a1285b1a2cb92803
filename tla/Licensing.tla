------------------------------ MODULE Licensing ------------------------------
(***************************************************************************)
(* The push licence: the operator's launcher redeems a payment, confirms   *)
(* the licence through the main server process, and keeps what comes back  *)
(* in its fields and in its configuration file, from which it starts the   *)
(* processes of ServerIdentity.  The server has the central service        *)
(* authorise the licence, installs the signing key it is given, signs a    *)
(* bootstrap request with the key file and stores the token.               *)
(*                                                                         *)
(* The handlers make blocking calls in coroutines, so the main process     *)
(* works on one request at a time; its worker threads still rotate keys.   *)
(* The launcher's one thread waits for a confirmation, 15 seconds at most, *)
(* and the server for the central service, twice 20.                       *)
(***************************************************************************)
EXTENDS ServerIdentity

CONSTANTS
  Main,       \* the process that serves migration_app
  Licences,
  Requests,   \* requests of the launcher, each made at most once
  MaxTokens   \* bound: tokens given by the central service

ASSUME LicensingAssumption ==
  Main \in Procs /\ MaxTokens \in Nat /\ None \notin Licences \cup Requests \cup {"assumed", "confirmed"}

\* A token names its licence; the central service numbers them.
Tokens == [licence : Licences, n : 1 .. MaxTokens]

VARIABLES
  fields,   \* the launcher's fields: a licence and a token
  saved,    \* the same in .backend_gui_config.json
  tk,       \* the request that the launcher's thread waits for
  req,      \* the requests and how far the server is with each
  env,      \* HUB_LICENSE_KEY and CENTRAL_SERVER_TOKEN of each process
  rows,     \* central_server_tokens
  terms,    \* server_licenses: licences with an assumed or a confirmed limit
  given,    \* tokens given
  handed,   \* whether the central service has handed out the signing key
  missed    \* history: tokens the server obtained and the launcher never heard of

launcher == <<fields, saved, tk>>
licence == <<launcher, req, env, rows, terms, given, handed, missed>>

Unlicensed == [licence |-> None, token |-> None]
NoRequest == [op |-> None, pc |-> "new", licence |-> None, token |-> None]

Working == {"central", "pem", "install", "bootstrap", "store", "refresh"}
AtWork == {q \in Requests : req[q].pc \in Working}

\* The launcher will make the requests qs.
LicenceInitWith(qs) ==
  /\ fields = Unlicensed /\ saved = Unlicensed /\ tk = None
  /\ req = [q \in Requests |-> [NoRequest EXCEPT !.pc = IF q \in qs THEN "new" ELSE "done"]]
  /\ env = [p \in Procs |-> Unlicensed]
  /\ rows = {} /\ terms = [l \in Licences |-> None]
  /\ given = 0 /\ handed = FALSE /\ missed = {}

LicenceInit == LicenceInitWith(Requests)

-----------------------------------------------------------------------------
(* Processes.  The launcher's buttons work while its thread does not wait.  *)

\* _build_launch_plan: both processes get what the fields hold.
Environment == [p \in Procs |-> fields]

\* The fields are saved and passed in the environment.
LicensedLaunch ==
  /\ Launch /\ tk = None
  /\ saved' = fields
  /\ env' = Environment
  /\ UNCHANGED <<fields, tk, req, rows, terms, given, handed, missed>>

\* The requests that die with the main process; a token that was stored and
\* not returned is missed.
Cut(ps) ==
  LET dead == {q \in Requests : req[q].pc \in Working \cup {"queued"} /\ Main \in ps}
  IN
  /\ req' = [q \in Requests |-> IF q \in dead THEN [req[q] EXCEPT !.pc = "failed"] ELSE req[q]]
  /\ missed' = missed \cup ({req[q].token : q \in dead} \cap rows)
  /\ env' = [p \in Procs |-> IF p \in ps THEN Unlicensed ELSE env[p]]

LicensedStop ==
  /\ Stop /\ tk = None
  /\ Cut(Procs)
  /\ UNCHANGED <<launcher, rows, terms, given, handed>>

LicensedCrash(p) ==
  /\ Crash(p)
  /\ Cut({p})
  /\ UNCHANGED <<launcher, rows, terms, given, handed>>

\* The window is closed, the processes stopped if any; unsaved fields are lost.
Reopens ==
  /\ \A p \in Procs : boot[p] = "off"
  /\ tk = None /\ fields # saved
  /\ fields' = saved
  /\ UNCHANGED <<vars, saved, tk, req, env, rows, terms, given, handed, missed>>

-----------------------------------------------------------------------------
(* The launcher's requests *)

Send(q, op, l) == req' = [req EXCEPT ![q] = [NoRequest EXCEPT !.op = op, !.pc = "queued", !.licence = l]]

\* A checkout token comes to the callback server, of a payment for licence l; a
\* thread has it redeemed.
Redeem(q, l) ==
  /\ req[q].pc = "new" /\ boot[Main] = "up"
  /\ Send(q, "redeem", l)
  /\ UNCHANGED <<vars, launcher, env, rows, terms, given, handed, missed>>

\* The launcher's thread puts the licence into its field ...
Redeemed(q) ==
  /\ req[q].op = "redeem" /\ req[q].pc = "replied" /\ tk = None
  /\ fields' = [fields EXCEPT !.licence = req[q].licence]
  /\ req' = [req EXCEPT ![q].pc = "done"]
  /\ UNCHANGED <<vars, saved, tk, env, rows, terms, given, handed, missed>>

\* ... and confirms what is in the field, then or when the operator asks for it.
Confirm(q) ==
  /\ req[q].pc = "new" /\ tk = None /\ boot[Main] = "up" /\ fields.licence # None
  /\ Send(q, "authorize", fields.licence)
  /\ tk' = q
  /\ UNCHANGED <<vars, fields, saved, env, rows, terms, given, handed, missed>>

\* mutant: the answer is shown and not saved
NotSaved == saved

\* config_store.save(self._snapshot_config())
Saved == fields'

\* The answer is ok.
Confirmed ==
  /\ tk # None /\ req[tk].pc = "replied"
  /\ fields' = [fields EXCEPT !.token = req[tk].token]
  /\ saved' = Saved
  /\ req' = [req EXCEPT ![tk].pc = "done"]
  /\ tk' = None
  /\ UNCHANGED <<vars, env, rows, terms, given, handed, missed>>

\* It is not, or the server is gone: nothing changes.
NotConfirmed ==
  /\ tk # None /\ req[tk].pc = "failed"
  /\ tk' = None
  /\ UNCHANGED <<vars, fields, saved, req, env, rows, terms, given, handed, missed>>

\* timeout=15: the server goes on without the launcher.
GivesUp ==
  /\ tk # None /\ req[tk].pc \in Working \cup {"queued"}
  /\ tk' = None
  /\ missed' = missed \cup ({req[tk].token} \cap rows)
  /\ UNCHANGED <<vars, fields, saved, req, env, rows, terms, given, handed>>

-----------------------------------------------------------------------------
(* The main process *)

Goes2(q, pc) == req' = [req EXCEPT ![q].pc = pc]
Fails(q) == Goes2(q, "failed")

\* mutant: the calls are made in a worker thread
Always == TRUE

\* The calls block the event loop.
LoopIsFree == AtWork = {}

Begins(q) ==
  /\ req[q].pc = "queued" /\ LoopIsFree /\ boot[Main] = "up"
  /\ Goes2(q, "central")
  /\ UNCHANGED <<vars, launcher, env, rows, terms, given, handed, missed>>

\* /api/pushhub/redeem: the licence is stored with limits that are assumed, also
\* over confirmed ones.  The central service may refuse, or the database.
Redeems(q) ==
  /\ req[q].op = "redeem" /\ req[q].pc = "central"
  /\ \/ /\ terms' = [terms EXCEPT ![req[q].licence] = "assumed"]
        /\ Goes2(q, "replied")
     \/ Fails(q) /\ UNCHANGED terms
  /\ UNCHANGED <<vars, launcher, env, rows, given, handed, missed>>

\* /central/license/authorize: it hands out the signing key with its first
\* answer, which may be lost, and refuses or not what it is asked.
Authorizes(q) ==
  /\ req[q].op = "authorize" /\ req[q].pc = "central"
  /\ \/ Goes2(q, IF handed THEN "bootstrap" ELSE "pem") /\ handed' = TRUE
     \/ Fails(q) /\ handed' \in {handed, TRUE}
  /\ UNCHANGED <<vars, launcher, env, rows, terms, given, missed>>

\* _write_server_signing_key_pem
WritesPem(q) ==
  /\ req[q].pc = "pem" /\ PemWrites(Main)
  /\ Goes2(q, "install")
  /\ UNCHANGED <<launcher, env, rows, terms, given, handed, missed>>

\* A rotation may have moved the ".tmp" away: os.replace raises.
InstallsPem(q) ==
  /\ req[q].pc = "install"
  /\ IF tmp = None THEN Fails(q) /\ UNCHANGED vars
                   ELSE PemInstalls(Main) /\ Goes2(q, "bootstrap")
  /\ UNCHANGED <<launcher, env, rows, terms, given, handed, missed>>

\* The central service gives a token for what its own key has signed; the key is
\* read from the file.
Bootstraps(q) ==
  /\ req[q].pc = "bootstrap"
  /\ \/ /\ identity = Issued /\ given < MaxTokens
        /\ given' = given + 1
        /\ req' = [req EXCEPT ![q].pc = "store",
                              ![q].token = [licence |-> req[q].licence, n |-> given + 1]]
     \/ Fails(q) /\ UNCHANGED given
  /\ UNCHANGED <<vars, launcher, env, rows, terms, handed, missed>>

\* mutant: a licence row alone
WithoutToken(q) == rows

\* the row of central_server_tokens
WithToken(q) == rows \cup {req[q].token}

\* _store_confirmed_pushhub_license, one transaction; the database may be locked.
\* When the launcher has given up, nobody will hear of the token.
Stores(q) ==
  /\ req[q].pc = "store"
  /\ \/ /\ rows' = WithToken(q)
        /\ terms' = [terms EXCEPT ![req[q].licence] = "confirmed"]
        /\ missed' = IF tk = q THEN missed ELSE missed \cup {req[q].token}
        /\ Goes2(q, "refresh")
     \/ Fails(q) /\ UNCHANGED <<rows, terms, missed>>
  /\ UNCHANGED <<vars, launcher, env, given, handed>>

\* mutant: only the environment changes, which push.py has read already
Unrefreshed(q) == env

\* the globals of settings and push
Refreshed(q) == [env EXCEPT ![Main] = [licence |-> req[q].licence, token |-> req[q].token]]

Refreshes(q) ==
  /\ req[q].pc = "refresh"
  /\ env' = Refreshed(q)
  /\ Goes2(q, "replied")
  /\ UNCHANGED <<vars, launcher, rows, terms, given, handed, missed>>

Handles(q) ==
  \/ Begins(q) \/ Redeems(q) \/ Authorizes(q) \/ WritesPem(q) \/ InstallsPem(q)
  \/ Bootstraps(q) \/ Stores(q) \/ Refreshes(q)

LicenceNext ==
  \/ Works /\ UNCHANGED licence
  \/ LicensedLaunch \/ LicensedStop \/ Reopens
  \/ \E p \in Procs : LicensedCrash(p)
  \/ Confirmed \/ NotConfirmed \/ GivesUp
  \/ \E q \in Requests :
       \/ Handles(q) \/ Redeemed(q) \/ Confirm(q)
       \/ \E l \in Licences : Redeem(q, l)

LicenceSpec == Init /\ LicenceInit /\ [][LicenceNext]_<<vars, licence>>

-----------------------------------------------------------------------------
(* Properties *)

Licensed == [licence : Licences \cup {None}, token : Tokens \cup {None}]

LicensingTypeOK ==
  /\ TypeOK
  /\ fields \in Licensed /\ saved \in Licensed /\ env \in [Procs -> Licensed]
  /\ tk \in Requests \cup {None}
  /\ req \in [Requests -> [op : {None, "redeem", "authorize"},
                           pc : Working \cup {"new", "queued", "replied", "done", "failed"},
                           licence : Licences \cup {None}, token : Tokens \cup {None}]]
  /\ Cardinality(AtWork) <= 1
  /\ rows \subseteq Tokens /\ missed \subseteq rows
  /\ terms \in [Licences -> {None, "assumed", "confirmed"}]
  /\ given \in 0 .. MaxTokens /\ handed \in BOOLEAN

\* Whatever a process sends its pushes with, and whatever the launcher would start
\* the next one with, has its rows: no crash, timeout or lock of the database leaves
\* a token in use that is not on record, or a licence without its terms.
InUseIsRecorded ==
  \A x \in {fields, saved} \cup {env[p] : p \in Procs} :
    /\ x.token # None => x.token \in rows
    /\ x.licence # None => terms[x.licence] # None

\* The token obtained last is in the configuration from which the next start will
\* take it, and in the process that pushes, unless the launcher missed an answer.
NewestIsKept ==
  LET newest == {t \in rows : \A u \in rows : u.n <= t.n}
  IN  AtWork = {} /\ tk = None =>
        \A t \in newest \ missed :
          saved.token = t /\ (boot[Main] = "up" => env[Main].token = t)

\* The signing key, which the central service hands out once, is not overwritten
\* but by a rotation that retires it in public, so that the licence can be
\* confirmed again; it is lost when the answer is, or the request dies with it.
IssuedKeyIsKept ==
  LET delivered == Issued \in written
  IN  delivered /\ upset \subseteq {"issued"} =>
        \/ identity = Issued
        \/ \E r \in Rotations : rot[r].from = Issued
=============================================================================
