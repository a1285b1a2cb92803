----------------------------- MODULE FileStorage -----------------------------
(***************************************************************************)
(* Encrypted files of chat_backend: resumable uploads in chunks, direct    *)
(* uploads, deletion, retention and account removal, over three stores     *)
(* that no transaction spans: the tables attachment_upload_sessions and    *)
(* file_registry, the files on disk, and users.storage_used, the running   *)
(* total the quota is checked against.                                     *)
(*                                                                         *)
(* A handler on the event loop runs from await to await, and none awaits   *)
(* once it has its bytes, so the loop is one actor that does one thing at  *)
(* a time.  It interleaves with the thread pool, where cleanup_system runs *)
(* after each direct upload and account_reset and deregister run as plain  *)
(* functions, and the process may die between any two steps.               *)
(*                                                                         *)
(* Every file counts as one unit of storage.                               *)
(***************************************************************************)
EXTENDS Integers, FiniteSets

CONSTANTS
  Users,
  Uploads,     \* resumable uploads: an upload_id, and the file_id it commits to
  Directs,     \* direct uploads: a file_id
  Chunks,      \* chunk indexes of a resumable upload
  Owner,       \* the user of each
  Limit,       \* effective storage limit
  MaxOpen,     \* MAX_CONCURRENT_UPLOAD_SESSIONS
  Threads,     \* bound: thread-pool workers busy with storage at once
  MaxCrashes,  \* bound: how often the process dies
  Loop

Items == Uploads \cup Directs
Actors == Threads \cup {Loop}

ASSUME OwnerAssumption == Owner \in [Items -> Users]
ASSUME ItemAssumption == IsFiniteSet(Items) /\ Uploads \cap Directs = {}
ASSUME BoundAssumption == Limit \in Nat /\ MaxOpen \in Nat /\ MaxCrashes \in Nat
ASSUME LoopAssumption == Loop \notin Threads

VARIABLES
  rows,       \* file_registry: status of each file, "none" before, "gone" after
  sess,       \* attachment_upload_sessions: state of each upload, likewise
  chunkRow,   \* attachment_upload_chunks
  used,       \* storage_used of each user
  removed,    \* users whose row is deleted
  chunkFile,  \* chunk files in the directories of the uploads
  disk,       \* files in UPLOAD_DIR, complete: linked or renamed into place
  expired,    \* uploads and files past expires_at
  stale,      \* uploads whose commit lease, direct uploads whose row is too old
  job,        \* what each actor is in the middle of
  crashes

tables == <<rows, sess, chunkRow, used, removed>>
files == <<chunkFile, disk>>
time == <<expired, stale>>
vars == <<tables, files, time, job, crashes>>

Idle == [op |-> "idle"]

InRegistry(i) == rows[i] \in {"pending", "ready"}

\* The upload holds a reservation; a committed one is charged by its row.
Open(i) == i \in Uploads /\ sess[i] \in {"pending", "committing"}

\* What storage_used stands for.
Charged(u) == {i \in Items : Owner[i] = u /\ (InRegistry(i) \/ Open(i))}

Of(S, u) == {i \in S : Owner[i] = u}
ChunksOf(S) == S \X Chunks

Init ==
  /\ rows = [i \in Items |-> "none"]
  /\ sess = [i \in Uploads |-> "none"]
  /\ chunkRow = {}
  /\ used = [u \in Users |-> 0]
  /\ removed = {}
  /\ chunkFile = {}
  /\ disk = {}
  /\ expired = {}
  /\ stale = {}
  /\ job = [a \in Actors |-> Idle]
  /\ crashes = 0

-----------------------------------------------------------------------------
(* Helpers *)

\* No other actor is in a write transaction: a purge removes files in the
\* middle of its own.  The other transactions are single steps.
Free(a) == \A b \in Actors \ {a} : job[b].op \notin {"reset", "deregister"}

Starts(a, j) == job[a] = Idle /\ job' = [job EXCEPT ![a] = j]
Continues(a, op, j) == job[a].op = op /\ job' = [job EXCEPT ![a] = j]
Ends(a, op) == Continues(a, op, Idle)

\* MAX(0, storage_used - ?) for each of k rows; no UPDATE for none.
Clamped(n, k) == IF k = 0 THEN n ELSE IF n > k THEN n - k ELSE 0

\* mutant: no UPDATE
StillCharged(S) == used

\* storage_used after the release of S, with and without the clamp.
Released(S) == [u \in Users |-> Clamped(used[u], Cardinality(Of(S, u)))]
ReleasedUnclamped(S) == [u \in Users |-> used[u] - Cardinality(Of(S, u))]

Marked(f, S, s) == [i \in DOMAIN f |-> IF i \in S THEN s ELSE f[i]]

-----------------------------------------------------------------------------
(* Resumable uploads, on the event loop *)

Admitted(u) == u \notin removed /\ used[u] + 1 <= Limit

\* POST /storage/upload_sessions: the row and the reservation in one transaction.
Create(i) ==
  LET open == {k \in Uploads : Open(k) /\ Owner[k] = Owner[i] /\ k \notin expired}
  IN
  /\ job[Loop] = Idle /\ Free(Loop)
  /\ sess[i] = "none"
  /\ Cardinality(open) < MaxOpen
  /\ Admitted(Owner[i])
  /\ sess' = [sess EXCEPT ![i] = "pending"]
  /\ used' = [used EXCEPT ![Owner[i]] = @ + 1]
  /\ UNCHANGED <<rows, chunkRow, removed, files, time, job, crashes>>

\* GET of the session, or the POST repeated: a row whose chunk file is missing
\* is deleted, and the client told to send the chunk again.
Resume(i) ==
  /\ job[Loop] = Idle /\ Free(Loop)
  /\ sess[i] = "pending" /\ i \notin expired
  /\ chunkRow' = chunkRow \ (ChunksOf({i}) \ chunkFile)
  /\ UNCHANGED <<rows, sess, used, removed, files, time, job, crashes>>

\* PUT of a chunk whose bytes have arrived: os.link, or the file exists.
PutLink(i, c) ==
  /\ sess[i] = "pending"
  /\ Starts(Loop, [op |-> "put", chunk |-> <<i, c>>, created |-> <<i, c>> \notin chunkFile])
  /\ chunkFile' = chunkFile \cup {<<i, c>>}
  /\ UNCHANGED <<tables, disk, time, crashes>>

\* mutant: final_chunk.unlink whoever created it
UndoneAlways(j) == {j.chunk}

\* The file a failed put must take away again: its own, not an earlier one's.
Undone(j) == IF j.created THEN {j.chunk} ELSE {}

TakesChunks(i) == sess[i] = "pending"

\* The row is written if the session still takes chunks; ok is FALSE when the
\* transaction fails, for a lock it does not get.
PutCommit(ok) ==
  LET j == job[Loop]
  IN
  /\ Ends(Loop, "put") /\ Free(Loop)
  /\ IF ok /\ TakesChunks(j.chunk[1])
       THEN chunkRow' = chunkRow \cup {j.chunk} /\ UNCHANGED chunkFile
       ELSE chunkFile' = chunkFile \ Undone(j) /\ UNCHANGED chunkRow
  /\ UNCHANGED <<rows, sess, used, removed, disk, time, crashes>>

\* mutant: no takeover of an interrupted commit
OnlyPending(i) == sess[i] = "pending"

\* A commit may start, or take over one that was interrupted five minutes ago.
MayCommit(i) == sess[i] = "pending" \/ (sess[i] = "committing" /\ i \in stale)

\* POST .../commit: the lease.
CommitLease(i) ==
  /\ Free(Loop)
  /\ MayCommit(i) /\ i \notin expired
  /\ ChunksOf({i}) \subseteq chunkRow
  /\ Starts(Loop, [op |-> "assemble", up |-> i])
  /\ sess' = [sess EXCEPT ![i] = "committing"]
  /\ stale' = stale \ {i}
  /\ UNCHANGED <<rows, chunkRow, used, removed, files, expired, crashes>>

\* The chunk files are read; a missing one is a 409, and so is one that is not a
\* frame of the attachment format.
CommitAssemble(valid) ==
  LET i == job[Loop].up
      whole == valid /\ ChunksOf({i}) \subseteq chunkFile
  IN
  /\ Continues(Loop, "assemble", [op |-> IF whole THEN "link" ELSE "refuse", up |-> i])
  /\ UNCHANGED <<tables, files, time, crashes>>

\* os.link of the assembled file, which is gone with the directory when a
\* thread removed it: then the session stays "committing".
CommitLink ==
  LET i == job[Loop].up
      there == ChunksOf({i}) \subseteq chunkFile
  IN
  /\ Continues(Loop, "link", IF there THEN [op |-> "register", up |-> i] ELSE Idle)
  /\ disk' = IF there THEN disk \cup {i} ELSE disk
  /\ UNCHANGED <<tables, chunkFile, time, crashes>>

\* The row of the file, the state of the session and its new expiry, in one
\* transaction, then rmtree of the chunks.  "Upload reservation disappeared", or
\* a lock it does not get, leaves the linked file and the session as they are.
CommitRegister(ok) ==
  LET i == job[Loop].up
  IN
  /\ Ends(Loop, "register") /\ Free(Loop)
  /\ IF ok /\ sess[i] = "committing"
       THEN /\ rows' = [rows EXCEPT ![i] = "ready"]
            /\ sess' = [sess EXCEPT ![i] = "committed"]
            /\ expired' = expired \ {i}
            /\ chunkFile' = chunkFile \ ChunksOf({i})
       ELSE UNCHANGED <<rows, sess, expired, chunkFile>>
  /\ UNCHANGED <<chunkRow, used, removed, disk, stale, crashes>>

\* A 409 after the lease: back to "pending", to be sent again from the start.
CommitRefused ==
  LET i == job[Loop].up
  IN
  /\ Ends(Loop, "refuse") /\ Free(Loop)
  /\ IF sess[i] = "committing"
       THEN /\ sess' = [sess EXCEPT ![i] = "pending"]
            /\ chunkRow' = chunkRow \ ChunksOf({i})
            /\ chunkFile' = chunkFile \ ChunksOf({i})
       ELSE UNCHANGED <<sess, chunkRow, chunkFile>>
  /\ UNCHANGED <<rows, used, removed, disk, time, crashes>>

\* DELETE of the session, then rmtree.  A file an interrupted commit had linked
\* stays on disk.
Cancel(i) ==
  /\ job[Loop] = Idle /\ Free(Loop)
  /\ Open(i)
  /\ used' = Released({i})
  /\ sess' = [sess EXCEPT ![i] = "gone"]
  /\ chunkRow' = chunkRow \ ChunksOf({i})
  /\ chunkFile' = chunkFile \ ChunksOf({i})
  /\ UNCHANGED <<rows, removed, disk, time, job, crashes>>

-----------------------------------------------------------------------------
(* Direct uploads, deletion and download, on the event loop *)

\* POST /storage/upload after the last byte: the row and the reservation.
DirectReserve(i) ==
  /\ Free(Loop)
  /\ rows[i] = "none"
  /\ Admitted(Owner[i])
  /\ Starts(Loop, [op |-> "rename", file |-> i])
  /\ rows' = [rows EXCEPT ![i] = "pending"]
  /\ used' = [used EXCEPT ![Owner[i]] = @ + 1]
  /\ UNCHANGED <<sess, chunkRow, removed, files, time, crashes>>

\* commit_partial_file
DirectRename ==
  /\ Continues(Loop, "rename", [op |-> "ready", file |-> job[Loop].file])
  /\ disk' = disk \cup {job[Loop].file}
  /\ UNCHANGED <<tables, chunkFile, time, crashes>>

DirectReady ==
  LET i == job[Loop].file
  IN
  /\ Ends(Loop, "ready") /\ Free(Loop)
  /\ rows[i] = "pending"
  /\ rows' = [rows EXCEPT ![i] = "ready"]
  /\ UNCHANGED <<sess, chunkRow, used, removed, files, time, crashes>>

\* The row is gone, or the rename or the transaction failed: the file is
\* removed, and the row with its reservation if it is still there.
DirectUndo ==
  LET i == job[Loop].file
  IN
  /\ job[Loop].op \in {"rename", "ready"} /\ Free(Loop)
  /\ job' = [job EXCEPT ![Loop] = Idle]
  /\ disk' = disk \ {i}
  /\ rows' = IF rows[i] = "pending" THEN [rows EXCEPT ![i] = "gone"] ELSE rows
  /\ used' = IF rows[i] = "pending" THEN Released({i}) ELSE used
  /\ UNCHANGED <<sess, chunkRow, removed, chunkFile, time, crashes>>

\* DELETE /storage/delete: the file first, then the row.
DeleteFile(i) ==
  /\ InRegistry(i)
  /\ Starts(Loop, [op |-> "delete", file |-> i])
  /\ disk' = disk \ {i}
  /\ UNCHANGED <<tables, chunkFile, time, crashes>>

\* storage_used - file_size, whether or not the row is still there.
DeleteRow ==
  LET i == job[Loop].file
  IN
  /\ Ends(Loop, "delete") /\ Free(Loop)
  /\ used' = ReleasedUnclamped({i})
  /\ rows' = [rows EXCEPT ![i] = "gone"]
  /\ UNCHANGED <<sess, chunkRow, removed, files, time, crashes>>

\* GET /storage/download of a file that is missing or past its expiry.
DownloadFails(i) ==
  /\ rows[i] = "ready"
  /\ i \notin disk \/ i \in expired
  /\ Starts(Loop, [op |-> "heal", file |-> i])
  /\ UNCHANGED <<tables, files, time, crashes>>

\* The row goes, the file of an expired row does not.
DownloadHeals ==
  LET i == job[Loop].file
  IN
  /\ Ends(Loop, "heal") /\ Free(Loop)
  /\ used' = Released({i})
  /\ rows' = [rows EXCEPT ![i] = "gone"]
  /\ UNCHANGED <<sess, chunkRow, removed, files, time, crashes>>

-----------------------------------------------------------------------------
(* cleanup_system, by the scheduler on the loop or a background task *)

\* mutant: only what is past its retention is cleaned up
NoStaleRows == {}

StaleRows == {i \in Items : rows[i] = "pending" /\ i \in stale}
ExpiredRows == {i \in Items : rows[i] = "ready" /\ i \in expired}
ExpiredSessions == {i \in Uploads : sess[i] \notin {"none", "gone"} /\ i \in expired}

Snapshot(f, S) == [i \in S |-> f[i]]

SweepStart(a) ==
  /\ Starts(a, [op |-> "unlink", saw |-> Snapshot(rows, StaleRows \cup ExpiredRows)])
  /\ UNCHANGED <<tables, files, time, crashes>>

SweepUnlink(a) ==
  /\ Continues(a, "unlink", [op |-> "rows", saw |-> job[a].saw])
  /\ disk' = disk \ DOMAIN job[a].saw
  /\ UNCHANGED <<tables, chunkFile, time, crashes>>

\* The release of stale rows is clamped, that of expired rows is not; each is
\* by what was read.  cleanup_expired_upload_sessions begins.
SweepRows(a) ==
  LET saw == job[a].saw
      old == {i \in DOMAIN saw : saw[i] = "pending"}
  IN
  /\ Free(a)
  /\ Continues(a, "rows", [op |-> "sessions", saw |-> Snapshot(sess, ExpiredSessions)])
  /\ used' = [u \in Users |-> Released(old)[u] - Cardinality(Of(DOMAIN saw \ old, u))]
  /\ rows' = Marked(rows, DOMAIN saw, "gone")
  /\ UNCHANGED <<sess, chunkRow, removed, files, time, crashes>>

\* create_upload_session begins with the same call.
SweepBeforeCreate ==
  /\ Starts(Loop, [op |-> "sessions", saw |-> Snapshot(sess, ExpiredSessions)])
  /\ UNCHANGED <<tables, files, time, crashes>>

\* A session that was not committed when it was read loses its reservation, its
\* chunks and the file a commit may have linked.
SweepSessions(a) ==
  LET saw == job[a].saw
      ended == DOMAIN saw
      open == {i \in ended : saw[i] # "committed"}
  IN
  /\ Ends(a, "sessions") /\ Free(a)
  /\ used' = Released(open)
  /\ sess' = Marked(sess, ended, "gone")
  /\ chunkRow' = chunkRow \ ChunksOf(ended)
  /\ chunkFile' = chunkFile \ ChunksOf(ended)
  /\ disk' = disk \ {i \in open : saw[i] = "committing"}
  /\ UNCHANGED <<rows, removed, time, crashes>>

-----------------------------------------------------------------------------
(* Account reset and removal, in the thread pool *)

FilesOf(u) == {i \in Of(Items, u) : InRegistry(i)}
SessionsOf(u) == {i \in Of(Uploads, u) : sess[i] \notin {"none", "gone"}}
LinkedOf(u) == {i \in SessionsOf(u) : sess[i] = "committing"}

\* purge_user_upload_sessions: the sessions go with their rows and fragments.
SessionsPurged(u) ==
  /\ sess' = Marked(sess, SessionsOf(u), "gone")
  /\ chunkRow' = chunkRow \ ChunksOf(SessionsOf(u))

\* account_reset with purge_files: its transaction is open when it removes the
\* files.
ResetFiles(t, u) ==
  /\ u \notin removed /\ Free(t)
  /\ Starts(t, [op |-> "reset", user |-> u])
  /\ disk' = disk \ (FilesOf(u) \cup LinkedOf(u))
  /\ chunkFile' = chunkFile \ ChunksOf(SessionsOf(u))
  /\ UNCHANGED <<tables, time, crashes>>

\* storage_used becomes 0 if there was a row in file_registry.
ResetCommit(t) ==
  LET u == job[t].user
      open == {i \in SessionsOf(u) : Open(i)}
  IN
  /\ Ends(t, "reset")
  /\ SessionsPurged(u)
  /\ rows' = Marked(rows, FilesOf(u), "gone")
  /\ used' = IF FilesOf(u) = {} THEN Released(open) ELSE [used EXCEPT ![u] = 0]
  /\ UNCHANGED <<removed, files, time, crashes>>

\* deregister removes the files it finds, and only then writes.
DeregisterFiles(t, u) ==
  /\ u \notin removed
  /\ Starts(t, [op |-> "leaving", user |-> u])
  /\ disk' = disk \ FilesOf(u)
  /\ UNCHANGED <<tables, chunkFile, time, crashes>>

DeregisterSessions(t) ==
  LET u == job[t].user
  IN
  /\ Free(t)
  /\ Continues(t, "leaving", [op |-> "deregister", user |-> u])
  /\ disk' = disk \ LinkedOf(u)
  /\ chunkFile' = chunkFile \ ChunksOf(SessionsOf(u))
  /\ UNCHANGED <<tables, time, crashes>>

\* mutant: only the rows whose file was found and removed
RowsWithoutFile(u) == FilesOf(u) \ disk

\* The rows of the user, whatever was added since the files were listed.
RowsDropped(u) == FilesOf(u)

DeregisterCommit(t) ==
  LET u == job[t].user
  IN
  /\ Ends(t, "deregister")
  /\ SessionsPurged(u)
  /\ rows' = Marked(rows, RowsDropped(u), "gone")
  /\ used' = [used EXCEPT ![u] = 0]
  /\ removed' = removed \cup {u}
  /\ UNCHANGED <<files, time, crashes>>

-----------------------------------------------------------------------------
(* Time and crashes *)

\* UPLOAD_SESSION_TTL_HOURS or FILE_RETENTION_DAYS have passed.
Expire(i) ==
  /\ rows[i] = "ready" \/ Open(i)
  /\ i \notin expired
  /\ expired' = expired \cup {i}
  /\ UNCHANGED <<tables, files, stale, job, crashes>>

\* A commit has not moved for five minutes, or a direct upload for six hours:
\* far longer than a handler of the loop takes.
Age(i) ==
  /\ i \notin stale
  /\ \/ /\ i \in Uploads /\ sess[i] = "committing"
        /\ job[Loop].op \notin {"assemble", "link", "register", "refuse"}
     \/ /\ i \in Directs /\ rows[i] = "pending"
        /\ job[Loop].op \notin {"rename", "ready"}
  /\ stale' = stale \cup {i}
  /\ UNCHANGED <<tables, files, expired, job, crashes>>

\* Transactions not committed are rolled back; the disk stays as it is.
Crash ==
  /\ crashes < MaxCrashes
  /\ crashes' = crashes + 1
  /\ job' = [a \in Actors |-> Idle]
  /\ UNCHANGED <<tables, files, time>>

-----------------------------------------------------------------------------
LoopStep ==
  \/ \E ok \in BOOLEAN : PutCommit(ok) \/ CommitAssemble(ok) \/ CommitRegister(ok)
  \/ CommitLink \/ CommitRefused
  \/ DirectRename \/ DirectReady \/ DirectUndo
  \/ DeleteRow \/ DownloadHeals

SweepStep(a) == SweepUnlink(a) \/ SweepRows(a) \/ SweepSessions(a)

PurgeStep(t) == ResetCommit(t) \/ DeregisterSessions(t) \/ DeregisterCommit(t)

UploadRequest(i) ==
  \/ Create(i) \/ Resume(i) \/ CommitLease(i) \/ Cancel(i)
  \/ \E c \in Chunks : PutLink(i, c)

FileRequest(i) == DeleteFile(i) \/ DownloadFails(i)

Next ==
  \/ LoopStep
  \/ \E i \in Uploads : UploadRequest(i)
  \/ \E i \in Directs : DirectReserve(i)
  \/ \E i \in Items : FileRequest(i) \/ Expire(i) \/ Age(i)
  \/ SweepBeforeCreate
  \/ \E a \in Actors : SweepStart(a) \/ SweepStep(a)
  \/ \E t \in Threads : PurgeStep(t)
       \/ \E u \in Users : ResetFiles(t, u) \/ DeregisterFiles(t, u)
  \/ Crash

Spec == Init /\ [][Next]_vars

PutStored(k) == job[Loop].op = "put" /\ job[Loop].chunk = k /\ PutCommit(TRUE)
Assembled(i) == job[Loop].op = "assemble" /\ job[Loop].up = i /\ CommitAssemble(TRUE)
Registered(i) == job[Loop].op = "register" /\ job[Loop].up = i /\ CommitRegister(TRUE)

\* A loop or thread step that is due is taken; the scheduler of the loop sweeps
\* every ten minutes; leases and rows age.  The rest is assumed of clients: one
\* that has a session keeps sending well-formed chunks and committing, and the
\* lock does not fail it every time.  The process dies finitely often.
FairSpec ==
  /\ Spec
  /\ WF_vars(LoopStep)
  /\ \A a \in Actors : WF_vars(SweepStep(a))
  /\ \A t \in Threads : WF_vars(PurgeStep(t))
  /\ SF_vars(SweepStart(Loop))
  /\ \A i \in Items : WF_vars(Age(i))
  /\ \A i \in Uploads :
       /\ SF_vars(CommitLease(i)) /\ SF_vars(Assembled(i)) /\ SF_vars(Registered(i))
       /\ \A c \in Chunks :
            /\ SF_vars(<<i, c>> \notin chunkRow /\ PutLink(i, c))
            /\ SF_vars(PutStored(<<i, c>>))

-----------------------------------------------------------------------------
(* Properties *)

Jobs ==
  {Idle}
    \cup [op : {"put"}, chunk : Uploads \X Chunks, created : BOOLEAN]
    \cup [op : {"assemble", "link", "register", "refuse"}, up : Uploads]
    \cup [op : {"rename", "ready"}, file : Directs]
    \cup [op : {"delete", "heal"}, file : Items]
    \cup [op : {"unlink", "rows"},
          saw : UNION {[S -> {"pending", "ready"}] : S \in SUBSET Items}]
    \cup [op : {"sessions"},
          saw : UNION {[S -> {"pending", "committing", "committed"}] :
                       S \in SUBSET Uploads}]
    \cup [op : {"reset", "leaving", "deregister"}, user : Users]

TypeOK ==
  /\ rows \in [Items -> {"none", "pending", "ready", "gone"}]
  /\ sess \in [Uploads -> {"none", "pending", "committing", "committed", "gone"}]
  /\ chunkRow \subseteq ChunksOf({i \in Uploads : sess[i] \notin {"none", "gone"}})
  /\ used \in [Users -> Int]
  /\ removed \subseteq Users
  /\ chunkFile \subseteq Uploads \X Chunks
  /\ disk \subseteq Items
  /\ expired \subseteq Items /\ stale \subseteq Items
  /\ job \in [Actors -> Jobs]
  /\ crashes \in 0 .. MaxCrashes

\* No failure, retry, race or crash leaves a user charged for what is not there:
\* storage_used never exceeds the reservations and the files of the user.
NeverOvercharged ==
  \A u \in Users \ removed : used[u] <= Cardinality(Charged(u))

\* A removed account owns no session and no file, though uploads of its were
\* being received, assembled and registered meanwhile.
RemovedOwnsNothing ==
  \A i \in Items : Owner[i] \in removed => ~InRegistry(i) /\ ~Open(i)

\* While the process has not died, the client need not send again a chunk the
\* server has a row for: a repeated put that fails does not take away the file
\* of the first.  A reset in progress has removed the files and not yet the rows.
StoredChunkIsThere ==
  crashes = 0 /\ (\A t \in Threads : job[t].op \notin {"reset", "deregister"})
    => \A k \in chunkRow : Open(k[1]) => k \in chunkFile

\* An upload whose client goes on is committed, unless it is cancelled, expires
\* or is purged: whatever a crash or a rolled back reset left, the lease lapses,
\* a file already linked is taken, and missing chunks are asked for again.
UploadCommits ==
  \A i \in Uploads :
    (sess[i] \in {"pending", "committing"}) ~> (sess[i] \in {"committed", "gone"})

\* What is reserved for an upload that nobody finishes is released: an expired
\* session, and the row of a direct upload the process died in.
AbandonedIsReleased ==
  /\ \A i \in Uploads : (Open(i) /\ i \in expired) ~> ~Open(i)
  /\ \A i \in Directs : (rows[i] = "pending") ~> (rows[i] # "pending")

\* "Periodic cleanup so expired uploaded files are removed on time"
\* (_storage_cleanup_scheduler_task).
ExpiredIsRemoved ==
  \A i \in Items : (rows[i] = "ready" /\ i \in disk /\ i \in expired) ~> i \notin disk
=============================================================================
