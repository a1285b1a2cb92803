--------------------------- MODULE FileStorageProofs ---------------------------
(***************************************************************************)
(* Theorems about FileStorage for any users, uploads, chunks, threads and  *)
(* number of crashes: nobody is charged for what is not there, a removed   *)
(* account owns nothing, and a stored chunk stays until its upload ends.   *)
(***************************************************************************)
EXTENDS FileStorage, FiniteSetTheorems, TLAPS

-----------------------------------------------------------------------------
(* Types of the jobs *)

\* What a job carries, by what it is about.
LEMMA JobParts ==
  ASSUME NEW j \in Jobs
  PROVE  /\ j.op = "put" => j.chunk \in Uploads \X Chunks /\ j.created \in BOOLEAN
         /\ j.op \in {"assemble", "link", "register", "refuse"} => j.up \in Uploads
         /\ j.op \in {"rename", "ready"} => j.file \in Directs
         /\ j.op \in {"delete", "heal"} => j.file \in Items
         /\ j.op \in {"unlink", "rows"} =>
              \E S \in SUBSET Items : j.saw \in [S -> {"pending", "ready"}]
         /\ j.op = "sessions" =>
              \E S \in SUBSET Uploads :
                j.saw \in [S -> {"pending", "committing", "committed"}]
         /\ j.op \in {"reset", "leaving", "deregister"} => j.user \in Users
<1>1. CASE j = Idle
  BY <1>1 DEF Idle
<1>2. CASE j \in [op : {"put"}, chunk : Uploads \X Chunks, created : BOOLEAN]
  BY <1>2
<1>3. CASE j \in [op : {"assemble", "link", "register", "refuse"}, up : Uploads]
  BY <1>3
<1>4. CASE j \in [op : {"rename", "ready"}, file : Directs]
  BY <1>4
<1>5. CASE j \in [op : {"delete", "heal"}, file : Items]
  BY <1>5
<1>6. CASE j \in [op : {"unlink", "rows"},
                  saw : UNION {[S -> {"pending", "ready"}] : S \in SUBSET Items}]
  BY <1>6
<1>7. CASE j \in [op : {"sessions"},
                  saw : UNION {[S -> {"pending", "committing", "committed"}] :
                               S \in SUBSET Uploads}]
  BY <1>7
<1>8. CASE j \in [op : {"reset", "leaving", "deregister"}, user : Users]
  BY <1>8
<1> QED
  BY <1>1, <1>2, <1>3, <1>4, <1>5, <1>6, <1>7, <1>8 DEF Jobs

\* What makes a job.
LEMMA JobMade ==
  /\ Idle \in Jobs
  /\ \A k \in Uploads \X Chunks, b \in BOOLEAN :
       [op |-> "put", chunk |-> k, created |-> b] \in Jobs
  /\ \A s \in {"assemble", "link", "register", "refuse"}, i \in Uploads :
       [op |-> s, up |-> i] \in Jobs
  /\ \A s \in {"rename", "ready"}, i \in Directs : [op |-> s, file |-> i] \in Jobs
  /\ \A s \in {"delete", "heal"}, i \in Items : [op |-> s, file |-> i] \in Jobs
  /\ \A s \in {"unlink", "rows"}, S \in SUBSET Items :
       \A f \in [S -> {"pending", "ready"}] : [op |-> s, saw |-> f] \in Jobs
  /\ \A S \in SUBSET Uploads :
       \A f \in [S -> {"pending", "committing", "committed"}] :
         [op |-> "sessions", saw |-> f] \in Jobs
  /\ \A s \in {"reset", "leaving", "deregister"}, u \in Users :
       [op |-> s, user |-> u] \in Jobs
<1>1. Idle \in Jobs
  BY DEF Jobs
<1>2. \A k \in Uploads \X Chunks, b \in BOOLEAN :
        [op |-> "put", chunk |-> k, created |-> b] \in Jobs
  BY DEF Jobs
<1>3. \A s \in {"assemble", "link", "register", "refuse"}, i \in Uploads :
        [op |-> s, up |-> i] \in Jobs
  BY DEF Jobs
<1>4. /\ \A s \in {"rename", "ready"}, i \in Directs : [op |-> s, file |-> i] \in Jobs
      /\ \A s \in {"delete", "heal"}, i \in Items : [op |-> s, file |-> i] \in Jobs
  BY DEF Jobs
<1>5. \A s \in {"unlink", "rows"}, S \in SUBSET Items :
        \A f \in [S -> {"pending", "ready"}] : [op |-> s, saw |-> f] \in Jobs
  BY DEF Jobs
<1>6. \A S \in SUBSET Uploads :
        \A f \in [S -> {"pending", "committing", "committed"}] :
          [op |-> "sessions", saw |-> f] \in Jobs
  BY DEF Jobs
<1>7. \A s \in {"reset", "leaving", "deregister"}, u \in Users :
        [op |-> s, user |-> u] \in Jobs
  BY DEF Jobs
<1> QED
  BY <1>1, <1>2, <1>3, <1>4, <1>5, <1>6, <1>7
-----------------------------------------------------------------------------
(* Type correctness *)

LEMMA OfFinite ==
  ASSUME NEW S \in SUBSET Items, NEW u
  PROVE  IsFiniteSet(Of(S, u)) /\ Cardinality(Of(S, u)) \in Nat /\ Of(S, u) \subseteq Items
<1>1. Of(S, u) \in SUBSET Items
  BY DEF Of
<1> QED
  BY <1>1, FS_Subset, FS_CardinalityType, ItemAssumption

LEMMA ReleasedType ==
  ASSUME used \in [Users -> Int], NEW S \in SUBSET Items
  PROVE  /\ Released(S) \in [Users -> Int]
         /\ ReleasedUnclamped(S) \in [Users -> Int]
BY OfFinite DEF Released, ReleasedUnclamped, Clamped

LEMMA MarkedType ==
  ASSUME NEW D, NEW T, NEW f \in [D -> T], NEW S, NEW s \in T
  PROVE  Marked(f, S, s) \in [D -> T]
BY DEF Marked

LEMMA JobSet ==
  ASSUME TypeOK, NEW a \in Actors, NEW j \in Jobs, job' = [job EXCEPT ![a] = j]
  PROVE  job' \in [Actors -> Jobs]
BY DEF TypeOK

LEMMA JobOf ==
  ASSUME TypeOK, NEW a \in Actors
  PROVE  job[a] \in Jobs
BY DEF TypeOK

LEMMA ItemFacts ==
  /\ Uploads \subseteq Items /\ Directs \subseteq Items
  /\ \A i \in Items : Owner[i] \in Users
  /\ Loop \in Actors /\ Threads \subseteq Actors
BY OwnerAssumption DEF Items, Actors

\* Requests for uploads.
LEMMA UploadType ==
  ASSUME TypeOK, NEW i \in Uploads, UploadRequest(i)
  PROVE  TypeOK'
<1> USE ItemFacts
<1>1. CASE Create(i)
  BY <1>1 DEF Create, TypeOK, files, time, ChunksOf
<1>2. CASE Resume(i)
  BY <1>2 DEF Resume, TypeOK, files, time
<1>3. CASE CommitLease(i)
  <2>1. job' \in [Actors -> Jobs]
    BY <1>3, JobSet, JobMade DEF CommitLease, Starts
  <2>2. sess' = [sess EXCEPT ![i] = "committing"] /\ stale' = stale \ {i} /\ MayCommit(i)
        /\ UNCHANGED <<rows, chunkRow, used, removed, files, expired, crashes>>
    BY <1>3 DEF CommitLease
  <2> QED BY <2>1, <2>2 DEF TypeOK, files, ChunksOf, MayCommit
<1>4. CASE Cancel(i)
  <2>1. used' \in [Users -> Int]
    BY <1>4, ReleasedType DEF Cancel, TypeOK
  <2> QED BY <1>4, <2>1 DEF Cancel, TypeOK, time, ChunksOf
<1>5. ASSUME NEW c \in Chunks, PutLink(i, c) PROVE TypeOK'
  <2>1. job' \in [Actors -> Jobs]
    <3>1. [op |-> "put", chunk |-> <<i, c>>, created |-> <<i, c>> \notin chunkFile] \in Jobs
      BY JobMade
    <3> QED BY <1>5, <3>1, JobSet DEF PutLink, Starts
  <2> QED BY <1>5, <2>1 DEF PutLink, TypeOK, tables, time
<1> QED
  BY <1>1, <1>2, <1>3, <1>4, <1>5 DEF UploadRequest

\* The steps of the event loop.
LEMMA LoopType ==
  ASSUME TypeOK, LoopStep
  PROVE  TypeOK'
<1> USE ItemFacts
<1>j. job[Loop] \in Jobs
  BY JobOf
<1>1. ASSUME NEW ok \in BOOLEAN, PutCommit(ok) PROVE TypeOK'
  <2>1. job' \in [Actors -> Jobs] /\ job[Loop].chunk \in Uploads \X Chunks
    BY <1>1, <1>j, JobSet, JobMade, JobParts DEF PutCommit, Ends, Continues
  <2> QED BY <1>1, <2>1 DEF PutCommit, TypeOK, TakesChunks, ChunksOf, Undone, time
<1>2. ASSUME NEW ok \in BOOLEAN, CommitAssemble(ok) PROVE TypeOK'
  <2>1. job[Loop].up \in Uploads
    BY <1>2, <1>j, JobParts DEF CommitAssemble, Continues
  <2>2. job' \in [Actors -> Jobs]
    BY <1>2, <2>1, JobSet, JobMade DEF CommitAssemble, Continues
  <2> QED BY <1>2, <2>2 DEF CommitAssemble, TypeOK, tables, files, time
<1>3. ASSUME NEW ok \in BOOLEAN, CommitRegister(ok) PROVE TypeOK'
  <2>1. job[Loop].up \in Uploads /\ job' \in [Actors -> Jobs]
    BY <1>3, <1>j, JobParts, JobSet, JobMade DEF CommitRegister, Ends, Continues
  <2> QED BY <1>3, <2>1 DEF CommitRegister, TypeOK, ChunksOf
<1>4. CASE CommitLink
  <2>1. job[Loop].up \in Uploads
    BY <1>4, <1>j, JobParts DEF CommitLink, Continues
  <2>2. job' \in [Actors -> Jobs]
    BY <1>4, <2>1, JobSet, JobMade DEF CommitLink, Continues
  <2> QED BY <1>4, <2>1, <2>2 DEF CommitLink, TypeOK, tables, time
<1>5. CASE CommitRefused
  <2>1. job[Loop].up \in Uploads /\ job' \in [Actors -> Jobs]
    BY <1>5, <1>j, JobParts, JobSet, JobMade DEF CommitRefused, Ends, Continues
  <2> QED BY <1>5, <2>1 DEF CommitRefused, TypeOK, ChunksOf, time
<1>6. CASE DirectRename
  <2>1. job[Loop].file \in Directs
    BY <1>6, <1>j, JobParts DEF DirectRename, Continues
  <2>2. job' \in [Actors -> Jobs]
    BY <1>6, <2>1, JobSet, JobMade DEF DirectRename, Continues
  <2> QED BY <1>6, <2>1, <2>2 DEF DirectRename, TypeOK, tables, time
<1>7. CASE DirectReady
  <2>1. job[Loop].file \in Directs /\ job' \in [Actors -> Jobs]
    BY <1>7, <1>j, JobParts, JobSet, JobMade DEF DirectReady, Ends, Continues
  <2> QED BY <1>7, <2>1 DEF DirectReady, TypeOK, files, time
<1>8. CASE DirectUndo
  <2>1. job[Loop].file \in Directs /\ job' \in [Actors -> Jobs]
    BY <1>8, <1>j, JobParts, JobSet, JobMade DEF DirectUndo
  <2>2. used' \in [Users -> Int]
    BY <1>8, <2>1, ReleasedType DEF DirectUndo, TypeOK
  <2> QED BY <1>8, <2>1, <2>2 DEF DirectUndo, TypeOK, time
<1>9. CASE DeleteRow \/ DownloadHeals
  <2>1. job[Loop].file \in Items /\ job' \in [Actors -> Jobs]
    BY <1>9, <1>j, JobParts, JobSet, JobMade DEF DeleteRow, DownloadHeals, Ends, Continues
  <2>2. used' \in [Users -> Int]
    BY <1>9, <2>1, ReleasedType DEF DeleteRow, DownloadHeals, TypeOK
  <2> QED BY <1>9, <2>1, <2>2 DEF DeleteRow, DownloadHeals, TypeOK, files, time
<1> QED
  BY <1>1, <1>2, <1>3, <1>4, <1>5, <1>6, <1>7, <1>8, <1>9 DEF LoopStep
LEMMA DirectType ==
  ASSUME TypeOK, NEW i \in Directs, DirectReserve(i)
  PROVE  TypeOK'
<1>1. job' \in [Actors -> Jobs]
  BY JobSet, JobMade, ItemFacts DEF DirectReserve, Starts
<1> QED
  BY <1>1, ItemFacts DEF DirectReserve, TypeOK, files, time

LEMMA FileType ==
  ASSUME TypeOK, NEW i \in Items, FileRequest(i) \/ Expire(i) \/ Age(i)
  PROVE  TypeOK'
<1>1. CASE FileRequest(i)
  <2>1. job' \in [Actors -> Jobs]
    BY <1>1, JobSet, JobMade, ItemFacts DEF FileRequest, DeleteFile, DownloadFails, Starts
  <2> QED
    BY <1>1, <2>1 DEF FileRequest, DeleteFile, DownloadFails, TypeOK, tables, files, time
<1>2. CASE Expire(i) \/ Age(i)
  BY <1>2 DEF Expire, Age, TypeOK, tables, files
<1> QED
  BY <1>1, <1>2

\* What a cleanup has read.
LEMMA SnapshotType ==
  ASSUME TypeOK
  PROVE  /\ StaleRows \cup ExpiredRows \in SUBSET Items
         /\ Snapshot(rows, StaleRows \cup ExpiredRows)
              \in [StaleRows \cup ExpiredRows -> {"pending", "ready"}]
         /\ ExpiredSessions \in SUBSET Uploads
         /\ Snapshot(sess, ExpiredSessions)
              \in [ExpiredSessions -> {"pending", "committing", "committed"}]
BY DEF TypeOK, Snapshot, StaleRows, ExpiredRows, ExpiredSessions

LEMMA SweepStartType ==
  ASSUME TypeOK
  PROVE  /\ \A a \in Actors : SweepStart(a) => TypeOK'
         /\ SweepBeforeCreate => TypeOK'
<1>1. /\ [op |-> "unlink", saw |-> Snapshot(rows, StaleRows \cup ExpiredRows)] \in Jobs
      /\ [op |-> "sessions", saw |-> Snapshot(sess, ExpiredSessions)] \in Jobs
  BY SnapshotType, JobMade
<1>2. ASSUME NEW a \in Actors, SweepStart(a) PROVE TypeOK'
  <2>1. job' \in [Actors -> Jobs]
    BY <1>1, <1>2, JobSet DEF SweepStart, Starts
  <2> QED BY <1>2, <2>1 DEF SweepStart, TypeOK, tables, files, time
<1>3. ASSUME SweepBeforeCreate PROVE TypeOK'
  <2>1. job' \in [Actors -> Jobs]
    BY <1>1, <1>3, JobSet, ItemFacts DEF SweepBeforeCreate, Starts
  <2> QED BY <1>3, <2>1 DEF SweepBeforeCreate, TypeOK, tables, files, time
<1> QED
  BY <1>2, <1>3

LEMMA SweepType ==
  ASSUME TypeOK, NEW a \in Actors, SweepStep(a)
  PROVE  TypeOK'
<1>j. job[a] \in Jobs
  BY JobOf
<1>1. CASE SweepUnlink(a)
  <2>1. PICK S \in SUBSET Items : job[a].saw \in [S -> {"pending", "ready"}]
    BY <1>1, <1>j, JobParts DEF SweepUnlink, Continues
  <2>2. job' \in [Actors -> Jobs]
    BY <1>1, <2>1, JobSet, JobMade DEF SweepUnlink, Continues
  <2> QED BY <1>1, <2>2 DEF SweepUnlink, TypeOK, tables, time
<1>2. CASE SweepRows(a)
  <2> DEFINE saw == job[a].saw
             old == {i \in DOMAIN saw : saw[i] = "pending"}
  <2>1. PICK S \in SUBSET Items : saw \in [S -> {"pending", "ready"}]
    BY <1>2, <1>j, JobParts DEF SweepRows, Continues
  <2>2. job' \in [Actors -> Jobs]
    BY <1>2, SnapshotType, JobSet, JobMade DEF SweepRows, Continues
  <2>3. /\ used' = [u \in Users |-> Released(old)[u] - Cardinality(Of(DOMAIN saw \ old, u))]
        /\ rows' = Marked(rows, DOMAIN saw, "gone")
        /\ UNCHANGED <<sess, chunkRow, removed, files, time, crashes>>
    BY <1>2 DEF SweepRows
  <2>4. old \in SUBSET Items /\ DOMAIN saw \ old \in SUBSET Items
    BY <2>1
  <2>5. Released(old) \in [Users -> Int]
    BY <2>4, ReleasedType DEF TypeOK
  <2>6. \A u \in Users : Cardinality(Of(DOMAIN saw \ old, u)) \in Nat
    BY <2>4, OfFinite
  <2> HIDE DEF saw, old
  <2>7. used' \in [Users -> Int]
    BY <2>3, <2>5, <2>6
  <2>8. rows' \in [Items -> {"none", "pending", "ready", "gone"}]
    BY <2>3, MarkedType DEF TypeOK
  <2> QED BY <2>2, <2>3, <2>7, <2>8 DEF TypeOK, files, time
<1>3. CASE SweepSessions(a)
  <2> DEFINE saw == job[a].saw
             open == {i \in DOMAIN saw : saw[i] # "committed"}
  <2>1. PICK S \in SUBSET Uploads : saw \in [S -> {"pending", "committing", "committed"}]
    BY <1>3, <1>j, JobParts DEF SweepSessions, Ends, Continues
  <2>2. job' \in [Actors -> Jobs]
    BY <1>3, JobSet, JobMade DEF SweepSessions, Ends, Continues
  <2>3. used' \in [Users -> Int]
    <3>1. open \in SUBSET Items
      BY <2>1, ItemFacts
    <3> QED BY <1>3, <3>1, ReleasedType DEF SweepSessions, TypeOK
  <2>4. sess' = Marked(sess, DOMAIN saw, "gone")
        /\ chunkRow' = chunkRow \ ChunksOf(DOMAIN saw)
        /\ chunkFile' \subseteq chunkFile /\ disk' \subseteq disk
        /\ UNCHANGED <<rows, removed, time, crashes>>
    BY <1>3 DEF SweepSessions
  <2>5. sess' \in [Uploads -> {"none", "pending", "committing", "committed", "gone"}]
    BY <2>4, MarkedType DEF TypeOK
  <2>6. chunkRow' \subseteq ChunksOf({i \in Uploads : sess'[i] \notin {"none", "gone"}})
    BY <2>4 DEF TypeOK, ChunksOf, Marked
  <2> QED BY <2>2, <2>3, <2>4, <2>5, <2>6 DEF TypeOK, time
<1> QED
  BY <1>1, <1>2, <1>3 DEF SweepStep

LEMMA PurgeTables ==
  ASSUME TypeOK, NEW u \in Users, SessionsPurged(u)
  PROVE  /\ sess' \in [Uploads -> {"none", "pending", "committing", "committed", "gone"}]
         /\ chunkRow' \subseteq ChunksOf({i \in Uploads : sess'[i] \notin {"none", "gone"}})
<1>1. /\ sess' = Marked(sess, SessionsOf(u), "gone")
      /\ chunkRow' = chunkRow \ ChunksOf(SessionsOf(u))
  BY DEF SessionsPurged
<1>2. sess' \in [Uploads -> {"none", "pending", "committing", "committed", "gone"}]
  BY <1>1, MarkedType DEF TypeOK
<1>3. chunkRow' \subseteq ChunksOf({i \in Uploads : sess'[i] \notin {"none", "gone"}})
  BY <1>1 DEF TypeOK, ChunksOf, Marked
<1> QED
  BY <1>2, <1>3

LEMMA PurgeType ==
  ASSUME TypeOK, NEW t \in Threads,
         PurgeStep(t) \/ (\E u \in Users : ResetFiles(t, u) \/ DeregisterFiles(t, u))
  PROVE  TypeOK'
<1>j. t \in Actors /\ job[t] \in Jobs
  BY JobOf, ItemFacts
<1>1. ASSUME NEW u \in Users, ResetFiles(t, u) \/ DeregisterFiles(t, u) PROVE TypeOK'
  <2>1. job' \in [Actors -> Jobs]
    BY <1>1, <1>j, JobSet, JobMade DEF ResetFiles, DeregisterFiles, Starts
  <2> QED BY <1>1, <2>1 DEF ResetFiles, DeregisterFiles, TypeOK, tables, time
<1>2. CASE DeregisterSessions(t)
  <2>1. job' \in [Actors -> Jobs]
    BY <1>2, <1>j, JobParts, JobSet, JobMade DEF DeregisterSessions, Continues
  <2> QED BY <1>2, <2>1 DEF DeregisterSessions, TypeOK, tables, time
<1>3. CASE ResetCommit(t) \/ DeregisterCommit(t)
  <2> DEFINE u == job[t].user
  <2>1. u \in Users /\ job' \in [Actors -> Jobs]
    BY <1>3, <1>j, JobParts, JobSet, JobMade DEF ResetCommit, DeregisterCommit, Ends, Continues
  <2>2. SessionsPurged(u)
    BY <1>3 DEF ResetCommit, DeregisterCommit
  <2>3. rows' \in [Items -> {"none", "pending", "ready", "gone"}]
    <3>1. rows' = Marked(rows, FilesOf(u), "gone")
      BY <1>3 DEF ResetCommit, DeregisterCommit, RowsDropped
    <3> QED BY <3>1, MarkedType DEF TypeOK
  <2>4. used' \in [Users -> Int]
    <3>1. {i \in SessionsOf(u) : Open(i)} \in SUBSET Items
      BY ItemFacts DEF SessionsOf, Of
    <3> QED BY <1>3, <3>1, ReleasedType DEF ResetCommit, DeregisterCommit, TypeOK
  <2>5. removed' \subseteq Users /\ UNCHANGED <<files, time, crashes>>
    BY <1>3, <2>1 DEF ResetCommit, DeregisterCommit, TypeOK
  <2> HIDE DEF u
  <2> QED BY <2>1, <2>2, <2>3, <2>4, <2>5, PurgeTables DEF TypeOK, files, time
<1> QED
  BY <1>1, <1>2, <1>3 DEF PurgeStep

LEMMA TypeInit == Init => TypeOK
BY JobMade, BoundAssumption DEF Init, TypeOK

LEMMA TypeStep == TypeOK /\ [Next]_vars => TypeOK'
<1> SUFFICES ASSUME TypeOK, [Next]_vars PROVE TypeOK'
  OBVIOUS
<1>1. CASE Crash
  BY <1>1, JobMade, BoundAssumption DEF Crash, TypeOK, tables, files, time
<1>2. CASE UNCHANGED vars
  BY <1>2 DEF vars, tables, files, time, TypeOK
<1> QED
  BY <1>1, <1>2, LoopType, UploadType, DirectType, FileType, SweepStartType, SweepType,
     PurgeType DEF Next

\* Every reachable state of the storage model is well formed.
THEOREM TypeCorrect == Spec => []TypeOK
BY TypeInit, TypeStep, PTL DEF Spec
-----------------------------------------------------------------------------
(* The tables: charges and removed accounts.  A release is by what an actor *)
(* read before, so the invariant says what is still true of it: a row that  *)
(* was there has not become one that never was, and an upload seen          *)
(* committed is not open again.                                             *)

\* A file has a row only once its upload is committed.
SessionsFirst ==
  \A i \in Uploads : sess[i] \in {"none", "pending", "committing"} => rows[i] = "none"

Recalls(j) ==
  /\ j.op \in {"delete", "heal"} => rows[j.file] # "none"
  /\ j.op \in {"unlink", "rows"} => \A i \in DOMAIN j.saw : rows[i] # "none"
  /\ j.op = "sessions" =>
       \A i \in DOMAIN j.saw : j.saw[i] = "committed" => sess[i] \in {"committed", "gone"}

JobsRecall == \A a \in Actors : Recalls(job[a])

Tables == SessionsFirst /\ NeverOvercharged /\ RemovedOwnsNothing

\* Rows and sessions do not go back.
Forward ==
  /\ \A i \in Items : rows[i] # "none" => rows'[i] # "none"
  /\ \A i \in Uploads : sess[i] \in {"committed", "gone"} => sess'[i] \in {"committed", "gone"}

LEMMA ChargedFinite ==
  ASSUME NEW u
  PROVE  /\ IsFiniteSet(Charged(u)) /\ Cardinality(Charged(u)) \in Nat
         /\ IsFiniteSet(Charged(u)') /\ Cardinality(Charged(u)') \in Nat
<1>1. Charged(u) \in SUBSET Items /\ Charged(u)' \in SUBSET Items
  BY DEF Charged
<1> QED
  BY <1>1, FS_Subset, FS_CardinalityType, ItemAssumption

\* A step that charges nobody and frees nothing.
LEMMA SameCharge ==
  ASSUME TypeOK, NeverOvercharged, used' = used, removed \subseteq removed',
         \A u \in Users : Charged(u) \subseteq Charged(u)'
  PROVE  NeverOvercharged'
<1> SUFFICES ASSUME NEW u \in Users, u \notin removed'
             PROVE  used'[u] <= Cardinality(Charged(u)')
  BY DEF NeverOvercharged
<1>1. Cardinality(Charged(u)) <= Cardinality(Charged(u)')
  BY ChargedFinite, FS_Subset
<1> QED
  BY <1>1, ChargedFinite DEF NeverOvercharged, TypeOK

\* A step that frees no more than it releases, clamped or not.
LEMMA ReleaseCharge ==
  ASSUME TypeOK, NeverOvercharged, NEW u \in Users, u \notin removed,
         NEW S \in SUBSET Items, Charged(u) \ S \subseteq Charged(u)',
         used'[u] \in Int, used'[u] <= Clamped(used[u], Cardinality(Of(S, u)))
  PROVE  used'[u] <= Cardinality(Charged(u)')
<1> DEFINE n == Cardinality(Charged(u))
           k == Cardinality(Of(S, u))
           m == Cardinality(Charged(u)')
<1>1. n \in Nat /\ k \in Nat /\ m \in Nat /\ used[u] \in Int /\ used[u] <= n
  BY ChargedFinite, OfFinite DEF NeverOvercharged, TypeOK
<1>2. n - k <= m
  <2>1. Charged(u) \ Of(S, u) \subseteq Charged(u)'
    BY DEF Charged, Of
  <2>2. Cardinality(Charged(u) \ Of(S, u)) <= m
    BY <2>1, ChargedFinite, FS_Subset
  <2>3. /\ Cardinality(Charged(u) \ Of(S, u)) = n - Cardinality(Charged(u) \cap Of(S, u))
        /\ Cardinality(Charged(u) \ Of(S, u)) \in Nat
    BY ChargedFinite, FS_Difference, FS_CardinalityType
  <2>4. /\ Cardinality(Charged(u) \cap Of(S, u)) <= k
        /\ Cardinality(Charged(u) \cap Of(S, u)) \in Nat
    <3>1. Charged(u) \cap Of(S, u) \in SUBSET Of(S, u)
      OBVIOUS
    <3> QED BY <3>1, OfFinite, FS_Subset, FS_CardinalityType
  <2> QED BY <1>1, <2>2, <2>3, <2>4
<1> HIDE DEF n, k, m
<1>3. used'[u] <= Clamped(used[u], k)
  BY DEF k
<1>4. used'[u] <= m
  BY <1>1, <1>2, <1>3 DEF Clamped
<1> QED
  BY <1>4 DEF m

LEMMA QuietTables ==
  ASSUME TypeOK, Tables, UNCHANGED <<rows, sess, used, removed>>
  PROVE  Tables' /\ Forward
<1>1. \A u \in Users : Charged(u) \subseteq Charged(u)'
  BY DEF Charged, InRegistry, Open
<1>2. NeverOvercharged'
  BY <1>1, SameCharge DEF Tables
<1> QED
  BY <1>2 DEF Tables, Forward, SessionsFirst, RemovedOwnsNothing, InRegistry, Open
\* A reservation charges its owner for an item not charged before.
LEMMA AdmitCharge ==
  ASSUME TypeOK, NeverOvercharged, NEW i \in Items, ~InRegistry(i), ~Open(i),
         InRegistry(i)' \/ Open(i)',
         used' = [used EXCEPT ![Owner[i]] = @ + 1], removed' = removed,
         \A u \in Users : Charged(u) \subseteq Charged(u)'
  PROVE  NeverOvercharged'
<1> SUFFICES ASSUME NEW u \in Users, u \notin removed
             PROVE  used'[u] <= Cardinality(Charged(u)')
  BY DEF NeverOvercharged
<1>1. used[u] <= Cardinality(Charged(u)) /\ used[u] \in Int
  BY DEF NeverOvercharged, TypeOK
<1>2. CASE u = Owner[i]
  <2>1. i \notin Charged(u) /\ Charged(u) \cup {i} \subseteq Charged(u)'
    BY <1>2 DEF Charged
  <2>2. /\ Cardinality(Charged(u) \cup {i}) = Cardinality(Charged(u)) + 1
        /\ Cardinality(Charged(u) \cup {i}) <= Cardinality(Charged(u)')
    BY <2>1, ChargedFinite, FS_AddElement, FS_Subset
  <2>3. used'[u] = used[u] + 1
    BY <1>2 DEF TypeOK
  <2> QED BY <1>1, <2>2, <2>3, ChargedFinite
<1>3. CASE u # Owner[i]
  <2>1. used'[u] = used[u]
    BY <1>3 DEF TypeOK
  <2>2. Cardinality(Charged(u)) <= Cardinality(Charged(u)')
    BY ChargedFinite, FS_Subset
  <2> QED BY <1>1, <2>1, <2>2, ChargedFinite
<1> QED
  BY <1>2, <1>3

LEMMA CreateTables ==
  ASSUME TypeOK, Tables, NEW i \in Uploads, Create(i)
  PROVE  Tables' /\ Forward
<1>1. /\ sess[i] = "none" /\ Owner[i] \notin removed
      /\ sess' = [sess EXCEPT ![i] = "pending"]
      /\ used' = [used EXCEPT ![Owner[i]] = @ + 1]
      /\ UNCHANGED <<rows, removed>>
  BY DEF Create, Admitted
<1>2. SessionsFirst' /\ Forward
  BY <1>1 DEF Tables, SessionsFirst, Forward, TypeOK
<1>3. rows[i] = "none"
  BY <1>1 DEF Tables, SessionsFirst
<1>4. ~InRegistry(i) /\ ~Open(i) /\ Open(i)'
  BY <1>1, <1>3 DEF InRegistry, Open, TypeOK
<1>5. \A k \in Items : k # i => (InRegistry(k)' <=> InRegistry(k)) /\ (Open(k)' <=> Open(k))
  BY <1>1 DEF InRegistry, Open, TypeOK
<1>6. \A u \in Users : Charged(u) \subseteq Charged(u)'
  BY <1>4, <1>5 DEF Charged
<1>7. NeverOvercharged'
  BY <1>1, <1>4, <1>6, AdmitCharge, ItemFacts DEF Tables
<1>8. RemovedOwnsNothing'
  BY <1>1, <1>5 DEF Tables, RemovedOwnsNothing
<1> QED
  BY <1>2, <1>7, <1>8 DEF Tables

LEMMA DirectReserveTables ==
  ASSUME TypeOK, Tables, NEW i \in Directs, DirectReserve(i)
  PROVE  Tables' /\ Forward
<1>1. /\ rows[i] = "none" /\ Owner[i] \notin removed
      /\ rows' = [rows EXCEPT ![i] = "pending"]
      /\ used' = [used EXCEPT ![Owner[i]] = @ + 1]
      /\ UNCHANGED <<sess, removed>>
      /\ i \in Items /\ i \notin Uploads
  BY ItemFacts, ItemAssumption DEF DirectReserve, Admitted
<1>2. SessionsFirst' /\ Forward
  BY <1>1, ItemFacts DEF Tables, SessionsFirst, Forward, TypeOK
<1>4. ~InRegistry(i) /\ ~Open(i) /\ InRegistry(i)'
  BY <1>1 DEF InRegistry, Open, TypeOK
<1>5. \A k \in Items : k # i => (InRegistry(k)' <=> InRegistry(k)) /\ (Open(k)' <=> Open(k))
  BY <1>1 DEF InRegistry, Open, TypeOK
<1>6. \A u \in Users : Charged(u) \subseteq Charged(u)'
  BY <1>4, <1>5 DEF Charged
<1>7. NeverOvercharged'
  BY <1>1, <1>4, <1>6, AdmitCharge DEF Tables
<1>8. RemovedOwnsNothing'
  BY <1>1, <1>5 DEF Tables, RemovedOwnsNothing
<1> QED
  BY <1>2, <1>7, <1>8 DEF Tables

\* A commit moves the charge of an upload from its session to its row; a lease,
\* a refusal and the completion of a direct upload leave it where it is.
LEMMA CommitTables ==
  ASSUME TypeOK, Tables,
         (\E i \in Uploads : CommitLease(i)) \/ (\E ok \in BOOLEAN : CommitRegister(ok))
           \/ CommitRefused \/ DirectReady
  PROVE  Tables' /\ Forward
<1>j. job[Loop] \in Jobs
  BY JobOf, ItemFacts
<1>1. ASSUME NEW i \in Items, \A k \in Items \ {i} : rows'[k] = rows[k],
             \A k \in Uploads \ {i} : sess'[k] = sess[k],
             InRegistry(i) \/ Open(i), InRegistry(i)' \/ Open(i)',
             UNCHANGED <<used, removed>>
      PROVE  NeverOvercharged' /\ RemovedOwnsNothing'
  <2>1. \A k \in Items : (InRegistry(k)' \/ Open(k)') <=> (InRegistry(k) \/ Open(k))
    BY <1>1 DEF InRegistry, Open
  <2>2. NeverOvercharged'
    BY <1>1, <2>1, SameCharge DEF Tables, Charged
  <2> QED BY <1>1, <2>1, <2>2 DEF Tables, RemovedOwnsNothing
<1>2. ASSUME NEW i \in Uploads, CommitLease(i) PROVE Tables' /\ Forward
  <2>1. /\ sess[i] \in {"pending", "committing"} /\ sess' = [sess EXCEPT ![i] = "committing"]
        /\ UNCHANGED <<rows, used, removed>>
    BY <1>2 DEF CommitLease, MayCommit
  <2>2. SessionsFirst' /\ Forward
    BY <2>1 DEF Tables, SessionsFirst, Forward, TypeOK
  <2>3. Open(i) /\ Open(i)'
    BY <2>1 DEF Open, TypeOK
  <2> QED BY <1>1, <2>1, <2>2, <2>3, ItemFacts DEF Tables, TypeOK
<1>3. ASSUME NEW ok \in BOOLEAN, CommitRegister(ok) PROVE Tables' /\ Forward
  <2>1. PICK i \in Uploads : i = job[Loop].up /\ i \in Items
    BY <1>3, <1>j, JobParts, ItemFacts DEF CommitRegister, Ends, Continues
  <2>2. CASE ok /\ sess[i] = "committing"
    <3>1. /\ rows' = [rows EXCEPT ![i] = "ready"] /\ sess' = [sess EXCEPT ![i] = "committed"]
          /\ UNCHANGED <<used, removed>>
      BY <1>3, <2>1, <2>2 DEF CommitRegister
    <3>2. SessionsFirst' /\ Forward
      BY <2>1, <2>2, <3>1 DEF Tables, SessionsFirst, Forward, TypeOK
    <3>3. Open(i) /\ InRegistry(i)'
      BY <2>1, <2>2, <3>1 DEF Open, InRegistry, TypeOK
    <3> QED BY <1>1, <2>1, <3>1, <3>2, <3>3 DEF Tables, TypeOK
  <2>3. CASE ~(ok /\ sess[i] = "committing")
    BY <1>3, <2>1, <2>3, QuietTables DEF CommitRegister
  <2> QED BY <2>2, <2>3
<1>4. CASE CommitRefused
  <2>1. PICK i \in Uploads : i = job[Loop].up /\ i \in Items
    BY <1>4, <1>j, JobParts, ItemFacts DEF CommitRefused, Ends, Continues
  <2>2. CASE sess[i] = "committing"
    <3>1. sess' = [sess EXCEPT ![i] = "pending"] /\ UNCHANGED <<rows, used, removed>>
      BY <1>4, <2>1, <2>2 DEF CommitRefused
    <3>2. SessionsFirst' /\ Forward
      BY <2>1, <2>2, <3>1 DEF Tables, SessionsFirst, Forward, TypeOK
    <3>3. Open(i) /\ Open(i)'
      BY <2>1, <2>2, <3>1 DEF Open, TypeOK
    <3> QED BY <1>1, <2>1, <3>1, <3>2, <3>3 DEF Tables, TypeOK
  <2>3. CASE sess[i] # "committing"
    BY <1>4, <2>1, <2>3, QuietTables DEF CommitRefused
  <2> QED BY <2>2, <2>3
<1>5. CASE DirectReady
  <2>1. PICK i \in Items : i = job[Loop].file /\ i \notin Uploads
    BY <1>5, <1>j, JobParts, ItemFacts, ItemAssumption DEF DirectReady, Ends, Continues
  <2>2. /\ rows[i] = "pending" /\ rows' = [rows EXCEPT ![i] = "ready"]
        /\ UNCHANGED <<sess, used, removed>>
    BY <1>5, <2>1 DEF DirectReady
  <2>3. SessionsFirst' /\ Forward
    BY <2>1, <2>2, ItemFacts DEF Tables, SessionsFirst, Forward, TypeOK
  <2>4. InRegistry(i) /\ InRegistry(i)'
    BY <2>1, <2>2 DEF InRegistry, TypeOK
  <2> QED BY <1>1, <2>1, <2>2, <2>3, <2>4 DEF Tables, TypeOK
<1> QED
  BY <1>2, <1>3, <1>4, <1>5
\* A release without the clamp is no more than one with it.
LEMMA Unclamped ==
  ASSUME TypeOK, NEW S \in SUBSET Items, NEW u \in Users
  PROVE  /\ Released(S)[u] = Clamped(used[u], Cardinality(Of(S, u)))
         /\ ReleasedUnclamped(S)[u] <= Clamped(used[u], Cardinality(Of(S, u)))
         /\ Released(S)[u] \in Int /\ ReleasedUnclamped(S)[u] \in Int
<1> DEFINE k == Cardinality(Of(S, u))
<1>1. k \in Nat /\ used[u] \in Int
  BY OfFinite DEF TypeOK
<1>2. Released(S)[u] = Clamped(used[u], k) /\ ReleasedUnclamped(S)[u] = used[u] - k
  BY DEF Released, ReleasedUnclamped
<1> HIDE DEF k
<1>3. /\ Clamped(used[u], k) \in Int /\ used[u] - k <= Clamped(used[u], k)
      /\ used[u] - k \in Int
  BY <1>1 DEF Clamped
<1> QED
  BY <1>2, <1>3 DEF k

\* Rows go, and no less than that is still charged.
LEMMA RowsGone ==
  ASSUME TypeOK, Tables, NEW S \in SUBSET Items,
         \A i \in S : rows[i] # "none" /\ rows'[i] = "gone",
         \A i \in Items \ S : rows'[i] = rows[i],
         UNCHANGED <<sess, removed>>,
         \A u \in Users :
           used'[u] \in Int /\ used'[u] <= Clamped(used[u], Cardinality(Of(S, u)))
  PROVE  Tables' /\ Forward
<1>1. SessionsFirst' /\ Forward
  BY ItemFacts DEF Tables, SessionsFirst, Forward
<1>2. \A i \in Items : (InRegistry(i)' => InRegistry(i)) /\ (Open(i)' <=> Open(i))
  BY DEF InRegistry, Open
<1>3. RemovedOwnsNothing'
  BY <1>2 DEF Tables, RemovedOwnsNothing
<1>4. \A u \in Users : Charged(u) \ S \subseteq Charged(u)'
  BY DEF Charged, InRegistry, Open
<1>5. NeverOvercharged'
  BY <1>4, ReleaseCharge DEF Tables, NeverOvercharged
<1> QED
  BY <1>1, <1>3, <1>5 DEF Tables

\* Sessions go; those that were open are among what is released.
LEMMA SessionsGone ==
  ASSUME TypeOK, Tables, NEW S \in SUBSET Uploads, NEW R \in SUBSET Items,
         \A i \in S : sess'[i] = "gone" /\ (Open(i) => i \in R),
         \A i \in Uploads \ S : sess'[i] = sess[i],
         UNCHANGED <<rows, removed>>, used' = Released(R)
  PROVE  Tables' /\ Forward
<1>1. SessionsFirst' /\ Forward
  BY DEF Tables, SessionsFirst, Forward
<1>2. \A i \in Items : (InRegistry(i)' <=> InRegistry(i)) /\ (Open(i)' => Open(i))
  BY DEF InRegistry, Open
<1>3. RemovedOwnsNothing'
  BY <1>2 DEF Tables, RemovedOwnsNothing
<1>4. \A u \in Users : Charged(u) \ R \subseteq Charged(u)'
  BY DEF Charged, InRegistry, Open
<1>5. \A u \in Users : used'[u] \in Int /\ used'[u] <= Clamped(used[u], Cardinality(Of(R, u)))
  <2>1. ASSUME NEW u \in Users
        PROVE  used'[u] \in Int /\ used'[u] <= Clamped(used[u], Cardinality(Of(R, u)))
    BY Unclamped
  <2> QED BY <2>1
<1>6. NeverOvercharged'
  BY <1>4, <1>5, ReleaseCharge DEF Tables, NeverOvercharged
<1> QED
  BY <1>1, <1>3, <1>6 DEF Tables

LEMMA CancelTables ==
  ASSUME TypeOK, Tables, NEW i \in Uploads, Cancel(i)
  PROVE  Tables' /\ Forward
<1>1. /\ used' = Released({i}) /\ UNCHANGED <<rows, removed>>
      /\ sess' = [sess EXCEPT ![i] = "gone"]
  BY DEF Cancel
<1>2. /\ \A k \in {i} : sess'[k] = "gone"
      /\ \A k \in Uploads \ {i} : sess'[k] = sess[k]
  BY <1>1 DEF TypeOK
<1> QED
  BY <1>1, <1>2, SessionsGone, ItemFacts

LEMMA FileRowTables ==
  ASSUME TypeOK, JobsRecall, Tables, DirectUndo \/ DeleteRow \/ DownloadHeals
  PROVE  Tables' /\ Forward
<1>j. job[Loop] \in Jobs /\ Recalls(job[Loop])
  BY JobOf, ItemFacts DEF JobsRecall
<1>1. CASE DirectUndo
  <2>1. PICK i \in Items : i = job[Loop].file
    BY <1>1, <1>j, JobParts, ItemFacts DEF DirectUndo
  <2>2. CASE rows[i] = "pending"
    <3>1. /\ rows' = [rows EXCEPT ![i] = "gone"] /\ used' = Released({i})
          /\ UNCHANGED <<sess, removed>>
      BY <1>1, <2>1, <2>2 DEF DirectUndo
    <3> QED BY <2>2, <3>1, Unclamped, RowsGone DEF TypeOK
  <2>3. CASE rows[i] # "pending"
    BY <1>1, <2>1, <2>3, QuietTables DEF DirectUndo
  <2> QED BY <2>2, <2>3
<1>2. CASE DeleteRow \/ DownloadHeals
  <2>1. PICK i \in Items : i = job[Loop].file
    BY <1>2, <1>j, JobParts DEF DeleteRow, DownloadHeals, Ends, Continues
  <2>2. rows[i] # "none"
    BY <1>2, <1>j, <2>1 DEF DeleteRow, DownloadHeals, Ends, Continues, Recalls
  <2>3. /\ rows' = [rows EXCEPT ![i] = "gone"]
        /\ used' = Released({i}) \/ used' = ReleasedUnclamped({i})
        /\ UNCHANGED <<sess, removed>>
    BY <1>2, <2>1 DEF DeleteRow, DownloadHeals
  <2>4. \A u \in Users :
          used'[u] \in Int /\ used'[u] <= Clamped(used[u], Cardinality(Of({i}, u)))
    BY <2>3, Unclamped
  <2> QED BY <2>2, <2>3, <2>4, RowsGone DEF TypeOK
<1> QED
  BY <1>1, <1>2

LEMMA SweepRowsTables ==
  ASSUME TypeOK, JobsRecall, Tables, NEW a \in Actors, SweepRows(a)
  PROVE  Tables' /\ Forward
<1>j. job[a] \in Jobs /\ Recalls(job[a]) /\ job[a].op = "rows"
  BY JobOf DEF JobsRecall, SweepRows, Continues
<1>s. PICK S \in SUBSET Items : job[a].saw \in [S -> {"pending", "ready"}]
  BY <1>j, JobParts
<1>1. PICK f \in [S -> {"pending", "ready"}] : f = job[a].saw
  BY <1>s
<1>2. PICK old \in SUBSET S : old = {i \in S : f[i] = "pending"}
  OBVIOUS
<1>3. \A i \in S : rows[i] # "none"
  BY <1>j, <1>1 DEF Recalls
<1>4. /\ rows' = Marked(rows, S, "gone") /\ UNCHANGED <<sess, removed>>
      /\ used' = [u \in Users |-> Released(old)[u] - Cardinality(Of(S \ old, u))]
  BY <1>1, <1>2 DEF SweepRows
<1>5. ASSUME NEW u \in Users
      PROVE  used'[u] \in Int /\ used'[u] <= Clamped(used[u], Cardinality(Of(S, u)))
  <2> DEFINE k == Cardinality(Of(old, u))
             r == Cardinality(Of(S \ old, u))
  <2>1. Of(S, u) = Of(old, u) \cup Of(S \ old, u) /\ Of(old, u) \cap Of(S \ old, u) = {}
    BY DEF Of
  <2>2. old \in SUBSET Items /\ S \ old \in SUBSET Items
    OBVIOUS
  <2>3. IsFiniteSet(Of(old, u)) /\ IsFiniteSet(Of(S \ old, u)) /\ k \in Nat /\ r \in Nat
    BY <2>2, OfFinite
  <2>4. Cardinality(Of(S, u)) = k + r
    <3>1. Cardinality(Of(old, u) \cup Of(S \ old, u))
            = k + r - Cardinality(Of(old, u) \cap Of(S \ old, u))
      BY <2>3, FS_Union
    <3>2. Cardinality(Of(old, u) \cap Of(S \ old, u)) = 0
      BY <2>1, FS_EmptySet
    <3> HIDE DEF k, r
    <3> QED BY <2>1, <2>3, <3>1, <3>2
  <2>5. used'[u] = Clamped(used[u], k) - r /\ used[u] \in Int
    BY <1>4, <2>2, Unclamped DEF TypeOK
  <2> HIDE DEF k, r
  <2>6. used'[u] \in Int /\ used'[u] <= Clamped(used[u], k + r)
    BY <2>3, <2>5 DEF Clamped
  <2> QED BY <2>4, <2>6
<1> QED
  BY <1>3, <1>4, <1>5, RowsGone DEF Marked, TypeOK

LEMMA SweepSessionsTables ==
  ASSUME TypeOK, JobsRecall, Tables, NEW a \in Actors, SweepSessions(a)
  PROVE  Tables' /\ Forward
<1>j. job[a] \in Jobs /\ Recalls(job[a]) /\ job[a].op = "sessions"
  BY JobOf DEF JobsRecall, SweepSessions, Ends, Continues
<1>s. PICK S \in SUBSET Uploads :
        job[a].saw \in [S -> {"pending", "committing", "committed"}]
  BY <1>j, JobParts
<1>1. PICK f \in [S -> {"pending", "committing", "committed"}] : f = job[a].saw
  BY <1>s
<1>2. PICK R \in SUBSET S : R = {i \in S : f[i] # "committed"}
  OBVIOUS
<1>3. sess' = Marked(sess, S, "gone") /\ UNCHANGED <<rows, removed>> /\ used' = Released(R)
  BY <1>1, <1>2 DEF SweepSessions
<1>4. \A i \in S : Open(i) => i \in R
  BY <1>j, <1>1, <1>2 DEF Recalls, Open
<1> QED
  BY <1>3, <1>4, SessionsGone, ItemFacts DEF Marked, TypeOK
LEMMA PurgedTables ==
  ASSUME TypeOK, Tables, NEW t \in Threads, ResetCommit(t) \/ DeregisterCommit(t)
  PROVE  Tables' /\ Forward
<1>j. PICK u \in Users : u = job[t].user
  BY JobOf, JobParts, ItemFacts DEF ResetCommit, DeregisterCommit, Ends, Continues
<1>1. /\ sess' = Marked(sess, SessionsOf(u), "gone")
      /\ rows' = Marked(rows, FilesOf(u), "gone")
      /\ removed \subseteq removed' /\ removed' \subseteq removed \cup {u}
  BY <1>j DEF ResetCommit, DeregisterCommit, SessionsPurged, RowsDropped
<1>2. SessionsFirst' /\ Forward
  <2>1. \A i \in Uploads : sess'[i] \in {"none", "pending", "committing"} =>
          sess'[i] = sess[i] /\ rows'[i] = rows[i]
    BY <1>1, ItemFacts DEF Marked, TypeOK, Tables, SessionsFirst, FilesOf, InRegistry
  <2>2. SessionsFirst'
    BY <2>1 DEF Tables, SessionsFirst
  <2> QED BY <1>1, <2>2 DEF Forward, Marked, TypeOK
<1>3. \A i \in Items : /\ InRegistry(i)' <=> InRegistry(i) /\ Owner[i] # u
                       /\ Open(i)' <=> Open(i) /\ Owner[i] # u
  BY <1>1 DEF Marked, TypeOK, InRegistry, Open, FilesOf, SessionsOf, Of, Items
<1>4. RemovedOwnsNothing'
  BY <1>1, <1>3 DEF Tables, RemovedOwnsNothing
<1>5. ASSUME NEW v \in Users, v \notin removed' PROVE used'[v] <= Cardinality(Charged(v)')
  <2>1. v \notin removed /\ used[v] <= Cardinality(Charged(v)) /\ used[v] \in Int
    BY <1>1, <1>5 DEF Tables, NeverOvercharged, TypeOK
  <2>2. CASE used'[v] = 0
    BY <2>2, ChargedFinite
  <2>3. CASE v # u /\ used'[v] = used[v]
    <3>1. Charged(v)' = Charged(v)
      BY <1>3, <2>3 DEF Charged
    <3> QED BY <2>1, <2>3, <3>1
  <2>4. CASE FilesOf(u) = {} /\ used' = Released({i \in SessionsOf(u) : Open(i)})
    <3>1. PICK R \in SUBSET Items : R = {i \in SessionsOf(u) : Open(i)}
      BY ItemFacts DEF SessionsOf, Of
    <3>2. Charged(v) \ R \subseteq Charged(v)'
      BY <1>3, <2>4, <3>1 DEF Charged, Open, SessionsOf, FilesOf, Of
    <3> QED BY <2>1, <2>4, <3>1, <3>2, Unclamped, ReleaseCharge DEF Tables
  <2>5. \/ used' = [used EXCEPT ![u] = 0]
        \/ FilesOf(u) = {} /\ used' = Released({i \in SessionsOf(u) : Open(i)})
    BY <1>j DEF ResetCommit, DeregisterCommit
  <2> QED BY <2>2, <2>3, <2>4, <2>5 DEF TypeOK
<1> QED
  BY <1>2, <1>4, <1>5 DEF Tables, NeverOvercharged

\* The steps that touch neither rows nor sessions nor charges.
Quiet == UNCHANGED <<rows, sess, used, removed>>

LEMMA QuietSteps ==
  /\ \A i \in Uploads : Resume(i) => Quiet
  /\ \A i \in Uploads, c \in Chunks : PutLink(i, c) => Quiet
  /\ \A ok \in BOOLEAN : PutCommit(ok) \/ CommitAssemble(ok) => Quiet
  /\ CommitLink \/ DirectRename \/ SweepBeforeCreate \/ Crash => Quiet
  /\ \A i \in Items : FileRequest(i) \/ Expire(i) \/ Age(i) => Quiet
  /\ \A a \in Actors : SweepStart(a) \/ SweepUnlink(a) => Quiet
  /\ \A t \in Threads, u \in Users : ResetFiles(t, u) \/ DeregisterFiles(t, u) => Quiet
  /\ \A t \in Threads : DeregisterSessions(t) => Quiet
  /\ UNCHANGED vars => Quiet
<1> USE DEF Quiet, tables
<1>1. /\ \A i \in Uploads : Resume(i) => Quiet
      /\ \A i \in Uploads, c \in Chunks : PutLink(i, c) => Quiet
      /\ \A ok \in BOOLEAN : PutCommit(ok) \/ CommitAssemble(ok) => Quiet
  BY DEF Resume, PutLink, PutCommit, CommitAssemble
<1>2. /\ CommitLink \/ DirectRename \/ SweepBeforeCreate \/ Crash => Quiet
      /\ \A i \in Items : FileRequest(i) \/ Expire(i) \/ Age(i) => Quiet
      /\ \A a \in Actors : SweepStart(a) \/ SweepUnlink(a) => Quiet
  BY DEF CommitLink, DirectRename, SweepBeforeCreate, Crash, FileRequest, DeleteFile,
         DownloadFails, Expire, Age, SweepStart, SweepUnlink
<1>3. /\ \A t \in Threads, u \in Users : ResetFiles(t, u) \/ DeregisterFiles(t, u) => Quiet
      /\ \A t \in Threads : DeregisterSessions(t) => Quiet
      /\ UNCHANGED vars => Quiet
  BY DEF ResetFiles, DeregisterFiles, DeregisterSessions, vars
<1> QED
  BY <1>1, <1>2, <1>3

LEMMA TablesStep == TypeOK /\ JobsRecall /\ Tables /\ [Next]_vars => Tables' /\ Forward
<1> SUFFICES ASSUME TypeOK, JobsRecall, Tables, [Next]_vars PROVE Tables' /\ Forward
  OBVIOUS
<1>q. Quiet => Tables' /\ Forward
  BY QuietTables DEF Quiet
<1>1. CASE LoopStep
  BY <1>1, <1>q, QuietSteps, CommitTables, FileRowTables DEF LoopStep
<1>2. ASSUME NEW i \in Uploads, UploadRequest(i) PROVE Tables' /\ Forward
  BY <1>2, <1>q, QuietSteps, CreateTables, CommitTables, CancelTables DEF UploadRequest
<1>3. ASSUME NEW i \in Directs, DirectReserve(i) PROVE Tables' /\ Forward
  BY <1>3, DirectReserveTables
<1>4. ASSUME NEW i \in Items, FileRequest(i) \/ Expire(i) \/ Age(i) PROVE Tables' /\ Forward
  BY <1>4, <1>q, QuietSteps
<1>5. ASSUME NEW a \in Actors, SweepStart(a) \/ SweepStep(a) PROVE Tables' /\ Forward
  BY <1>5, <1>q, QuietSteps, SweepRowsTables, SweepSessionsTables DEF SweepStep
<1>6. ASSUME NEW t \in Threads,
             PurgeStep(t) \/ (\E u \in Users : ResetFiles(t, u) \/ DeregisterFiles(t, u))
      PROVE  Tables' /\ Forward
  BY <1>6, <1>q, QuietSteps, PurgedTables DEF PurgeStep
<1>7. CASE SweepBeforeCreate \/ Crash \/ UNCHANGED vars
  BY <1>7, <1>q, QuietSteps
<1> QED
  BY <1>1, <1>2, <1>3, <1>4, <1>5, <1>6, <1>7 DEF Next
-----------------------------------------------------------------------------
(* What jobs recall stays true *)

Recalling == {"delete", "heal", "unlink", "rows", "sessions"}

\* How the job of one actor changes, as far as it recalls anything.
Recollects(b) ==
  \/ job'[b] = job[b]
  \/ job'[b].op \notin Recalling
  \/ job'[b].op \in {"delete", "heal"} /\ rows[job'[b].file] # "none"
  \/ job'[b] = [op |-> "unlink", saw |-> Snapshot(rows, StaleRows \cup ExpiredRows)]
  \/ job'[b] = [op |-> "rows", saw |-> job[b].saw] /\ job[b].op = "unlink"
  \/ job'[b] = [op |-> "sessions", saw |-> Snapshot(sess, ExpiredSessions)]

LEMMA JobStep ==
  ASSUME TypeOK, [Next]_vars, NEW b \in Actors
  PROVE  Recollects(b)
<1> USE DEF Recalling, Recollects
<1>1. CASE LoopStep
  <2>1. \E j \in Jobs : j.op \notin Recalling /\ job' = [job EXCEPT ![Loop] = j]
    <3>1. Idle \in Jobs /\ Idle.op = "idle"
      BY JobMade DEF Idle
    <3>2. CASE \/ \E ok \in BOOLEAN : PutCommit(ok) \/ CommitRegister(ok)
               \/ CommitRefused \/ DirectReady \/ DirectUndo \/ DeleteRow \/ DownloadHeals
      BY <3>1, <3>2 DEF PutCommit, CommitRegister, CommitRefused, DirectReady, DirectUndo,
         DeleteRow, DownloadHeals, Ends, Continues
    <3>3. CASE (\E ok \in BOOLEAN : CommitAssemble(ok)) \/ CommitLink
      <4>1. job[Loop].up \in Uploads
        BY <3>3, JobOf, JobParts, ItemFacts DEF CommitAssemble, CommitLink, Continues
      <4> QED
        BY <3>1, <3>3, <4>1, JobMade DEF CommitAssemble, CommitLink, Continues
    <3>4. CASE DirectRename
      <4>1. job[Loop].file \in Directs
        BY <3>4, JobOf, JobParts, ItemFacts DEF DirectRename, Continues
      <4> QED
        BY <3>4, <4>1, JobMade DEF DirectRename, Continues
    <3> QED BY <1>1, <3>2, <3>3, <3>4 DEF LoopStep
  <2> QED BY <2>1, ItemFacts DEF TypeOK
<1>2. ASSUME NEW i \in Uploads, UploadRequest(i) PROVE Recollects(b)
  <2>1. CASE Create(i) \/ Resume(i) \/ Cancel(i)
    BY <2>1 DEF Create, Resume, Cancel
  <2>2. CASE CommitLease(i)
    BY <2>2, ItemFacts DEF CommitLease, Starts, TypeOK
  <2>3. ASSUME NEW c \in Chunks, PutLink(i, c) PROVE Recollects(b)
    BY <2>3, ItemFacts DEF PutLink, Starts, TypeOK
  <2> QED BY <1>2, <2>1, <2>2, <2>3 DEF UploadRequest
<1>3. ASSUME NEW i \in Directs, DirectReserve(i) PROVE Recollects(b)
  BY <1>3, ItemFacts DEF DirectReserve, Starts, TypeOK
<1>4. ASSUME NEW i \in Items, FileRequest(i) \/ Expire(i) \/ Age(i) PROVE Recollects(b)
  <2>1. CASE Expire(i) \/ Age(i)
    BY <2>1 DEF Expire, Age
  <2>2. CASE FileRequest(i)
    <3>1. /\ rows[i] # "none"
          /\ \/ job' = [job EXCEPT ![Loop] = [op |-> "delete", file |-> i]]
             \/ job' = [job EXCEPT ![Loop] = [op |-> "heal", file |-> i]]
      BY <2>2 DEF FileRequest, DeleteFile, DownloadFails, Starts, InRegistry
    <3>2. CASE b = Loop
      BY <3>1, <3>2, ItemFacts DEF TypeOK
    <3>3. CASE b # Loop
      BY <3>1, <3>3, ItemFacts DEF TypeOK
    <3> QED BY <3>2, <3>3
  <2> QED BY <1>4, <2>1, <2>2
<1>5. ASSUME NEW a \in Actors, SweepStart(a) \/ SweepStep(a) PROVE Recollects(b)
  <2>1. \E j \in Jobs : job' = [job EXCEPT ![a] = j] /\
          \/ j.op \notin Recalling
          \/ j = [op |-> "unlink", saw |-> Snapshot(rows, StaleRows \cup ExpiredRows)]
          \/ j = [op |-> "rows", saw |-> job[a].saw] /\ job[a].op = "unlink"
          \/ j = [op |-> "sessions", saw |-> Snapshot(sess, ExpiredSessions)]
    <3>1. CASE SweepStart(a)
      BY <3>1, SnapshotType, JobMade DEF SweepStart, Starts
    <3>2. CASE SweepUnlink(a)
      <4>1. PICK S \in SUBSET Items : job[a].saw \in [S -> {"pending", "ready"}]
        BY <3>2, JobOf, JobParts DEF SweepUnlink, Continues
      <4> QED BY <3>2, <4>1, JobMade DEF SweepUnlink, Continues
    <3>3. CASE SweepRows(a)
      BY <3>3, SnapshotType, JobMade DEF SweepRows, Continues
    <3>4. CASE SweepSessions(a)
      BY <3>4, JobMade DEF SweepSessions, Ends, Continues, Idle
    <3> QED BY <1>5, <3>1, <3>2, <3>3, <3>4 DEF SweepStep
  <2>2. CASE b = a
    BY <2>1, <2>2 DEF TypeOK
  <2>3. CASE b # a
    BY <2>1, <2>3 DEF TypeOK
  <2> QED BY <2>2, <2>3
<1>6. ASSUME NEW t \in Threads,
             PurgeStep(t) \/ (\E u \in Users : ResetFiles(t, u) \/ DeregisterFiles(t, u))
      PROVE  Recollects(b)
  <2>1. \E j : j.op \notin Recalling /\ job' = [job EXCEPT ![t] = j]
    BY <1>6 DEF PurgeStep, ResetFiles, DeregisterFiles, ResetCommit, DeregisterSessions,
       DeregisterCommit, Starts, Continues, Ends, Idle
  <2> QED BY <2>1, ItemFacts DEF TypeOK
<1>7. CASE SweepBeforeCreate
  BY <1>7, ItemFacts DEF SweepBeforeCreate, Starts, TypeOK
<1>8. CASE Crash \/ UNCHANGED vars
  BY <1>8 DEF Crash, Idle, vars
<1> QED
  BY <1>1, <1>2, <1>3, <1>4, <1>5, <1>6, <1>7, <1>8 DEF Next

LEMMA RecallStep ==
  ASSUME TypeOK, JobsRecall, Forward, TypeOK', [Next]_vars
  PROVE  JobsRecall'
<1> SUFFICES ASSUME NEW b \in Actors PROVE Recalls(job[b])'
  BY DEF JobsRecall
<1>j. job[b] \in Jobs /\ Recalls(job[b]) /\ Recollects(b) /\ job'[b] \in Jobs
  BY JobStep DEF JobsRecall, TypeOK
<1>1. CASE job'[b] = job[b]
  <2>1. job[b].op \in {"delete", "heal"} => rows'[job[b].file] # "none"
    BY <1>j, JobParts DEF Recalls, Forward
  <2>2. job[b].op \in {"unlink", "rows"} => \A i \in DOMAIN job[b].saw : rows'[i] # "none"
    BY <1>j, JobParts DEF Recalls, Forward
  <2>3. job[b].op = "sessions" =>
          \A i \in DOMAIN job[b].saw :
            job[b].saw[i] = "committed" => sess'[i] \in {"committed", "gone"}
    BY <1>j, JobParts DEF Recalls, Forward
  <2> QED BY <1>1, <2>1, <2>2, <2>3 DEF Recalls
<1>2. CASE job'[b].op \notin Recalling
  BY <1>2 DEF Recalls, Recalling
<1>3. CASE job'[b].op \in {"delete", "heal"} /\ rows[job'[b].file] # "none"
  BY <1>j, <1>3, JobParts DEF Recalls, Forward
<1>4. CASE job'[b] = [op |-> "unlink", saw |-> Snapshot(rows, StaleRows \cup ExpiredRows)]
  <2>1. \A i \in StaleRows \cup ExpiredRows : i \in Items /\ rows[i] # "none"
    BY DEF StaleRows, ExpiredRows
  <2> QED BY <1>4, <2>1 DEF Recalls, Forward, Snapshot
<1>5. CASE job'[b] = [op |-> "rows", saw |-> job[b].saw] /\ job[b].op = "unlink"
  <2>1. \A i \in DOMAIN job[b].saw : rows'[i] # "none"
    BY <1>j, <1>5, JobParts DEF Recalls, Forward
  <2> QED BY <1>5, <2>1 DEF Recalls
<1>6. CASE job'[b] = [op |-> "sessions", saw |-> Snapshot(sess, ExpiredSessions)]
  <2>1. \A i \in ExpiredSessions : i \in Uploads
    BY DEF ExpiredSessions
  <2> QED BY <1>6, <2>1 DEF Recalls, Forward, Snapshot
<1> QED
  BY <1>j, <1>1, <1>2, <1>3, <1>4, <1>5, <1>6 DEF Recollects
-----------------------------------------------------------------------------
(* Chunks.  A put may take its file away only if no row names it, and a     *)
(* file goes only with its session or in the transaction of a purge.        *)

Purging(u) ==
  \E t \in Threads : job[t].op \in {"reset", "deregister"} /\ job[t].user = u

ChunksKept ==
  \A k \in chunkRow : Open(k[1]) => k \in chunkFile \/ Purging(Owner[k[1]])

\* The chunk of a put in progress, unless its session ended or is being purged.
PutHolds ==
  job[Loop].op = "put" =>
    LET k == job[Loop].chunk
    IN  Open(k[1]) /\ ~Purging(Owner[k[1]]) =>
          k \in chunkFile /\ (job[Loop].created => k \notin chunkRow)

ChunkInv == crashes = 0 => ChunksKept /\ PutHolds

\* A step that adds no chunk row and opens no session; what files it removes are
\* of ended sessions, or purged, or go with their rows; it starts no put.
Shrinks ==
  /\ \A i \in Uploads : Open(i)' => Open(i)
  /\ chunkRow' \subseteq chunkRow
  /\ \A k \in chunkFile \ chunkFile' :
       Open(k[1])' => Purging(Owner[k[1]])' \/ (k \notin chunkRow' /\ job'[Loop].op # "put")
  /\ \A u : Purging(u) => Purging(u)' \/ \A i \in Uploads : Owner[i] = u => ~Open(i)'
  /\ job'[Loop] = job[Loop] \/ job'[Loop].op # "put"

LEMMA ShrinksKeeps ==
  ASSUME TypeOK, TypeOK', ChunksKept, PutHolds, Shrinks
  PROVE  ChunksKept' /\ PutHolds'
<1>1. ASSUME NEW k \in chunkRow', Open(k[1])', ~Purging(Owner[k[1]])' PROVE k \in chunkFile'
  <2>1. k \in chunkRow /\ k[1] \in Uploads
    BY <1>1 DEF Shrinks, TypeOK, ChunksOf
  <2>2. Open(k[1]) /\ ~Purging(Owner[k[1]])
    BY <1>1, <2>1 DEF Shrinks
  <2>3. k \in chunkFile
    BY <2>1, <2>2 DEF ChunksKept
  <2> QED BY <1>1, <2>3 DEF Shrinks
<1>2. PutHolds'
  <2>1. CASE job'[Loop].op # "put"
    BY <2>1 DEF PutHolds
  <2>2. CASE job'[Loop] = job[Loop] /\ job[Loop].op = "put"
    <3>1. PICK k \in Uploads \X Chunks : k = job[Loop].chunk
      BY <2>2, JobOf, JobParts, ItemFacts
    <3>2. ASSUME Open(k[1])', ~Purging(Owner[k[1]])'
          PROVE  k \in chunkFile' /\ (job[Loop].created => k \notin chunkRow')
      <4>1. Open(k[1]) /\ ~Purging(Owner[k[1]])
        BY <3>1, <3>2 DEF Shrinks
      <4>2. k \in chunkFile /\ (job[Loop].created => k \notin chunkRow)
        BY <2>2, <3>1, <4>1 DEF PutHolds
      <4> QED BY <2>2, <3>2, <4>2 DEF Shrinks
    <3> QED BY <2>2, <3>1, <3>2 DEF PutHolds
  <2> QED BY <2>1, <2>2 DEF Shrinks
<1> QED
  BY <1>1, <1>2 DEF ChunksKept

\* An actor that is not purging does not end a purge.
LEMMA OneJob ==
  ASSUME TypeOK, NEW a \in Actors, NEW j, job' = [job EXCEPT ![a] = j],
         a \in Threads => job[a].op \notin {"reset", "deregister"}
  PROVE  /\ \A u : Purging(u) => Purging(u)'
         /\ job'[Loop] = IF a = Loop THEN j ELSE job[Loop]
<1>1. \A t \in Threads : job[t].op \in {"reset", "deregister"} => job'[t] = job[t]
  BY ItemFacts DEF TypeOK
<1> QED
  BY <1>1, ItemFacts DEF Purging, TypeOK

LEMMA NoJob ==
  ASSUME UNCHANGED job
  PROVE  (\A u : Purging(u) => Purging(u)') /\ job'[Loop] = job[Loop]
BY DEF Purging

\* The same for the event loop.
LEMMA LoopJob ==
  ASSUME TypeOK, NEW j, job' = [job EXCEPT ![Loop] = j]
  PROVE  (\A u : Purging(u) => Purging(u)') /\ job'[Loop] = j
BY OneJob, ItemFacts, LoopAssumption

LEMMA NoPurge ==
  ASSUME Free(Loop)
  PROVE  \A u : ~Purging(u)
BY ItemFacts, LoopAssumption DEF Free, Purging

-----------------------------------------------------------------------------
LEMMA CreateChunks ==
  ASSUME TypeOK, TypeOK', ChunksKept, PutHolds, NEW i \in Uploads, Create(i)
  PROVE  ChunksKept' /\ PutHolds'
<1>1. /\ job[Loop] = Idle /\ sess[i] = "none" /\ sess' = [sess EXCEPT ![i] = "pending"]
      /\ UNCHANGED <<chunkRow, chunkFile, job>>
  BY DEF Create, files
<1>2. \A k \in chunkRow : k[1] \in Uploads /\ k[1] # i
  BY <1>1 DEF TypeOK, ChunksOf
<1>3. \A k \in chunkRow : Open(k[1])' => Open(k[1])
  BY <1>1, <1>2 DEF TypeOK, Open
<1>4. ChunksKept'
  BY <1>1, <1>3, NoJob DEF ChunksKept
<1>5. PutHolds'
  BY <1>1 DEF PutHolds, Idle
<1> QED
  BY <1>4, <1>5

LEMMA PutLinkChunks ==
  ASSUME TypeOK, TypeOK', ChunksKept, PutHolds, NEW i \in Uploads, NEW c \in Chunks,
         PutLink(i, c)
  PROVE  ChunksKept' /\ PutHolds'
<1> DEFINE k == <<i, c>>
           j == [op |-> "put", chunk |-> k, created |-> k \notin chunkFile]
<1>1. /\ job' = [job EXCEPT ![Loop] = j] /\ chunkFile' = chunkFile \cup {k}
      /\ UNCHANGED <<sess, chunkRow>>
  BY DEF PutLink, Starts, tables
<1>2. /\ \A u : Purging(u) => Purging(u)'
      /\ job'[Loop] = j
  BY <1>1, LoopJob
<1>3. \A n \in Uploads : Open(n)' <=> Open(n)
  BY <1>1 DEF Open
<1>4. ChunksKept'
  <2>1. \A x \in chunkRow : x[1] \in Uploads
    BY DEF TypeOK, ChunksOf
  <2> QED BY <1>1, <1>2, <1>3, <2>1 DEF ChunksKept
<1>5. ASSUME Open(i)', ~Purging(Owner[i])' PROVE k \in chunkFile' /\ (j.created => k \notin chunkRow')
  <2>1. Open(k[1]) /\ ~Purging(Owner[k[1]])
    BY <1>2, <1>3, <1>5
  <2>2. k \notin chunkFile => k \notin chunkRow
    BY <2>1 DEF ChunksKept
  <2> QED BY <1>1, <2>2
<1>6. PutHolds'
  BY <1>2, <1>5 DEF PutHolds
<1> QED
  BY <1>4, <1>6

LEMMA PutCommitChunks ==
  ASSUME TypeOK, TypeOK', ChunksKept, PutHolds, NEW ok \in BOOLEAN, PutCommit(ok)
  PROVE  ChunksKept' /\ PutHolds'
<1>1. job[Loop].op = "put" /\ Free(Loop) /\ job' = [job EXCEPT ![Loop] = Idle]
      /\ UNCHANGED sess
  BY DEF PutCommit, Ends, Continues
<1>2. PICK put \in Uploads \X Chunks : put = job[Loop].chunk
  BY <1>1, JobOf, JobParts, ItemFacts
<1>3. Open(put[1]) => put \in chunkFile /\ (job[Loop].created => put \notin chunkRow)
  BY <1>1, <1>2, NoPurge DEF PutHolds
<1>4. PutHolds'
  <2>1. job'[Loop] = Idle
    BY <1>1, ItemFacts DEF TypeOK
  <2> QED BY <2>1 DEF PutHolds, Idle
<1>5. \A n \in Uploads : Open(n)' <=> Open(n)
  BY <1>1 DEF Open
<1>6. ASSUME NEW x \in chunkRow
      PROVE  x[1] \in Uploads /\ (Open(x[1]) => x \in chunkFile)
  <2>1. x[1] \in Uploads
    BY DEF TypeOK, ChunksOf
  <2>2. ~Purging(Owner[x[1]])
    BY <1>1, NoPurge
  <2> QED BY <2>1, <2>2 DEF ChunksKept
<1>7. CASE chunkRow' = chunkRow \cup {put} /\ chunkFile' = chunkFile
  <2>1. ASSUME NEW x \in chunkRow', Open(x[1])' PROVE x \in chunkFile'
    <3>1. CASE x \in chunkRow
      BY <1>5, <1>6, <1>7, <2>1, <3>1
    <3>2. CASE x = put
      BY <1>2, <1>3, <1>5, <1>7, <2>1, <3>2
    <3> QED BY <1>7, <3>1, <3>2
  <2> QED BY <1>4, <2>1 DEF ChunksKept
<1>8. CASE chunkRow' = chunkRow /\ chunkFile' = chunkFile \ Undone(job[Loop])
  <2>1. chunkFile' = IF job[Loop].created THEN chunkFile \ {put} ELSE chunkFile
    BY <1>2, <1>8 DEF Undone
  <2>2. ASSUME NEW x \in chunkRow', Open(x[1])' PROVE x \in chunkFile'
    <3>1. x \in chunkFile /\ Open(x[1])
      BY <1>5, <1>6, <1>8, <2>2
    <3>2. x = put => ~job[Loop].created
      BY <1>3, <1>8, <2>2, <3>1
    <3> QED BY <2>1, <3>1, <3>2
  <2> QED BY <1>4, <2>2 DEF ChunksKept
<1> QED
  <2>1. \/ chunkRow' = chunkRow \cup {put} /\ chunkFile' = chunkFile
        \/ chunkRow' = chunkRow /\ chunkFile' = chunkFile \ Undone(job[Loop])
    BY <1>2 DEF PutCommit
  <2> QED BY <1>7, <1>8, <2>1
-----------------------------------------------------------------------------
\* Steps of the loop that leave the chunks alone, but for those of a session that
\* is no longer open.
LEMMA LoopShrinks ==
  ASSUME TypeOK, LoopStep, \A ok \in BOOLEAN : ~PutCommit(ok)
  PROVE  Shrinks
<1>1. \E j : job' = [job EXCEPT ![Loop] = j] /\ j.op # "put"
  BY DEF LoopStep, CommitAssemble, CommitRegister, CommitLink, CommitRefused, DirectRename,
     DirectReady, DirectUndo, DeleteRow, DownloadHeals, Ends, Continues, Idle
<1>2. (\A u : Purging(u) => Purging(u)') /\ job'[Loop].op # "put"
  BY <1>1, LoopJob
<1>3. CASE UNCHANGED <<sess, chunkRow, chunkFile>>
  BY <1>2, <1>3 DEF Shrinks, Open
<1>4. ASSUME NEW ok \in BOOLEAN, CommitRegister(ok) PROVE Shrinks
  <2>1. PICK i \in Uploads : i = job[Loop].up
    BY <1>4, JobOf, JobParts, ItemFacts DEF CommitRegister, Ends, Continues
  <2>2. CASE ok /\ sess[i] = "committing"
    <3>1. /\ sess' = [sess EXCEPT ![i] = "committed"] /\ chunkRow' = chunkRow
          /\ chunkFile' = chunkFile \ ChunksOf({i})
      BY <1>4, <2>1, <2>2 DEF CommitRegister
    <3>2. \A n \in Uploads : Open(n)' => Open(n) /\ n # i
      BY <3>1 DEF Open, TypeOK
    <3>3. \A k \in chunkFile \ chunkFile' : k[1] = i
      BY <3>1 DEF ChunksOf
    <3> QED BY <1>2, <2>1, <3>1, <3>2, <3>3 DEF Shrinks
  <2>3. CASE ~(ok /\ sess[i] = "committing")
    BY <1>3, <1>4, <2>1, <2>3 DEF CommitRegister
  <2> QED BY <2>2, <2>3
<1>5. CASE CommitRefused
  <2>1. PICK i \in Uploads : i = job[Loop].up
    BY <1>5, JobOf, JobParts, ItemFacts DEF CommitRefused, Ends, Continues
  <2>2. CASE sess[i] # "committing"
    BY <1>3, <1>5, <2>1, <2>2 DEF CommitRefused
  <2>3. CASE sess[i] = "committing"
    <3>1. /\ sess' = [sess EXCEPT ![i] = "pending"]
          /\ chunkRow' = chunkRow \ ChunksOf({i}) /\ chunkFile' = chunkFile \ ChunksOf({i})
      BY <1>5, <2>1, <2>3 DEF CommitRefused
    <3>2. \A n \in Uploads : Open(n)' => Open(n)
      BY <2>3, <3>1 DEF Open, TypeOK
    <3>3. \A k \in chunkFile \ chunkFile' : k \notin chunkRow'
      BY <3>1
    <3> QED BY <1>2, <3>1, <3>2, <3>3 DEF Shrinks
  <2> QED BY <2>2, <2>3
<1> QED
  BY <1>3, <1>4, <1>5 DEF LoopStep, CommitAssemble, CommitLink, DirectRename, DirectReady,
     DirectUndo, DeleteRow, DownloadHeals, tables, files
LEMMA RequestShrinks ==
  ASSUME TypeOK,
         \/ \E i \in Uploads : Resume(i) \/ CommitLease(i) \/ Cancel(i)
         \/ \E i \in Directs : DirectReserve(i)
         \/ \E i \in Items : FileRequest(i) \/ Expire(i) \/ Age(i)
         \/ SweepBeforeCreate
         \/ UNCHANGED vars
  PROVE  Shrinks
<1>1. CASE SweepBeforeCreate \/ (\E i \in Directs : DirectReserve(i))
           \/ (\E i \in Items : FileRequest(i))
  <2>1. \E j : job' = [job EXCEPT ![Loop] = j] /\ j.op # "put"
    <3>1. CASE SweepBeforeCreate
      <4>1. [op |-> "sessions", saw |-> Snapshot(sess, ExpiredSessions)].op # "put"
        OBVIOUS
      <4> QED BY <3>1, <4>1 DEF SweepBeforeCreate, Starts
    <3>2. ASSUME NEW i \in Directs, DirectReserve(i)
          PROVE  \E j : job' = [job EXCEPT ![Loop] = j] /\ j.op # "put"
      <4>1. [op |-> "rename", file |-> i].op # "put"
        OBVIOUS
      <4> QED BY <3>2, <4>1 DEF DirectReserve, Starts
    <3>3. ASSUME NEW i \in Items, FileRequest(i)
          PROVE  \E j : job' = [job EXCEPT ![Loop] = j] /\ j.op # "put"
      <4>1. [op |-> "delete", file |-> i].op # "put" /\ [op |-> "heal", file |-> i].op # "put"
        OBVIOUS
      <4> QED BY <3>3, <4>1 DEF FileRequest, DeleteFile, DownloadFails, Starts
    <3> QED BY <1>1, <3>1, <3>2, <3>3
  <2>2. UNCHANGED <<sess, chunkRow, chunkFile>>
    BY <1>1 DEF SweepBeforeCreate, DirectReserve, FileRequest, DeleteFile, DownloadFails,
       tables, files
  <2> QED BY <2>1, <2>2, LoopJob DEF Shrinks, Open
<1>2. CASE UNCHANGED vars \/ (\E i \in Items : Expire(i) \/ Age(i))
  <2>1. UNCHANGED <<sess, chunkRow, chunkFile, job>>
    BY <1>2 DEF Expire, Age, vars, tables, files
  <2> QED BY <2>1, NoJob DEF Shrinks, Open
<1>3. ASSUME NEW i \in Uploads, Resume(i) PROVE Shrinks
  <2>1. UNCHANGED <<sess, chunkFile, job>> /\ chunkRow' \subseteq chunkRow
    BY <1>3 DEF Resume, files
  <2> QED BY <2>1, NoJob DEF Shrinks, Open
<1>4. ASSUME NEW i \in Uploads, CommitLease(i) PROVE Shrinks
  <2>1. \E j : job' = [job EXCEPT ![Loop] = j] /\ j.op # "put"
    <3>1. [op |-> "assemble", up |-> i].op # "put"
      OBVIOUS
    <3> QED BY <1>4, <3>1 DEF CommitLease, Starts
  <2>2. UNCHANGED <<chunkRow, chunkFile>>
    BY <1>4 DEF CommitLease, files
  <2>3. \A n \in Uploads : Open(n)' => Open(n)
    BY <1>4 DEF CommitLease, MayCommit, Open, TypeOK
  <2> QED BY <2>1, <2>2, <2>3, LoopJob DEF Shrinks
<1>5. ASSUME NEW i \in Uploads, Cancel(i) PROVE Shrinks
  <2>1. /\ sess' = [sess EXCEPT ![i] = "gone"] /\ UNCHANGED job
        /\ chunkRow' \subseteq chunkRow /\ chunkFile' = chunkFile \ ChunksOf({i})
    BY <1>5 DEF Cancel
  <2>2. \A n \in Uploads : Open(n)' => Open(n) /\ n # i
    BY <2>1 DEF Open, TypeOK
  <2>3. \A k \in chunkFile \ chunkFile' : k[1] = i
    BY <2>1 DEF ChunksOf
  <2> QED BY <2>1, <2>2, <2>3, NoJob DEF Shrinks
<1> QED
  BY <1>1, <1>2, <1>3, <1>4, <1>5

LEMMA SweepShrinks ==
  ASSUME TypeOK, NEW a \in Actors, SweepStart(a) \/ SweepStep(a)
  PROVE  Shrinks
<1>1. \E j : job' = [job EXCEPT ![a] = j] /\ j.op # "put"
  BY DEF SweepStart, SweepStep, SweepUnlink, SweepRows, SweepSessions, Starts, Ends, Continues,
     Idle
<1>2. job[a].op \notin {"reset", "deregister"}
  BY DEF SweepStart, SweepStep, SweepUnlink, SweepRows, SweepSessions, Starts, Ends, Continues,
     Idle
<1>3. /\ \A u : Purging(u) => Purging(u)'
      /\ job'[Loop] = job[Loop] \/ job'[Loop].op # "put"
  BY <1>1, <1>2, OneJob
<1>4. CASE UNCHANGED <<sess, chunkRow, chunkFile>>
  BY <1>3, <1>4 DEF Shrinks, Open
<1>5. CASE SweepSessions(a)
  <2>1. PICK S \in SUBSET Uploads : S = DOMAIN job[a].saw
    BY <1>5, JobOf, JobParts DEF SweepSessions, Ends, Continues
  <2>2. /\ sess' = Marked(sess, S, "gone")
        /\ chunkRow' = chunkRow \ ChunksOf(S) /\ chunkFile' = chunkFile \ ChunksOf(S)
    BY <1>5, <2>1 DEF SweepSessions
  <2>3. \A n \in Uploads : Open(n)' => Open(n) /\ n \notin S
    BY <2>2 DEF Marked, Open, TypeOK
  <2>4. \A k \in chunkFile \ chunkFile' : k[1] \in S
    BY <2>2 DEF ChunksOf
  <2> QED BY <1>3, <2>2, <2>3, <2>4 DEF Shrinks
<1> QED
  BY <1>4, <1>5 DEF SweepStart, SweepStep, SweepUnlink, SweepRows, tables, files

LEMMA PurgeShrinks ==
  ASSUME TypeOK, NEW t \in Threads,
         PurgeStep(t) \/ (\E u \in Users : ResetFiles(t, u) \/ DeregisterFiles(t, u))
  PROVE  Shrinks
<1>t. t \in Actors /\ t # Loop
  BY ItemFacts, LoopAssumption
<1>1. ASSUME NEW u \in Users, DeregisterFiles(t, u) PROVE Shrinks
  <2>1. /\ job' = [job EXCEPT ![t] = [op |-> "leaving", user |-> u]] /\ job[t] = Idle
        /\ UNCHANGED <<sess, chunkRow, chunkFile>>
    BY <1>1 DEF DeregisterFiles, Starts, tables
  <2>2. job[t].op \notin {"reset", "deregister"}
    BY <2>1 DEF Idle
  <2>3. (\A v : Purging(v) => Purging(v)') /\ job'[Loop] = job[Loop]
    BY <1>t, <2>1, <2>2, OneJob
  <2> QED BY <2>1, <2>3 DEF Shrinks, Open
<1>2. ASSUME NEW u \in Users, NEW op \in {"reset", "deregister"},
             job' = [job EXCEPT ![t] = [op |-> op, user |-> u]],
             job[t].op \notin {"reset", "deregister"},
             chunkFile' = chunkFile \ ChunksOf(SessionsOf(u)), UNCHANGED <<sess, chunkRow>>
      PROVE  Shrinks
  <2>1. (\A v : Purging(v) => Purging(v)') /\ job'[Loop] = job[Loop]
    BY <1>t, <1>2, OneJob
  <2>2. Purging(u)'
    <3>1. job'[t] = [op |-> op, user |-> u]
      BY <1>t, <1>2 DEF TypeOK
    <3> QED BY <3>1 DEF Purging
  <2>3. \A k \in chunkFile \ chunkFile' : Owner[k[1]] = u
    BY <1>2 DEF ChunksOf, SessionsOf, Of
  <2> QED BY <1>2, <2>1, <2>2, <2>3 DEF Shrinks, Open
<1>3. ASSUME NEW u \in Users, ResetFiles(t, u) PROVE Shrinks
  <2>1. /\ job' = [job EXCEPT ![t] = [op |-> "reset", user |-> u]] /\ job[t] = Idle
        /\ chunkFile' = chunkFile \ ChunksOf(SessionsOf(u))
        /\ UNCHANGED <<sess, chunkRow>>
    BY <1>3 DEF ResetFiles, Starts, tables
  <2>2. job[t].op \notin {"reset", "deregister"}
    BY <2>1 DEF Idle
  <2> QED BY <1>2, <2>1, <2>2
<1>4. CASE DeregisterSessions(t)
  <2>1. PICK u \in Users : u = job[t].user
    BY <1>t, <1>4, JobOf, JobParts DEF DeregisterSessions, Continues
  <2> QED BY <1>2, <1>4, <2>1 DEF DeregisterSessions, Continues, tables
<1>5. CASE ResetCommit(t) \/ DeregisterCommit(t)
  <2>1. PICK u \in Users : u = job[t].user
    BY <1>t, <1>5, JobOf, JobParts DEF ResetCommit, DeregisterCommit, Ends, Continues
  <2>2. /\ sess' = Marked(sess, SessionsOf(u), "gone") /\ chunkRow' \subseteq chunkRow
        /\ job' = [job EXCEPT ![t] = Idle] /\ UNCHANGED chunkFile
    BY <1>5, <2>1 DEF ResetCommit, DeregisterCommit, SessionsPurged, Ends, Continues, files
  <2>3. \A n \in Uploads : Open(n)' => Open(n) /\ Owner[n] # u
    BY <2>2 DEF Marked, Open, TypeOK, SessionsOf, Of
  <2>4. \A v : Purging(v) => v = u \/ Purging(v)'
    <3>1. \A s \in Threads : s # t => job'[s] = job[s]
      BY <2>2, ItemFacts DEF TypeOK
    <3> QED BY <2>1, <3>1 DEF Purging
  <2>5. job'[Loop] = job[Loop]
    BY <1>t, <2>2, ItemFacts DEF TypeOK
  <2> QED BY <2>2, <2>3, <2>4, <2>5 DEF Shrinks
<1> QED
  BY <1>1, <1>3, <1>4, <1>5 DEF PurgeStep

LEMMA ChunkStep ==
  ASSUME TypeOK, TypeOK', ChunkInv, [Next]_vars
  PROVE  ChunkInv'
<1> SUFFICES ASSUME crashes' = 0 PROVE ChunksKept' /\ PutHolds'
  BY DEF ChunkInv
<1>1. ~Crash /\ crashes = 0
  <2>1. crashes' = crashes \/ crashes' = crashes + 1
    BY DEF Next, LoopStep, PutCommit, CommitAssemble, CommitRegister, CommitLink, CommitRefused,
       DirectRename, DirectReady, DirectUndo, DeleteRow, DownloadHeals, UploadRequest, Create,
       Resume, CommitLease, Cancel, PutLink, DirectReserve, FileRequest, DeleteFile,
       DownloadFails, Expire, Age, SweepBeforeCreate, SweepStart, SweepStep, SweepUnlink,
       SweepRows, SweepSessions, PurgeStep, ResetCommit, DeregisterSessions, DeregisterCommit,
       ResetFiles, DeregisterFiles, Crash, vars
  <2> QED BY <2>1 DEF TypeOK, Crash
<1>2. ChunksKept /\ PutHolds
  BY <1>1 DEF ChunkInv
<1>3. Shrinks => ChunksKept' /\ PutHolds'
  BY <1>2, ShrinksKeeps
<1>4. CASE LoopStep
  BY <1>2, <1>3, <1>4, LoopShrinks, PutCommitChunks
<1>5. ASSUME NEW i \in Uploads, UploadRequest(i) PROVE ChunksKept' /\ PutHolds'
  BY <1>2, <1>3, <1>5, RequestShrinks, CreateChunks, PutLinkChunks DEF UploadRequest
<1>6. CASE \/ \E i \in Directs : DirectReserve(i)
           \/ \E i \in Items : FileRequest(i) \/ Expire(i) \/ Age(i)
           \/ SweepBeforeCreate \/ UNCHANGED vars
  BY <1>3, <1>6, RequestShrinks
<1>7. ASSUME NEW a \in Actors, SweepStart(a) \/ SweepStep(a) PROVE ChunksKept' /\ PutHolds'
  BY <1>3, <1>7, SweepShrinks
<1>8. ASSUME NEW t \in Threads,
             PurgeStep(t) \/ (\E u \in Users : ResetFiles(t, u) \/ DeregisterFiles(t, u))
      PROVE  ChunksKept' /\ PutHolds'
  BY <1>3, <1>8, PurgeShrinks
<1> QED
  BY <1>1, <1>4, <1>5, <1>6, <1>7, <1>8 DEF Next

-----------------------------------------------------------------------------
IInv == TypeOK /\ JobsRecall /\ Tables /\ ChunkInv

LEMMA InvInit == Init => IInv
<1> SUFFICES ASSUME Init PROVE IInv
  OBVIOUS
<1>1. TypeOK /\ JobsRecall
  BY TypeInit DEF Init, JobsRecall, Recalls, Idle
<1>2. SessionsFirst /\ RemovedOwnsNothing /\ ChunkInv
  BY ItemFacts DEF Init, SessionsFirst, RemovedOwnsNothing, ChunkInv, ChunksKept, PutHolds, Idle
<1>3. NeverOvercharged
  BY ChargedFinite DEF Init, NeverOvercharged
<1> QED
  BY <1>1, <1>2, <1>3 DEF IInv, Tables

LEMMA InvStep == IInv /\ [Next]_vars => IInv'
BY TypeStep, TablesStep, RecallStep, ChunkStep DEF IInv

THEOREM Invariance == Spec => []IInv
BY InvInit, InvStep, PTL DEF Spec

\* storage_used never exceeds what the user's reservations and files come to,
\* though releases are repeated, delayed and race with each other.
THEOREM NobodyIsOvercharged == Spec => []NeverOvercharged
BY Invariance, PTL DEF IInv, Tables

\* deregister leaves nothing of the account in the tables, whatever the loop and
\* other threads were doing with its uploads.
THEOREM RemovalIsComplete == Spec => []RemovedOwnsNothing
BY Invariance, PTL DEF IInv, Tables

\* A chunk the server has a row for stays on disk until its session ends, while
\* the process has not died.
THEOREM ChunksStay == Spec => []StoredChunkIsThere
<1>1. IInv => StoredChunkIsThere
  BY DEF IInv, ChunkInv, ChunksKept, StoredChunkIsThere, Purging
<1> QED
  BY <1>1, Invariance, PTL
=============================================================================
