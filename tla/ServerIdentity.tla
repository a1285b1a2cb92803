---------------------------- MODULE ServerIdentity ----------------------------
(***************************************************************************)
(* The server's Ed25519 identity: the key file, the processes that load it *)
(* when they are imported, and its rotation.  The launcher starts two      *)
(* processes, one for the users and one for the operator; each keeps the   *)
(* key in its own globals, and they share only the files and the database. *)
(* A request to rotate runs in a worker thread, so two of them, in one     *)
(* process or in two, interleave at every write; nothing locks them.       *)
(*                                                                         *)
(* By default IDENTITY_KEY_FILE and SIGNING_KEY_FILE name one file, and so *)
(* they do here.  A key is a number, in the order of generation.           *)
(***************************************************************************)
EXTENDS Naturals, Sequences, FiniteSets

CONSTANTS
  Procs,      \* server processes
  Rotations,  \* requests to rotate, each made at most once
  MaxKeys,    \* bound: keys generated
  Issued,     \* the signing key that the central service hands out
  None,
  Torn        \* a file that was truncated and not written yet

Keys == 1 .. MaxKeys
AnyKey == Keys \cup {Issued}

ASSUME KeyAssumption ==
  MaxKeys \in Nat /\ {Issued, None, Torn} \cap Keys = {} /\ Issued \notin {None, Torn}
ASSUME PresentAssumption == None # Torn /\ None \notin Procs

VARIABLES
  boot,      \* "off", "booting", "looked" (no readable key), "writing" or "up"
  made,      \* the key a starting process has generated
  priv,      \* _private_key of a process
  pub,       \* _server_public_key: the identity a process shows
  identity,  \* the key file
  tmp,       \* the key file's ".tmp"
  old,       \* OLD_SIGNING_KEY_FILE
  rot,       \* the requests to rotate
  chain,     \* identity_key_rotation_announcements, oldest first
  grace,     \* grace period of the last announcement: "none", "open", "over"
  minted,    \* keys generated so far
  behind,    \* history: processes whose key file was changed by someone else
  written,   \* history: keys that have been in the key file
  upset      \* history: what went against an orderly rotation

memory == <<boot, made, priv, pub>>
disk == <<identity, tmp, old>>
db == <<chain, grace>>
history == <<behind, written, upset>>
vars == <<memory, disk, rot, db, minted, history>>

\* recreated: a second first key; replaced: by hand; issued: by the central
\* service; forked: two rotations at once or from an old key; unannounced: the
\* key file has a key that no row announces; torn: so is the old key's file; swept: a
\* process that starts removed the file that a rotation had just saved
Upsets == {"recreated", "replaced", "issued", "forked", "unannounced", "torn", "swept"}

NoRotation == [pc |-> "new", at |-> None, from |-> None, shown |-> None, new |-> None]

\* A rotation is running from the read of the globals to their assignment.
Steps == {"save", "tmp", "replace", "announce", "switch", "show"}
Running == {r \in Rotations : rot[r].pc \in Steps}

\* The file can be parsed.
HasKey(file) == file \in AnyKey

Ups == {p \in Procs : boot[p] = "up"}

\* What the key file's new content k, put there by the processes ps, makes of
\* the history.
Recorded(k, ps) ==
  /\ written' = written \cup {k}
  /\ behind' = behind \cup (Ups \ ps)

\* The requests rs to rotate will be made; keys more keys can be generated.
InitWith(rs, keys) ==
  /\ boot = [p \in Procs |-> "off"]
  /\ made = [p \in Procs |-> None]
  /\ priv = [p \in Procs |-> None] /\ pub = [p \in Procs |-> None]
  /\ identity = None /\ tmp = None /\ old = None
  /\ rot = [r \in Rotations |-> [NoRotation EXCEPT !.pc = IF r \in rs THEN "new" ELSE "failed"]]
  /\ chain = <<>> /\ grace = "none"
  /\ minted = MaxKeys - keys /\ behind = {} /\ written = {} /\ upset = {}

Init == InitWith(Rotations, MaxKeys)

-----------------------------------------------------------------------------
(* Processes *)

\* BackendProcessController.start refuses while either process is running.
Launch ==
  /\ \A p \in Procs : boot[p] = "off"
  /\ boot' = [p \in Procs |-> "booting"]
  /\ UNCHANGED <<made, priv, pub, disk, rot, db, minted, history>>

\* The processes ps are gone, stopped or dead, and their threads with them.  A
\* rotation that has replaced the key file has not announced it; one that was
\* copying the old key may have truncated the copy.
Down(ps) ==
  /\ boot' = [p \in Procs |-> IF p \in ps THEN "off" ELSE boot[p]]
  /\ made' = [p \in Procs |-> IF p \in ps THEN None ELSE made[p]]
  /\ priv' = [p \in Procs |-> IF p \in ps THEN None ELSE priv[p]]
  /\ pub' = [p \in Procs |-> IF p \in ps THEN None ELSE pub[p]]
  /\ LET cut == {r \in Running : rot[r].at \in ps}
     IN
     /\ rot' = [r \in Rotations |-> IF r \in cut THEN [rot[r] EXCEPT !.pc = "failed"] ELSE rot[r]]
     /\ old' \in IF \E r \in cut : rot[r].pc = "save" THEN {old, Torn} ELSE {old}
     /\ upset' = upset \cup (IF \E r \in cut : rot[r].pc = "announce" THEN {"unannounced"} ELSE {})
                        \cup (IF old' = Torn THEN {"torn"} ELSE {})
  /\ behind' = behind \ ps
  /\ UNCHANGED <<identity, tmp, db, minted, written>>

\* The launcher stops both; one may also die alone.
Stop == (\E p \in Procs : boot[p] # "off") /\ Down(Procs)
Crash(p) == boot[p] # "off" /\ Down({p})

\* mutant: any row will do
AnyRow == chain # <<>>

\* The grace period of the last announcement is over.
StaleOld == grace = "over"

\* The rest of the import: _load_grace_period_state.  The stale file of the
\* old key is removed.
Started(p, k, before) ==
  /\ boot' = [boot EXCEPT ![p] = "up"]
  /\ priv' = [priv EXCEPT ![p] = k]
  /\ pub' = [pub EXCEPT ![p] = k]
  /\ old' = IF StaleOld THEN None ELSE old
  /\ upset' = IF StaleOld /\ Running # {} THEN before \cup {"swept"} ELSE before

\* _load_or_create_identity_key: the file is there and readable ...
BootLoads(p) ==
  /\ boot[p] = "booting"
  /\ HasKey(identity)
  /\ Started(p, identity, upset)
  /\ UNCHANGED <<made, identity, tmp, rot, db, minted, behind, written>>

\* ... or it is missing or cannot be parsed: a new key,
BootMisses(p) ==
  /\ boot[p] = "booting"
  /\ ~ HasKey(identity)
  /\ minted < MaxKeys
  /\ minted' = minted + 1
  /\ made' = [made EXCEPT ![p] = minted + 1]
  /\ boot' = [boot EXCEPT ![p] = "looked"]
  /\ UNCHANGED <<priv, pub, disk, rot, db, history>>

FirstKeyAgain == IF written = {} THEN upset ELSE upset \cup {"recreated"}

\* which open(path, "wb") has truncated the file for
BootTruncates(p) ==
  /\ boot[p] = "looked"
  /\ identity' = Torn
  /\ boot' = [boot EXCEPT ![p] = "writing"]
  /\ upset' = FirstKeyAgain /\ behind' = behind \cup Ups
  /\ UNCHANGED <<made, priv, pub, tmp, old, rot, db, minted, written>>

\* and that is then written and used, whatever else is in the file by now.
BootWrites(p) ==
  /\ boot[p] = "writing"
  /\ identity' = made[p]
  /\ Recorded(made[p], {p})
  /\ made' = [made EXCEPT ![p] = None]
  /\ Started(p, made[p], FirstKeyAgain)
  /\ UNCHANGED <<tmp, rot, db, minted>>

\* generate_identity_keypair.py: creates the key file, with --force replaces it.
Generate ==
  /\ minted < MaxKeys
  /\ minted' = minted + 1
  /\ identity' = minted + 1
  /\ Recorded(minted + 1, {})
  /\ upset' = IF written = {} THEN upset ELSE upset \cup {"replaced"}
  /\ UNCHANGED <<memory, tmp, old, rot, db>>

-----------------------------------------------------------------------------
(* _perform_identity_key_rotation *)

\* The globals are read and a key is generated.  A process that has missed
\* a change of the key file, or a second request, starts a branch.
RotationBegins(r, p) ==
  /\ rot[r].pc = "new" /\ boot[p] = "up"
  /\ minted < MaxKeys
  /\ minted' = minted + 1
  /\ rot' = [rot EXCEPT ![r] = [pc |-> "save", at |-> p, from |-> priv[p],
                                shown |-> pub[p], new |-> minted + 1]]
  /\ upset' = IF Running # {} \/ p \in behind THEN upset \cup {"forked"} ELSE upset
  /\ UNCHANGED <<memory, disk, db, behind, written>>

Goes(r, pc) == rot' = [rot EXCEPT ![r].pc = pc]

\* "Persist old key first"
SavesOld(r) ==
  /\ rot[r].pc = "save"
  /\ old' = rot[r].from
  /\ Goes(r, "tmp")
  /\ UNCHANGED <<memory, identity, tmp, db, minted, history>>

\* mutant: _persist_rotated_identity_key opens the key file itself
InPlace(r) == identity' = Torn /\ tmp' = rot[r].new

\* _persist_rotated_identity_key: the new key goes to a file beside
Beside(r) == tmp' = rot[r].new /\ UNCHANGED identity

WritesTmp(r) ==
  /\ rot[r].pc = "tmp"
  /\ Beside(r)
  /\ Goes(r, "replace")
  /\ UNCHANGED <<memory, old, db, minted, history>>

Moved(r) == identity' = tmp /\ tmp' = None /\ Recorded(tmp, {rot[r].at})

\* os.replace: it moves whatever the ".tmp" file holds, and raises if another
\* writer has moved it already.
Replaces(r) ==
  /\ rot[r].pc = "replace"
  /\ IF tmp = None
       THEN Goes(r, "failed") /\ UNCHANGED <<identity, tmp, behind, written>>
       ELSE Moved(r) /\ Goes(r, "announce")
  /\ UNCHANGED <<memory, old, db, minted, upset>>

\* the announcement, signed by the key that goes
Announcement(r) == [old |-> rot[r].shown, new |-> rot[r].new, by |-> rot[r].from]

\* The row is inserted and committed, or the database is locked: the request
\* fails with the new key in the file and the old one in memory.
Announces(r) ==
  /\ rot[r].pc = "announce"
  /\ \/ /\ chain' = Append(chain, Announcement(r))
        /\ grace' = "open"
        /\ Goes(r, "switch")
        /\ UNCHANGED upset
     \/ /\ Goes(r, "failed")
        /\ upset' = upset \cup {"unannounced"}
        /\ UNCHANGED db
  /\ UNCHANGED <<memory, disk, minted, behind, written>>

\* _private_key = new_priv
Signs(r) == [priv EXCEPT ![rot[r].at] = rot[r].new]

\* The globals are assigned one after the other.
Switches(r) ==
  /\ rot[r].pc = "switch"
  /\ priv' = Signs(r)
  /\ Goes(r, "show")
  /\ UNCHANGED <<boot, made, pub, disk, db, minted, history>>

\* mutant: only the key that signs is updated
KeepsShowing(r) == pub

\* _server_public_key = new_pub
Shown(r) == [pub EXCEPT ![rot[r].at] = rot[r].new]

Shows(r) ==
  /\ rot[r].pc = "show"
  /\ pub' = Shown(r)
  /\ Goes(r, "done")
  /\ UNCHANGED <<boot, made, priv, disk, db, minted, history>>

Rotate(r) ==
  \/ SavesOld(r) \/ WritesTmp(r) \/ Replaces(r) \/ Announces(r)
  \/ Switches(r) \/ Shows(r)

\* Time passes.
GraceEnds ==
  /\ grace = "open"
  /\ grace' = "over"
  /\ UNCHANGED <<memory, disk, rot, chain, minted, history>>

-----------------------------------------------------------------------------
(* _write_server_signing_key_pem, in a process that obtains a licence *)

FromOutside == upset \cup {"issued"} \cup (IF Running # {} THEN {"forked"} ELSE {})

\* The central service's key goes to the same ".tmp" ...
PemWrites(p) ==
  /\ boot[p] = "up"
  /\ tmp' = Issued
  /\ upset' = FromOutside
  /\ UNCHANGED <<memory, identity, old, rot, db, minted, behind, written>>

\* mutant: the globals stay
Uninstalled(p) == UNCHANGED <<priv, pub>>

\* _refresh_legacy_signing_key_from_disk
Installed(p) == priv' = [priv EXCEPT ![p] = tmp] /\ pub' = [pub EXCEPT ![p] = tmp]

\* ... and replaces the key file; the globals are then read from that file.
PemInstalls(p) ==
  /\ boot[p] = "up" /\ tmp # None
  /\ identity' = tmp /\ tmp' = None
  /\ Recorded(tmp, {p})
  /\ Installed(p)
  /\ upset' = FromOutside
  /\ UNCHANGED <<boot, made, old, rot, db, minted>>

Boots(p) == BootLoads(p) \/ BootMisses(p) \/ BootTruncates(p) \/ BootWrites(p)

\* everything but the coming and going of processes and the licence
Works ==
  \/ Generate \/ GraceEnds
  \/ \E p \in Procs : Boots(p)
  \/ \E r \in Rotations : Rotate(r) \/ \E p \in Procs : RotationBegins(r, p)

Next ==
  \/ Works \/ Launch \/ Stop
  \/ \E p \in Procs : Crash(p) \/ PemWrites(p) \/ PemInstalls(p)

Spec == Init /\ [][Next]_vars

-----------------------------------------------------------------------------
(* Properties *)

Files == AnyKey \cup {None, Torn}

TypeOK ==
  /\ boot \in [Procs -> {"off", "booting", "looked", "writing", "up"}]
  /\ made \in [Procs -> Keys \cup {None}]
  /\ priv \in [Procs -> AnyKey \cup {None}] /\ pub \in [Procs -> AnyKey \cup {None}]
  /\ \A p \in Ups : priv[p] \in AnyKey /\ pub[p] \in AnyKey
  /\ identity \in Files /\ tmp \in AnyKey \cup {None} /\ old \in Files
  /\ rot \in [Rotations -> [pc : Steps \cup {"new", "done", "failed"}, at : Procs \cup {None},
                             from : AnyKey \cup {None}, shown : AnyKey \cup {None},
                             new : Keys \cup {None}]]
  /\ chain \in Seq([old : AnyKey, new : Keys, by : AnyKey])
  /\ grace \in {"none", "open", "over"}
  /\ minted \in 0 .. MaxKeys
  /\ behind \subseteq Procs /\ written \subseteq AnyKey /\ upset \subseteq Upsets

\* Replacing the key never exposes a process that starts, or a crash, to half a
\* file: only a process that found no key writes into the file itself.
KeyFileStaysWhole ==
  [][HasKey(identity) /\ (\A p \in Procs : boot[p] # "looked") => HasKey(identity')]_vars

\* A client can follow the announcements: no key is announced that was never in
\* the key file, which a restart would then not have, each announcement is signed
\* by the key it retires, and each retires the key the one before has introduced;
\* but for two writers of the ".tmp", and what else is in upset.
AnnouncedWasStored ==
  \A i \in DOMAIN chain :
    chain[i].new \in written \/ upset \cap {"forked", "issued"} # {}

AnnouncementVerifies ==
  \A i \in DOMAIN chain : chain[i].by = chain[i].old \/ upset \cap {"forked", "issued"} # {}

ChainHolds ==
  upset = {} => \A i \in DOMAIN chain : i > 1 => chain[i].old = chain[i - 1].new

\* The announcements hold together for a client that follows them, as far as two
\* rotations did not run into each other.
AnnouncementsHold == AnnouncedWasStored /\ AnnouncementVerifies /\ ChainHolds

Replaced == {r \in Running : rot[r].pc \notin {"save", "tmp", "replace"}}

\* The key file holds the key announced last, across crashes and restarts.
FileIsAnnounced ==
  upset = {} /\ chain # <<>> /\ Replaced = {} => identity = chain[Len(chain)].new

\* A process nobody has overtaken signs with, and shows, the key that a restart
\* would load.
ServesKeyFile ==
  \A p \in Ups \ behind :
    (\A r \in Replaced : rot[r].at # p) =>
      \/ priv[p] = identity /\ pub[p] = identity
      \/ upset # {}

\* what GET /identity/rotation answers while it does not answer 404
ActiveAnnouncement == IF grace = "open" THEN chain[Len(chain)] ELSE NoRotation

\* As long as an announcement's grace period runs the key it retires can still be
\* loaded, unless a later rotation has saved the present key over it, which it does
\* before it is sure to take place.
OldKeyIsKept ==
  grace = "open" /\ upset = {} =>
    LET last == ActiveAnnouncement
    IN  \/ old = last.old
        \/ old = last.new /\ \E r \in Rotations : rot[r].from = last.new

\* The key file, the announcements, the globals of the processes and the file of
\* the retired key agree with each other, across rotations, crashes and restarts.
KeysAgree == FileIsAnnounced /\ ServesKeyFile /\ OldKeyIsKept
=============================================================================
