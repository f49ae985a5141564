--------------------------- MODULE DatabaseCopies ---------------------------
(***************************************************************************)
(* The referee's database files: opening and upgrading a database          *)
(* (Store.__init__, competition/schema.py), online backups into folders of *)
(* their own and restores into an empty data directory                     *)
(* (competition/dbtools.py). A server, its maintenance thread and the      *)
(* command line tool do this in processes of their own, each of which may  *)
(* die between two steps; DataLock is all they share besides the files.    *)
(*                                                                         *)
(* The bytes of a database file are its schema version and what was        *)
(* committed; they stand for their SHA-256 too.                            *)
(***************************************************************************)
EXTENDS Integers, Sequences, FiniteSets

CONSTANTS
    Dirs,      \* data directories
    Restores,  \* runs of restore_backup
    None,      \* no file, no holder
    Torn,      \* a file that was not written to its end
    Damaged,   \* a file no integrity check passes
    SERVER,    \* the holder of a lock that is no restore
    MaxFolders, MaxWrites  \* bounds on the backups and the commits

ASSUME CopiesConstants ==
    /\ SERVER \notin Restores \cup {None} /\ None \notin Restores
    /\ MaxFolders \in Nat /\ MaxWrites \in Nat \ {0}

VARIABLES
    db,       \* competition.sqlite3 of each directory
    staged,   \* its restore.partial.sqlite3
    lockfile, \* its competition.lock exists
    holder,   \* who holds the lock on that file
    server,   \* "off", "opening", "backup", "migrating" or "on"
    folders,  \* the backup folders, with the step of the backup that fills each
    restore,  \* the step of each restore, its folder and what its manifest says
    writes,   \* commits so far
    past,     \* history: every state a database was committed in
    replaced, \* history: the states that upgrades started from
    spoilt    \* history: folders whose database was changed or damaged later

live == <<db, holder, lockfile, staged>>
history == <<writes, past, replaced, spoilt>>
vars == <<live, server, folders, restore, history>>

-----------------------------------------------------------------------------

Versions == 0 .. 2
Contents == [version : Versions, data : 0 .. MaxWrites]
Empty == [version |-> 0, data |-> 0]

Running == {"copy", "publish", "manifest", "writing"}
Steps == Running \cup {"done", "failed"}
Manifests == [sha : Contents \cup {Damaged}, version : Versions]
IsManifest(m) == m \notin {None, Torn}

ASSUME FileConstants ==
    /\ {None, Torn, Damaged} \cap Contents = {}
    /\ None # Damaged /\ {None, Torn} \cap Manifests = {}

NoRestore(step) == [step |-> step, dir |-> None, folder |-> 0, manifest |-> None]

(* An operator starts with an old database or with none; the upgrade of    *)
(* the old one leaves a current one.                                       *)
Init ==
    /\ \E d \in Dirs : \E first \in {None, [version |-> 1, data |-> 1]} :
          /\ db = [e \in Dirs |-> IF e = d THEN first ELSE None]
          /\ past = {first} \ {None}
    /\ holder = [d \in Dirs |-> None]
    /\ lockfile = [d \in Dirs |-> db[d] # None]
    /\ staged = [d \in Dirs |-> None]
    /\ server = [d \in Dirs |-> "off"]
    /\ folders = <<>>
    /\ restore = [r \in Restores |-> NoRestore("new")]
    /\ writes = 1 /\ replaced = {} /\ spoilt = {}

-----------------------------------------------------------------------------
(* A backup: backup_database                                               *)

NewFolder(d, by) == [dir |-> d, by |-> by, step |-> "copy", temp |-> None, info |-> 0,
                     file |-> None, manifest |-> None]

(* from a running server, from the tool, or (by = "init") before an upgrade*)
BeginBackup(d) ==
    /\ db[d] # None /\ Len(folders) < MaxFolders
    /\ folders' = Append(folders, NewFolder(d, "tool"))
    /\ UNCHANGED <<live, server, restore, history>>

(* SQLite's backup: one committed state of the source. Its version and the *)
(* rest of the manifest come from the copy, which is not changed any more. *)
Copy(f) ==
    /\ folders[f].step = "copy" /\ db[folders[f].dir].version \in {1, 2}
    /\ folders' = [folders EXCEPT ![f].temp = db[folders[f].dir], ![f].step = "publish"]
    /\ UNCHANGED <<live, server, restore, history>>

InspectedSource(f) == db[folders[f].dir].version  \* fault: looked at in the live database
Inspected(f) == folders[f].temp.version

(* The copy is inspected, synced and renamed.                              *)
Publish(f) ==
    /\ folders[f].step = "publish"
    /\ folders' = [folders EXCEPT ![f].info = Inspected(f), ![f].file = folders[f].temp,
                                  ![f].temp = None, ![f].step = "manifest"]
    /\ UNCHANGED <<live, server, restore, history>>

BeginManifest(f) ==
    /\ folders[f].step = "manifest"
    /\ folders' = [folders EXCEPT ![f].manifest = Torn, ![f].step = "writing"]
    /\ UNCHANGED <<live, server, restore, history>>

(* The backup is over, and what it knew is gone. A folder without a whole  *)
(* manifest is of no use; what else is in it is left out.                  *)
Over(folder, step) == [folder EXCEPT !.step = step, !.temp = None, !.info = 0]
Abandoned(folder) == [Over(folder, "failed") EXCEPT !.file = None, !.manifest = None]

ManifestOfPartial(f) == [sha |-> folders[f].temp, version |-> folders[f].info]  \* fault
ManifestOf(f) == [sha |-> folders[f].file, version |-> folders[f].info]

EndManifest(f) ==
    /\ folders[f].step = "writing"
    /\ folders' = [folders EXCEPT ![f] = [Over(@, "done") EXCEPT !.manifest = ManifestOf(f)]]
    /\ UNCHANGED <<live, server, restore, history>>

(* A step fails or the time is over, and the folder is removed as far as   *)
(* the file system allows (errors of that are ignored); or the process     *)
(* dies, and everything stays.                                             *)
BackupFails(f) ==
    /\ folders[f].step \in Running
    /\ \/ folders' = [folders EXCEPT ![f] = Abandoned(@)]
       \/ /\ folders[f].step = "writing"
          /\ \E file \in {None, folders[f].file} :
                folders' = [folders EXCEPT ![f] = [Over(@, "failed") EXCEPT
                              !.file = file, !.manifest = ManifestOf(f)]]
    /\ UNCHANGED <<live, server, restore, history>>

(* Somebody puts another file in its place, or the disk damages it.        *)
Spoil(f) ==
    /\ folders[f].step \notin Running /\ folders[f].file # None /\ f \notin spoilt
    /\ \E content \in past \cup {Damaged} : folders' = [folders EXCEPT ![f].file = content]
    /\ spoilt' = spoilt \cup {f}
    /\ UNCHANGED <<live, server, restore, writes, past, replaced>>

-----------------------------------------------------------------------------
(* A server: Store.__init__, initialize and migrate_to_v2                  *)

Commit(d, content) ==
    /\ db' = [db EXCEPT ![d] = content]
    /\ past' = past \cup {content}

StartServer(d) ==
    /\ server[d] = "off" /\ holder[d] = None
    /\ lockfile' = [lockfile EXCEPT ![d] = TRUE]
    /\ holder' = [holder EXCEPT ![d] = SERVER]
    /\ db' = [db EXCEPT ![d] = IF @ = None THEN Empty ELSE @]
    /\ server' = [server EXCEPT ![d] = "opening"]
    /\ UNCHANGED <<staged, folders, restore, history>>

(* The base schema and user_version = 1, in one transaction                *)
CreateBase(d) ==
    /\ server[d] = "opening" /\ db[d] = Empty
    /\ Commit(d, [version |-> 1, data |-> 0])
    /\ server' = [server EXCEPT ![d] = "migrating"]
    /\ UNCHANGED <<holder, lockfile, staged, folders, restore, writes, replaced, spoilt>>

NeedsBackupNever(content) == FALSE  \* fault: upgraded in place
NeedsBackup(content) == content.version = 1

BackupFirst(d) ==
    /\ server[d] = "opening" /\ NeedsBackup(db[d])
    /\ Len(folders) < MaxFolders
    /\ folders' = Append(folders, NewFolder(d, "init"))
    /\ server' = [server EXCEPT ![d] = "backup"]
    /\ UNCHANGED <<live, restore, history>>

Opened(d) ==
    /\ server[d] = "opening" /\ db[d] # Empty /\ ~NeedsBackup(db[d])
    /\ server' = [server EXCEPT ![d] = IF db[d].version = 1 THEN "migrating" ELSE "on"]
    /\ UNCHANGED <<live, folders, restore, history>>

OwnBackups(d) == {f \in DOMAIN folders : folders[f].dir = d /\ folders[f].by = "init"}
LastOf(set) == CHOOSE f \in set : \A g \in set : g <= f

BackupReturns(d) ==
    /\ server[d] = "backup"
    /\ folders[LastOf(OwnBackups(d))].step = "done"
    /\ server' = [server EXCEPT ![d] = "migrating"]
    /\ UNCHANGED <<live, folders, restore, history>>

Migrate(d) ==
    /\ server[d] = "migrating"
    /\ Commit(d, [db[d] EXCEPT !.version = 2])
    /\ replaced' = replaced \cup {db[d]}
    /\ server' = [server EXCEPT ![d] = "on"]
    /\ UNCHANGED <<holder, lockfile, staged, folders, restore, writes, spoilt>>

Write(d) ==
    /\ server[d] = "on" /\ writes < MaxWrites
    /\ writes' = writes + 1
    /\ Commit(d, [db[d] EXCEPT !.data = writes + 1])
    /\ UNCHANGED <<holder, lockfile, staged, server, folders, restore, replaced, spoilt>>

(* It is stopped or killed, or start-up raised: after a failed backup, on  *)
(* conflicting snapshots in the old database (rolled back), or otherwise.  *)
ServerEnds(d) ==
    /\ server[d] # "off"
    /\ server' = [server EXCEPT ![d] = "off"]
    /\ holder' = [holder EXCEPT ![d] = None]
    /\ folders' = [f \in DOMAIN folders |->
                     IF f \in OwnBackups(d) /\ folders[f].step \in Running
                     THEN Abandoned(folders[f]) ELSE folders[f]]
    /\ UNCHANGED <<db, lockfile, staged, restore, history>>

-----------------------------------------------------------------------------
(* A restore: restore_backup                                               *)

Goes(r, step) == restore' = [restore EXCEPT ![r].step = step]
Ends(r) == restore' = [restore EXCEPT ![r] = NoRestore("ended")]
Target(r) == restore[r].dir

Unused(d) == db[d] = None /\ staged[d] = None

(* The manifest is read and the directory found empty or missing.          *)
BeginRestore(r, f, d) ==
    /\ restore[r].step = "new" /\ IsManifest(folders[f].manifest)
    /\ Unused(d) /\ ~lockfile[d]
    /\ restore' = [restore EXCEPT ![r] = [step |-> "lock", dir |-> d, folder |-> f,
                                          manifest |-> folders[f].manifest]]
    /\ UNCHANGED <<live, server, folders, history>>

StillUnusedBefore(r) == TRUE  \* fault: the look before the lock was enough
StillUnused(r) == Unused(Target(r))

(* The lock is taken, or found taken; then a second look, under the lock.  *)
LockTarget(r) ==
    /\ restore[r].step = "lock"
    /\ lockfile' = [lockfile EXCEPT ![Target(r)] = TRUE]
    /\ IF holder[Target(r)] = None
       THEN /\ holder' = [holder EXCEPT ![Target(r)] = r]
            /\ Goes(r, IF StillUnused(r) THEN "copy" ELSE "finish")
       ELSE UNCHANGED holder /\ Ends(r)
    /\ UNCHANGED <<db, staged, server, folders, history>>

(* The file is copied, or the copying fails or is cut off.                 *)
CopyBack(r) ==
    /\ restore[r].step = "copy"
    /\ \/ /\ folders[restore[r].folder].file # None
          /\ staged' = [staged EXCEPT ![Target(r)] = folders[restore[r].folder].file]
          /\ Goes(r, "verify")
       \/ staged' = [staged EXCEPT ![Target(r)] = Torn] /\ Goes(r, "finish")
       \/ UNCHANGED staged /\ Goes(r, "finish")
    /\ UNCHANGED <<db, holder, lockfile, server, folders, history>>

VerifiedByVersion(content, m) ==  \* fault: the hash not compared
    content # Damaged /\ content.version = m.version
Verified(content, m) ==
    content = m.sha /\ content # Damaged /\ content.version = m.version

(* The hash and the inspection of the staged copy, then its renaming;      *)
(* nobody else touches it meanwhile.                                       *)
PublishCopy(r) ==
    /\ restore[r].step = "verify"
    /\ IF Verified(staged[Target(r)], restore[r].manifest)
       THEN /\ db' = [db EXCEPT ![Target(r)] = staged[Target(r)]]
            /\ staged' = [staged EXCEPT ![Target(r)] = None]
       ELSE UNCHANGED <<db, staged>>
    /\ Goes(r, "finish")
    /\ UNCHANGED <<holder, lockfile, server, folders, history>>

(* The finally part, which runs for the holder of the lock only            *)
Finish(r) ==
    /\ restore[r].step = "finish"
    /\ staged' = [staged EXCEPT ![Target(r)] = None]
    /\ holder' = [holder EXCEPT ![Target(r)] = None]
    /\ Ends(r)
    /\ UNCHANGED <<db, lockfile, server, folders, history>>

RestoreDies(r) ==
    /\ restore[r].step \notin {"new", "ended"}
    /\ holder' = [d \in Dirs |-> IF holder[d] = r THEN None ELSE holder[d]]
    /\ Ends(r)
    /\ UNCHANGED <<db, lockfile, staged, server, folders, history>>

-----------------------------------------------------------------------------

Backup(f) ==
    \/ Copy(f) \/ Publish(f) \/ BeginManifest(f) \/ EndManifest(f)
    \/ BackupFails(f) \/ Spoil(f)

Server(d) ==
    \/ StartServer(d) \/ CreateBase(d) \/ BackupFirst(d) \/ Opened(d) \/ BackupReturns(d)
    \/ Migrate(d) \/ Write(d) \/ ServerEnds(d) \/ BeginBackup(d)

Restore(r) ==
    \/ \E f \in DOMAIN folders, d \in Dirs : BeginRestore(r, f, d)
    \/ LockTarget(r) \/ CopyBack(r) \/ PublishCopy(r)
    \/ Finish(r) \/ RestoreDies(r)

Next ==
    \/ \E f \in DOMAIN folders : Backup(f)
    \/ \E d \in Dirs : Server(d)
    \/ \E r \in Restores : Restore(r)

Spec == Init /\ [][Next]_vars

-----------------------------------------------------------------------------

TypeOK ==
    /\ db \in [Dirs -> Contents \cup {None}]
    /\ staged \in [Dirs -> Contents \cup {None, Torn, Damaged}]
    /\ lockfile \in [Dirs -> BOOLEAN]
    /\ holder \in [Dirs -> Restores \cup {None, SERVER}]
    /\ server \in [Dirs -> {"off", "opening", "backup", "migrating", "on"}]
    /\ folders \in Seq([dir : Dirs, by : {"tool", "init"}, step : Steps, info : Versions,
                        temp : Contents \cup {None}, file : Contents \cup {None, Damaged},
                        manifest : Manifests \cup {None, Torn}])
    /\ restore \in [Restores -> [step : {"new", "lock", "copy", "verify", "finish", "ended"},
                                 dir : Dirs \cup {None}, folder : 0 .. MaxFolders,
                                 manifest : Manifests \cup {None}]]
    /\ past \subseteq Contents /\ replaced \subseteq Contents /\ spoilt \subseteq 1 .. MaxFolders

(* "never overwrite live evidence" (dbtools.py:166): a database that is in *)
(* its place is only changed by the server that holds the directory's lock,*)
(* whatever restores were begun while the directory was still empty.       *)
NeverReplaced ==
    [][\A d \in Dirs : db[d] # None /\ db'[d] # db[d] => holder[d] = SERVER /\ server[d] # "off"]_vars

(* A restore publishes the very bytes its manifest was written for, a      *)
(* state that some database was really committed in, although the folder's *)
(* file may be damaged or exchanged while the restore runs.                *)
RestoresTheOriginal ==
    [][\A r \in Restores, d \in Dirs : holder[d] = r /\ db'[d] # db[d] =>
          db'[d] = restore[r].manifest.sha /\ db'[d] \in past]_vars

(* "A completed folder has a checked single DB and a SHA-256 manifest"     *)
(* (dbtools.py:114): a folder with a whole manifest and a database holds a *)
(* committed state of the version the manifest names, even if the source   *)
(* was written or upgraded during the backup, or the process died.         *)
CompleteIsTrue ==
    \A f \in DOMAIN folders \ spoilt :
        LET folder == folders[f] IN
        IsManifest(folder.manifest) /\ folder.file # None =>
            /\ folder.file = folder.manifest.sha /\ folder.file \in past
            /\ folder.file.version = folder.manifest.version

(* No old database is upgraded without a complete backup of it, not even   *)
(* when earlier attempts died or failed half way. A database that the same *)
(* start-up has just created holds no records yet.                         *)
UpgradeKeepsOriginal ==
    \A content \in replaced :
        \/ content.data = 0
        \/ \E f \in DOMAIN folders : folders[f].by = "init" /\ folders[f].step = "done"
                                     /\ (f \in spoilt \/ folders[f].file = content)

=============================================================================
