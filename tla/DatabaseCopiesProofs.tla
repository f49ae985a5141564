------------------------ MODULE DatabaseCopiesProofs ------------------------
(***************************************************************************)
(* Safety of DatabaseCopies for any number of directories, restores,       *)
(* backups and commits: a restore overwrites nothing and publishes what    *)
(* its manifest was written for, a folder that looks complete is true, and *)
(* no upgrade starts without a copy of what it changes.                    *)
(***************************************************************************)
EXTENDS DatabaseCopies, TLAPS

Folder == [dir : Dirs, by : {"tool", "init"}, step : Steps, info : Versions,
           temp : Contents \cup {None}, file : Contents \cup {None, Damaged},
           manifest : Manifests \cup {None, Torn}]
Folders == DOMAIN folders

Types ==
    /\ TypeOK
    /\ Len(folders) <= MaxFolders /\ writes \in 0 .. MaxWrites
    /\ spoilt \subseteq Folders

Holding == {"copy", "verify", "finish"}

(* Who holds a directory: the server that runs on it, or the one restore   *)
(* that works in it, and then there is no database before it is published. *)
Holders ==
    /\ \A r \in Restores : restore[r].step \in Holding =>
          restore[r].dir \in Dirs /\ holder[restore[r].dir] = r
    /\ \A r \in Restores : restore[r].step = "lock" => restore[r].dir \in Dirs
    /\ \A r \in Restores : restore[r].step \in {"copy", "verify"} => db[restore[r].dir] = None
    /\ \A d \in Dirs : holder[d] \in Restores =>
          restore[holder[d]].dir = d /\ restore[holder[d]].step \in Holding
    /\ \A d \in Dirs : server[d] # "off" => holder[d] = SERVER /\ db[d] # None

(* A database holds what was committed, or nothing yet.                    *)
Committed == \A d \in Dirs : db[d] \in past \cup {None, Empty}

(* The copy of a backup that runs is what it was made from; a finished one *)
(* fits its manifest until somebody changes the file.                      *)
FoldersTrue ==
    \A f \in Folders :
        /\ db[folders[f].dir] # None
        /\ folders[f].step \in Running =>
              f \notin spoilt /\ ~ IsManifest(folders[f].manifest)
        /\ folders[f].step = "publish" => folders[f].temp \in past
        /\ folders[f].step \in {"manifest", "writing"} =>
              folders[f].file \in past /\ folders[f].info = folders[f].file.version
        /\ IsManifest(folders[f].manifest) =>
              /\ folders[f].manifest.sha \in past
              /\ folders[f].manifest.version = folders[f].manifest.sha.version
              /\ f \in spoilt \/ folders[f].file \in {None, folders[f].manifest.sha}

RestoresKnow ==
    \A r \in Restores : restore[r].step \notin {"new", "ended"} =>
        restore[r].manifest.sha \in past /\ restore[r].folder \in Folders

(* The backup before an upgrade, as far as it has come                     *)
CopyOf(f, content) ==
    /\ folders[f].by = "init"
    /\ folders[f].step = "publish" => folders[f].temp = content
    /\ folders[f].step \in {"manifest", "writing"} => folders[f].file = content
    /\ folders[f].step = "done" => f \in spoilt \/ folders[f].file = content

Kept(content) ==
    \/ content.data = 0
    \/ \E f \in Folders : folders[f].step = "done" /\ CopyOf(f, content)

UpgradesKeep ==
    /\ \A content \in replaced : Kept(content)
    /\ \A d \in Dirs : server[d] = "migrating" => Kept(db[d])
    /\ \A d \in Dirs : server[d] = "backup" =>
          \E f \in OwnBackups(d) : (\A g \in OwnBackups(d) : g <= f) /\ CopyOf(f, db[d])

-----------------------------------------------------------------------------
(* Types                                                                   *)

(* One folder is replaced by another.                                      *)
LEMMA FolderSet ==
    ASSUME NEW f \in Folders, folders \in Seq(Folder), NEW new \in Folder
    PROVE  /\ [folders EXCEPT ![f] = new] \in Seq(Folder)
           /\ DOMAIN [folders EXCEPT ![f] = new] = Folders
           /\ Len([folders EXCEPT ![f] = new]) = Len(folders)
  BY DEF Folders

(* What one step does to the folders: nothing, one more, one changed, or   *)
(* those a server leaves behind are given up                               *)
LEMMA FolderAdded ==
    ASSUME folders \in Seq(Folder), NEW new \in Folder
    PROVE  /\ Append(folders, new) \in Seq(Folder)
           /\ DOMAIN Append(folders, new) = Folders \cup {Len(folders) + 1}
           /\ Len(folders) + 1 \notin Folders /\ Len(Append(folders, new)) = Len(folders) + 1
           /\ Append(folders, new)[Len(folders) + 1] = new
           /\ \A f \in Folders : Append(folders, new)[f] = folders[f]
  BY DEF Folders

(* What the types say of the list of folders                               *)
LEMMA TypeFacts ==
    ASSUME Types
    PROVE  /\ folders \in Seq(Folder) /\ Len(folders) \in Nat /\ Folders = 1 .. Len(folders)
           /\ \A f \in Folders : folders[f] \in Folder
<1>1. folders \in Seq(Folder)
  BY DEF Types, TypeOK, Folder
<1> QED BY <1>1 DEF Folders

(* A step of one backup changes its folder only.                           *)
Changes(f, new) ==
    /\ new \in Folder /\ folders' = [folders EXCEPT ![f] = new]
    /\ new.dir = folders[f].dir /\ new.by = folders[f].by

(* All others stay as they were.                                           *)
LEMMA FolderChanged ==
    ASSUME Types, NEW f \in Folders, NEW new, Changes(f, new)
    PROVE  /\ folders' \in Seq(Folder) /\ DOMAIN folders' = Folders /\ Len(folders') = Len(folders)
           /\ folders'[f] = new /\ \A g \in Folders \ {f} : folders'[g] = folders[g]
  BY TypeFacts, FolderSet DEF Changes, Folders

(* A folder whose backup is over keeps its file.                           *)
LEMMA FolderOver ==
    ASSUME NEW old \in Folder, NEW step \in {"done", "failed"}
    PROVE  /\ Over(old, step) \in Folder
           /\ Over(old, step).dir = old.dir /\ Over(old, step).by = old.by
           /\ Over(old, step).step = step /\ Over(old, step).file = old.file
<1>1. 0 \in Versions
  BY DEF Versions
<1> QED BY <1>1 DEF Over, Folder, Steps

(* What each step of a backup makes of its folder                          *)
BackupStep(f, new) ==
    /\ Changes(f, new)
    /\ \/ /\ folders[f].step = "copy" /\ new.step = "publish" /\ spoilt' = spoilt
          /\ new.temp = db[folders[f].dir] /\ new.temp \in past
          /\ new.manifest = folders[f].manifest
       \/ /\ folders[f].step = "publish" /\ new.step = "manifest" /\ spoilt' = spoilt
          /\ new.file = folders[f].temp /\ new.info = folders[f].temp.version
          /\ new.manifest = folders[f].manifest
       \/ /\ folders[f].step = "manifest" /\ new.step = "writing" /\ spoilt' = spoilt
          /\ new.file = folders[f].file /\ new.info = folders[f].info
          /\ new.manifest = Torn
       \/ /\ folders[f].step = "writing" /\ new.step = "done" /\ spoilt' = spoilt
          /\ new.file = folders[f].file
          /\ new.manifest = [sha |-> folders[f].file, version |-> folders[f].info]
       \/ /\ folders[f].step \in Running /\ new.step = "failed" /\ spoilt' = spoilt
          /\ new.manifest = None
       \/ /\ folders[f].step = "writing" /\ new.step = "failed" /\ spoilt' = spoilt
          /\ new.file \in {None, folders[f].file}
          /\ new.manifest = [sha |-> folders[f].file, version |-> folders[f].info]
       \/ /\ folders[f].step \notin Running /\ new.step = folders[f].step
          /\ spoilt' = spoilt \cup {f}
          /\ new.manifest = folders[f].manifest

(* No step of a backup does anything else.                                 *)
LEMMA BackupSteps ==
    ASSUME Types, FoldersTrue, Holders, Committed, NEW f \in Folders, Backup(f)
    PROVE  \E new : BackupStep(f, new)
<1>0. folders[f] \in Folder /\ folders[f].dir \in Dirs /\ past \subseteq Contents
  BY TypeFacts DEF Folder, Types, TypeOK
<1> DEFINE old == folders[f]
<1> USE CopiesConstants, FileConstants
<1>1. CASE Copy(f)
  <2> DEFINE new == [old EXCEPT !.temp = db[old.dir], !.step = "publish"]
  <2>1. folders' = [folders EXCEPT ![f] = new]
    BY <1>1 DEF Copy
  <2>2. db[old.dir] \in past /\ db[old.dir] \in Contents /\ old.step = "copy"
    BY <1>0, <1>1 DEF Copy, FoldersTrue, Committed, Empty
  <2>3. /\ new \in Folder /\ new.dir = old.dir /\ new.by = old.by /\ new.step = "publish"
        /\ new.temp = db[old.dir] /\ new.manifest = old.manifest
    BY <1>0, <2>2 DEF Folder, Steps, Running
  <2>4. spoilt' = spoilt
    BY <1>1 DEF Copy, history
  <2> HIDE DEF new
  <2> QED BY <2>1, <2>2, <2>3, <2>4 DEF BackupStep, Changes
<1>2. CASE Publish(f)
  <2> DEFINE new == [old EXCEPT !.info = old.temp.version, !.file = old.temp, !.temp = None, !.step = "manifest"]
  <2>1. folders' = [folders EXCEPT ![f] = new] /\ old.step = "publish" /\ spoilt' = spoilt
    BY <1>2 DEF Publish, Inspected, history
  <2>2. old.temp \in Contents
    BY <1>0, <2>1 DEF FoldersTrue
  <2>3. old.temp.version \in Versions
    BY <2>2 DEF Contents
  <2>4. /\ new \in Folder /\ new.dir = old.dir /\ new.by = old.by /\ new.step = "manifest"
        /\ new.file = old.temp /\ new.info = old.temp.version /\ new.manifest = old.manifest
    BY <1>0, <2>2, <2>3 DEF Folder, Steps, Running
  <2> HIDE DEF new
  <2> QED BY <2>1, <2>4 DEF BackupStep, Changes
<1>3. CASE BeginManifest(f)
  <2> DEFINE new == [old EXCEPT !.manifest = Torn, !.step = "writing"]
  <2>1. folders' = [folders EXCEPT ![f] = new] /\ old.step = "manifest" /\ spoilt' = spoilt
    BY <1>3 DEF BeginManifest, history
  <2>2. /\ new \in Folder /\ new.dir = old.dir /\ new.by = old.by /\ new.step = "writing"
        /\ new.file = old.file /\ new.info = old.info /\ new.manifest = Torn
    BY <1>0 DEF Folder, Steps, Running
  <2> HIDE DEF new
  <2> QED BY <2>1, <2>2 DEF BackupStep, Changes
<1>4. ASSUME folders[f].step = "writing"
      PROVE  /\ old.file \in Contents /\ ManifestOf(f) \in Manifests
             /\ ManifestOf(f) = [sha |-> old.file, version |-> old.info]
  <2>1. old.file \in Contents /\ old.info \in Versions
    BY <1>0, <1>4 DEF FoldersTrue, Folder
  <2> QED BY <2>1 DEF ManifestOf, Manifests
<1>5. CASE EndManifest(f)
  <2> DEFINE new == [Over(old, "done") EXCEPT !.manifest = ManifestOf(f)]
  <2>1. folders' = [folders EXCEPT ![f] = new] /\ old.step = "writing" /\ spoilt' = spoilt
    BY <1>5 DEF EndManifest, history
  <2>2. /\ new \in Folder /\ new.dir = old.dir /\ new.by = old.by /\ new.step = "done"
        /\ new.file = old.file /\ new.manifest = ManifestOf(f)
    <3> DEFINE over == Over(old, "done")
    <3>1. /\ over \in Folder /\ over.dir = old.dir /\ over.by = old.by
          /\ over.step = "done" /\ over.file = old.file
      BY <1>0, FolderOver
    <3>2. new = [over EXCEPT !.manifest = ManifestOf(f)]
      OBVIOUS
    <3> HIDE DEF over, new
    <3> QED BY <1>4, <2>1, <3>1, <3>2 DEF Folder
  <2> HIDE DEF new
  <2> QED BY <1>4, <2>1, <2>2 DEF BackupStep, Changes
<1>6. CASE BackupFails(f)
  <2>1. old.step \in Running /\ spoilt' = spoilt
    BY <1>6 DEF BackupFails, history
  <2>2. CASE folders' = [folders EXCEPT ![f] = Abandoned(@)]
    <3> DEFINE new == Abandoned(old)
    <3>1. /\ new \in Folder /\ new.dir = old.dir /\ new.by = old.by /\ new.step = "failed"
          /\ new.manifest = None
      <4> DEFINE over == Over(old, "failed")
      <4>1. /\ over \in Folder /\ over.dir = old.dir /\ over.by = old.by
            /\ over.step = "failed" /\ over.file = old.file
        BY <1>0, FolderOver
      <4>2. new = [over EXCEPT !.file = None, !.manifest = None]
        BY DEF Abandoned
      <4> HIDE DEF over, new
      <4> QED BY <4>1, <4>2 DEF Folder
    <3>2. folders' = [folders EXCEPT ![f] = new]
      BY <2>2
    <3> HIDE DEF new
    <3> QED BY <2>1, <3>1, <3>2 DEF BackupStep, Changes
  <2>3. ASSUME old.step = "writing", NEW file \in {None, old.file},
               folders' = [folders EXCEPT ![f] = [Over(@, "failed") EXCEPT
                             !.file = file, !.manifest = ManifestOf(f)]]
        PROVE  \E new : /\ Changes(f, new) /\ new.step = "failed" /\ new.file \in {None, old.file}
                        /\ new.manifest = [sha |-> old.file, version |-> old.info]
    <3> DEFINE new == [Over(old, "failed") EXCEPT !.file = file, !.manifest = ManifestOf(f)]
    <3>1. /\ new \in Folder /\ new.dir = old.dir /\ new.by = old.by /\ new.step = "failed"
          /\ new.file = file /\ new.manifest = ManifestOf(f)
      <4> DEFINE over == Over(old, "failed")
      <4>1. /\ over \in Folder /\ over.dir = old.dir /\ over.by = old.by
            /\ over.step = "failed" /\ over.file = old.file
        BY <1>0, FolderOver
      <4>2. new = [over EXCEPT !.file = file, !.manifest = ManifestOf(f)]
        OBVIOUS
      <4>3. file \in Contents \cup {None, Damaged}
        BY <1>4, <2>3
      <4> HIDE DEF over, new
      <4> QED BY <1>4, <2>3, <4>1, <4>2, <4>3 DEF Folder
    <3>2. folders' = [folders EXCEPT ![f] = new]
      BY <2>3
    <3> HIDE DEF new
    <3> QED BY <1>4, <2>3, <3>1, <3>2 DEF Changes
  <2> QED BY <1>6, <2>1, <2>2, <2>3 DEF BackupStep, BackupFails
<1>7. CASE Spoil(f)
  <2>1. PICK content \in past \cup {Damaged} : folders' = [folders EXCEPT ![f].file = content]
    BY <1>7 DEF Spoil
  <2> DEFINE new == [old EXCEPT !.file = content]
  <2>2. /\ new \in Folder /\ new.dir = old.dir /\ new.by = old.by /\ new.step = old.step
        /\ new.manifest = old.manifest
    BY <1>0, <2>1 DEF Folder
  <2>3. folders' = [folders EXCEPT ![f] = new] /\ old.step \notin Running /\ spoilt' = spoilt \cup {f}
    BY <1>7, <2>1 DEF Spoil
  <2> HIDE DEF new
  <2> QED BY <2>2, <2>3 DEF BackupStep, Changes
<1> QED BY <1>1, <1>2, <1>3, <1>5, <1>6, <1>7 DEF Backup

(* A folder that is given up                                               *)
LEMMA FolderAbandoned ==
    ASSUME NEW old \in Folder
    PROVE  /\ Abandoned(old) \in Folder
           /\ Abandoned(old).dir = old.dir /\ Abandoned(old).by = old.by
           /\ Abandoned(old).step = "failed" /\ Abandoned(old).manifest = None
<1> DEFINE over == Over(old, "failed")
<1>1. /\ over \in Folder /\ over.dir = old.dir /\ over.by = old.by /\ over.step = "failed"
  BY FolderOver
<1>2. Abandoned(old) = [over EXCEPT !.file = None, !.manifest = None]
  BY DEF Abandoned
<1> HIDE DEF over
<1> QED BY <1>1, <1>2 DEF Folder

(* The backups of a server that ends are given up; no other changes.       *)
LEMMA ServerEndsFolders ==
    ASSUME Types, NEW d \in Dirs, ServerEnds(d)
    PROVE  /\ folders' \in Seq(Folder) /\ DOMAIN folders' = Folders /\ Len(folders') = Len(folders)
           /\ \A f \in Folders :
                 \/ folders'[f] = folders[f]
                 \/ /\ folders[f].step \in Running /\ folders[f].dir = d
                    /\ folders'[f].dir = folders[f].dir /\ folders'[f].by = folders[f].by
                    /\ folders'[f].step = "failed" /\ folders'[f].manifest = None
<1>1. DOMAIN folders' = Folders
  BY DEF ServerEnds, Folders
<1>2. ASSUME NEW f \in Folders
      PROVE  \/ folders'[f] = folders[f]
             \/ /\ folders[f].step \in Running /\ folders[f].dir = d
                /\ folders'[f] = Abandoned(folders[f])
  BY DEF ServerEnds, Folders, OwnBackups
<1>3. \A f \in Folders : folders'[f] \in Folder
  BY <1>2, TypeFacts, FolderAbandoned
<1>4. folders' \in [1 .. Len(folders) -> Folder]
  <2>1. folders' = [f \in Folders |-> folders'[f]]
    BY DEF ServerEnds, Folders
  <2> QED BY <2>1, <1>3, TypeFacts
<1>5. folders' \in Seq(Folder) /\ Len(folders') = Len(folders)
  BY <1>4, TypeFacts
<1> QED BY <1>1, <1>2, <1>5, TypeFacts, FolderAbandoned

(* What each step does to the folders                                      *)
FoldersStay == UNCHANGED <<folders, spoilt>>
FolderComes(d, by) ==
    /\ db[d] # None /\ Len(folders) < MaxFolders
    /\ folders' = Append(folders, NewFolder(d, by))
    /\ UNCHANGED <<db, restore, history>>

(* Who adds, changes or gives up folders in a step                         *)
LEMMA FolderSteps ==
    ASSUME Types, Holders, [Next]_vars
    PROVE  \/ FoldersStay
           \/ \E f \in Folders : Backup(f) /\ UNCHANGED <<live, server, restore, writes, past, replaced>>
           \/ \E d \in Dirs : \/ BeginBackup(d) /\ FolderComes(d, "tool")
                              \/ BackupFirst(d) /\ FolderComes(d, "init")
                              \/ ServerEnds(d)
<1> USE CopiesConstants, FileConstants DEF live, history
<1>1. ASSUME NEW f \in Folders, Backup(f) PROVE UNCHANGED <<live, server, restore, writes, past, replaced>>
  BY <1>1 DEF Backup, Copy, Publish, BeginManifest, EndManifest, BackupFails, Spoil
<1>2. ASSUME NEW d \in Dirs, Server(d)
      PROVE  \/ FoldersStay
             \/ BeginBackup(d) /\ FolderComes(d, "tool")
             \/ BackupFirst(d) /\ FolderComes(d, "init")
             \/ ServerEnds(d)
  <2>1. CASE StartServer(d) \/ CreateBase(d) \/ Opened(d) \/ BackupReturns(d) \/ Migrate(d) \/ Write(d)
    BY <2>1 DEF StartServer, CreateBase, Opened, BackupReturns, Migrate, Write, FoldersStay
  <2>2. CASE BeginBackup(d)
    BY <2>2 DEF BeginBackup, FolderComes
  <2>3. CASE BackupFirst(d)
    <3>1. db[d] # None
      BY <2>3 DEF BackupFirst, Holders
    <3> QED BY <2>3, <3>1 DEF BackupFirst, FolderComes
  <2> QED BY <1>2, <2>1, <2>2, <2>3 DEF Server
<1>3. ASSUME NEW r \in Restores, Restore(r) PROVE FoldersStay
  BY <1>3 DEF Restore, BeginRestore, LockTarget, CopyBack, PublishCopy, Finish, RestoreDies, FoldersStay
<1>4. CASE UNCHANGED vars
  BY <1>4 DEF vars, FoldersStay
<1> QED BY <1>1, <1>2, <1>3, <1>4 DEF Next, Folders

(* A folder begins as one of its type.                                     *)
LEMMA NewFolderTyped ==
    ASSUME NEW d \in Dirs, NEW by \in {"tool", "init"}
    PROVE  NewFolder(d, by) \in Folder
  BY DEF NewFolder, Folder, Steps, Running, Versions

(* Types that concern the folders                                          *)
FolderTypes ==
    /\ folders \in Seq(Folder) /\ Len(folders) <= MaxFolders
    /\ spoilt \subseteq Folders

(* A step keeps the folders typed.                                         *)
LEMMA FolderTypesStep ==
    ASSUME Types, Holders, Committed, FoldersTrue, [Next]_vars
    PROVE  FolderTypes'
<1> USE CopiesConstants
<1>0. /\ folders \in Seq(Folder) /\ Len(folders) \in Nat /\ Len(folders) <= MaxFolders
      /\ spoilt \subseteq Folders
  BY TypeFacts DEF Types
<1>1. CASE FoldersStay
  BY <1>0, <1>1 DEF FolderTypes, FoldersStay, Folders
<1>2. ASSUME NEW f \in Folders, Backup(f) PROVE FolderTypes'
  <2>1. PICK new : Changes(f, new) /\ spoilt' \subseteq spoilt \cup {f}
    BY <1>2, BackupSteps DEF BackupStep
  <2> QED BY <1>0, <2>1, FolderChanged DEF FolderTypes, Folders
<1>3. ASSUME NEW d \in Dirs, NEW by \in {"tool", "init"}, FolderComes(d, by) PROVE FolderTypes'
  <2>1. NewFolder(d, by) \in Folder
    BY NewFolderTyped
  <2> QED BY <1>0, <1>3, <2>1, FolderAdded DEF FolderTypes, FolderComes, Folders, history
<1>4. ASSUME NEW d \in Dirs, ServerEnds(d) PROVE FolderTypes'
  <2>1. spoilt' = spoilt
    BY <1>4 DEF ServerEnds, history
  <2> QED BY <1>0, <1>4, <2>1, ServerEndsFolders DEF FolderTypes, Folders
<1> QED BY <1>1, <1>2, <1>3, <1>4, FolderSteps

(* A step keeps the types of all variables.                                *)
LEMMA TypesStep ==
    ASSUME Types, Holders, Committed, FoldersTrue, RestoresKnow, [Next]_vars
    PROVE  Types'
<1> USE CopiesConstants, FileConstants
<1>0. /\ db \in [Dirs -> Contents \cup {None}]
      /\ staged \in [Dirs -> Contents \cup {None, Torn, Damaged}]
      /\ lockfile \in [Dirs -> BOOLEAN]
      /\ holder \in [Dirs -> Restores \cup {None, SERVER}]
      /\ server \in [Dirs -> {"off", "opening", "backup", "migrating", "on"}]
      /\ past \subseteq Contents /\ replaced \subseteq Contents
      /\ writes \in 0 .. MaxWrites
  BY DEF Types, TypeOK
<1>1. restore \in [Restores -> [step : {"new", "lock", "copy", "verify", "finish", "ended"},
                                dir : Dirs \cup {None}, folder : 0 .. MaxFolders,
                                manifest : Manifests \cup {None}]]
  BY DEF Types, TypeOK
<1> DEFINE Rec == [step : {"new", "lock", "copy", "verify", "finish", "ended"},
                   dir : Dirs \cup {None}, folder : 0 .. MaxFolders,
                   manifest : Manifests \cup {None}]
<1>2. FolderTypes'
  BY FolderTypesStep
<1>3. SUFFICES /\ db' \in [Dirs -> Contents \cup {None}]
               /\ staged' \in [Dirs -> Contents \cup {None, Torn, Damaged}]
               /\ lockfile' \in [Dirs -> BOOLEAN]
               /\ holder' \in [Dirs -> Restores \cup {None, SERVER}]
               /\ server' \in [Dirs -> {"off", "opening", "backup", "migrating", "on"}]
               /\ restore' \in [Restores -> Rec]
               /\ past' \subseteq Contents /\ replaced' \subseteq Contents
               /\ writes' \in 0 .. MaxWrites
  <2>1. spoilt' \subseteq 1 .. MaxFolders
    BY <1>2 DEF FolderTypes, Folders
  <2> QED BY <1>2, <2>1 DEF Types, TypeOK, FolderTypes, Folder, Folders
<1> DEFINE Goal == /\ db' \in [Dirs -> Contents \cup {None}]
                   /\ staged' \in [Dirs -> Contents \cup {None, Torn, Damaged}]
                   /\ lockfile' \in [Dirs -> BOOLEAN]
                   /\ holder' \in [Dirs -> Restores \cup {None, SERVER}]
                   /\ server' \in [Dirs -> {"off", "opening", "backup", "migrating", "on"}]
                   /\ restore' \in [Restores -> Rec]
                   /\ past' \subseteq Contents /\ replaced' \subseteq Contents
                   /\ writes' \in 0 .. MaxWrites
<1> USE DEF live, history
<1>4. ASSUME NEW f \in Folders, Backup(f) PROVE Goal
  BY <1>0, <1>1, <1>4 DEF Backup, Copy, Publish, BeginManifest, EndManifest, BackupFails, Spoil
<1>5. ASSUME NEW d \in Dirs, Server(d) PROVE Goal
  <2>0. /\ Empty \in Contents
        /\ [version |-> 1, data |-> 0] \in Contents
        /\ \A c \in Contents : [c EXCEPT !.version = 2] \in Contents
        /\ \A c \in Contents, n \in 0 .. MaxWrites : [c EXCEPT !.data = n] \in Contents
    BY DEF Empty, Contents, Versions
  <2>1. server[d] # "off" => db[d] \in Contents
    BY <1>0 DEF Holders
  <2>2. CASE StartServer(d)
    BY <1>0, <1>1, <2>0, <2>2 DEF StartServer
  <2>3. CASE CreateBase(d)
    BY <1>0, <1>1, <2>0, <2>3 DEF CreateBase, Commit
  <2>4. CASE BackupFirst(d) \/ Opened(d) \/ BackupReturns(d) \/ BeginBackup(d)
    BY <1>0, <1>1, <2>4 DEF BackupFirst, Opened, BackupReturns, BeginBackup
  <2>5. CASE Migrate(d)
    <3>1. db[d] \in Contents /\ [db[d] EXCEPT !.version = 2] \in Contents
      BY <2>0, <2>1, <2>5 DEF Migrate
    <3> QED BY <1>0, <1>1, <2>5, <3>1 DEF Migrate, Commit
  <2>6. CASE Write(d)
    <3>1. db[d] \in Contents /\ writes + 1 \in 0 .. MaxWrites
      BY <1>0, <2>1, <2>6 DEF Write
    <3>2. [db[d] EXCEPT !.data = writes + 1] \in Contents
      BY <2>0, <3>1
    <3> QED BY <1>0, <1>1, <2>6, <3>1, <3>2 DEF Write, Commit
  <2>7. CASE ServerEnds(d)
    BY <1>0, <1>1, <2>7 DEF ServerEnds
  <2> QED BY <1>5, <2>2, <2>3, <2>4, <2>5, <2>6, <2>7 DEF Server
<1>6. ASSUME NEW r \in Restores, Restore(r) PROVE Goal
  <2>0. /\ \A step \in {"copy", "verify", "finish"} : Goes(r, step) => restore' \in [Restores -> Rec]
        /\ Ends(r) => restore' \in [Restores -> Rec]
    BY <1>1 DEF Goes, Ends, NoRestore
  <2>1. ASSUME NEW f \in Folders, NEW d \in Dirs, BeginRestore(r, f, d) PROVE Goal
    <3>1. folders[f].manifest \in Manifests /\ f \in 0 .. MaxFolders
      BY <2>1, TypeFacts DEF BeginRestore, IsManifest, Folder, Types
    <3> QED BY <1>0, <1>1, <2>1, <3>1 DEF BeginRestore
  <2>2. CASE LockTarget(r)
    <3>1. restore' \in [Restores -> Rec]
      BY <2>0, <2>2 DEF LockTarget
    <3>2. holder' \in [Dirs -> Restores \cup {None, SERVER}] /\ lockfile' \in [Dirs -> BOOLEAN]
      BY <1>0, <2>2 DEF LockTarget
    <3> QED BY <1>0, <2>2, <3>1, <3>2 DEF LockTarget
  <2>3. CASE CopyBack(r)
    <3>1. restore[r].dir \in Dirs /\ db' = db /\ UNCHANGED <<holder, lockfile, server, history>>
      BY <2>3 DEF CopyBack, Holders, Holding
    <3>2. staged' \in [Dirs -> Contents \cup {None, Torn, Damaged}]
      <4>1. CASE /\ folders[restore[r].folder].file # None
                 /\ staged' = [staged EXCEPT ![Target(r)] = folders[restore[r].folder].file]
        <5>1. restore[r].folder \in Folders
          BY <2>3 DEF CopyBack, RestoresKnow
        <5> QED BY <1>0, <4>1, <5>1, TypeFacts DEF Folder
      <4> QED BY <1>0, <2>3, <4>1 DEF CopyBack
    <3>3. restore' \in [Restores -> Rec]
      <4>1. Goes(r, "verify") \/ Goes(r, "finish")
        BY <2>3 DEF CopyBack
      <4> QED BY <2>0, <4>1
    <3> QED BY <1>0, <3>1, <3>2, <3>3
  <2>4. CASE PublishCopy(r)
    <3>1. Verified(staged[Target(r)], restore[r].manifest) /\ restore[r].step = "verify"
             => restore[r].manifest.sha \in Contents /\ staged[Target(r)] = restore[r].manifest.sha
      BY <1>0 DEF Verified, RestoresKnow
    <3>2. db' \in [Dirs -> Contents \cup {None}] /\ staged' \in [Dirs -> Contents \cup {None, Torn, Damaged}]
      BY <1>0, <2>4, <3>1 DEF PublishCopy
    <3>3. restore' \in [Restores -> Rec]
      BY <2>0, <2>4 DEF PublishCopy
    <3> QED BY <1>0, <2>4, <3>2, <3>3 DEF PublishCopy
  <2>5. CASE Finish(r)
    BY <1>0, <2>0, <2>5 DEF Finish
  <2>6. CASE RestoreDies(r)
    BY <1>0, <2>0, <2>6 DEF RestoreDies
  <2> QED BY <1>6, <2>1, <2>2, <2>3, <2>4, <2>5, <2>6 DEF Restore, Folders
<1>7. CASE UNCHANGED vars
  BY <1>0, <1>1, <1>7 DEF vars
<1> QED BY <1>4, <1>5, <1>6, <1>7 DEF Next, Folders

-----------------------------------------------------------------------------
(* Holders                                                                 *)

(* Databases only come and change, they do not go; and they change under   *)
(* the lock of a server, or where there was none.                          *)
LEMMA DatabaseSteps ==
    ASSUME Types, Holders, [Next]_vars, NEW d \in Dirs
    PROVE  /\ db[d] # None => db'[d] # None
           /\ db'[d] # db[d] =>
                 \/ holder[d] = None /\ db[d] = None /\ db'[d] = Empty
                 \/ holder[d] = SERVER /\ server[d] # "off" /\ db'[d] \in past'
                 \/ \E r \in Restores : /\ holder[d] = r /\ restore[r].dir = d /\ db[d] = None
                                        /\ restore[r].step = "verify"
                                        /\ db'[d] = restore[r].manifest.sha
           /\ past \subseteq past'
<1> USE CopiesConstants, FileConstants DEF live, history
<1>0. /\ db \in [Dirs -> Contents \cup {None}]
      /\ staged \in [Dirs -> Contents \cup {None, Torn, Damaged}]
      /\ holder \in [Dirs -> Restores \cup {None, SERVER}]
  BY DEF Types, TypeOK
<1> DEFINE Goal == /\ db[d] # None => db'[d] # None
                   /\ db'[d] # db[d] =>
                         \/ holder[d] = None /\ db[d] = None /\ db'[d] = Empty
                         \/ holder[d] = SERVER /\ server[d] # "off" /\ db'[d] \in past'
                         \/ \E r \in Restores : /\ holder[d] = r /\ restore[r].dir = d /\ db[d] = None
                                                /\ restore[r].step = "verify"
                                                /\ db'[d] = restore[r].manifest.sha
                   /\ past \subseteq past'
<1>1. ASSUME db' = db, past' = past PROVE Goal
  BY <1>1
<1>2. ASSUME NEW f \in Folders, Backup(f) PROVE Goal
  BY <1>1, <1>2 DEF Backup, Copy, Publish, BeginManifest, EndManifest, BackupFails, Spoil
<1>3. ASSUME NEW e \in Dirs, Server(e) PROVE Goal
  <2>1. CASE StartServer(e)
    BY <1>0, <2>1 DEF StartServer
  <2>2. ASSUME NEW content \in Contents, Commit(e, content), server[e] # "off" PROVE Goal
    BY <1>0, <2>2 DEF Commit, Holders
  <2>3. /\ [version |-> 1, data |-> 0] \in Contents
        /\ \A c \in Contents : [c EXCEPT !.version = 2] \in Contents
        /\ \A c \in Contents, n \in 0 .. MaxWrites : [c EXCEPT !.data = n] \in Contents
    BY DEF Contents, Versions
  <2>4. server[e] # "off" => db[e] \in Contents
    BY <1>0 DEF Holders
  <2>5. CASE CreateBase(e)
    BY <2>2, <2>3, <2>5 DEF CreateBase
  <2>6. CASE Migrate(e)
    BY <2>2, <2>3, <2>4, <2>6 DEF Migrate
  <2>7. CASE Write(e)
    <3>1. writes + 1 \in 0 .. MaxWrites
      BY <2>7 DEF Write, Types
    <3>2. [db[e] EXCEPT !.data = writes + 1] \in Contents
      BY <2>3, <2>4, <2>7, <3>1 DEF Write
    <3> QED BY <2>2, <2>7, <3>2 DEF Write
  <2>8. CASE BackupFirst(e) \/ Opened(e) \/ BackupReturns(e) \/ BeginBackup(e) \/ ServerEnds(e)
    BY <1>1, <2>8 DEF BackupFirst, Opened, BackupReturns, BeginBackup, ServerEnds
  <2> QED BY <1>3, <2>1, <2>5, <2>6, <2>7, <2>8 DEF Server
<1>4. ASSUME NEW r \in Restores, Restore(r) PROVE Goal
  <2>1. CASE PublishCopy(r)
    <3>1. Target(r) \in Dirs /\ holder[Target(r)] = r /\ db[Target(r)] = None /\ restore[r].step = "verify"
      BY <2>1 DEF PublishCopy, Holders, Holding, Target
    <3>2. \/ db' = db
          \/ db' = [db EXCEPT ![Target(r)] = restore[r].manifest.sha]
      BY <2>1 DEF PublishCopy, Verified
    <3>3. past' = past
      BY <2>1 DEF PublishCopy
    <3> QED BY <1>0, <3>1, <3>2, <3>3 DEF Target
  <2>2. CASE ~ PublishCopy(r)
    BY <1>1, <1>4, <2>2 DEF Restore, BeginRestore, LockTarget, CopyBack, Finish, RestoreDies
  <2> QED BY <2>1, <2>2
<1>5. CASE UNCHANGED vars
  BY <1>1, <1>5 DEF vars
<1> QED BY <1>2, <1>3, <1>4, <1>5 DEF Next, Folders

(* A step leaves each directory to its holder.                             *)
LEMMA HoldersStep ==
    ASSUME Types, Holders, [Next]_vars
    PROVE  Holders'
<1> USE CopiesConstants DEF live, history
<1>0. /\ db \in [Dirs -> Contents \cup {None}]
      /\ holder \in [Dirs -> Restores \cup {None, SERVER}]
      /\ server \in [Dirs -> {"off", "opening", "backup", "migrating", "on"}]
      /\ DOMAIN restore = Restores
      /\ \A d \in Dirs : db[d] # None => db'[d] # None
      /\ None \notin Restores /\ SERVER \notin Restores /\ SERVER # None
  BY DatabaseSteps DEF Types, TypeOK
(* What most steps do                                                      *)
<1>1. ASSUME db' = db, holder' = holder, restore' = restore,
             \A d \in Dirs : server'[d] # "off" <=> server[d] # "off"
      PROVE  Holders'
  BY <1>1 DEF Holders
<1>2. ASSUME NEW f \in Folders, Backup(f) PROVE Holders'
  BY <1>1, <1>2 DEF Backup, Copy, Publish, BeginManifest, EndManifest, BackupFails, Spoil
<1>3. ASSUME NEW e \in Dirs, Server(e) PROVE Holders'
  <2>1. CASE StartServer(e)
    <3>1. Empty # None
      BY FileConstants DEF Empty, Contents, Versions
    <3>2. /\ holder[e] = None /\ restore' = restore
          /\ \A d \in Dirs : d # e => db'[d] = db[d] /\ holder'[d] = holder[d] /\ server'[d] = server[d]
          /\ db'[e] # None /\ holder'[e] = SERVER
      BY <1>0, <2>1, <3>1 DEF StartServer
    <3> QED BY <1>0, <3>2 DEF Holders, Holding
  <2>2. CASE ServerEnds(e)
    BY <1>0, <2>2 DEF ServerEnds, Holders, Holding
  <2>3. CASE CreateBase(e) \/ Migrate(e) \/ Write(e)
    <3>1. /\ server[e] # "off" /\ holder' = holder /\ restore' = restore
          /\ \A d \in Dirs : server'[d] # "off" <=> server[d] # "off"
          /\ \A d \in Dirs : d # e => db'[d] = db[d]
      BY <1>0, <2>3 DEF CreateBase, Migrate, Write, Commit
    <3> QED BY <1>0, <3>1 DEF Holders, Holding
  <2>4. CASE BackupFirst(e) \/ Opened(e) \/ BackupReturns(e) \/ BeginBackup(e)
    BY <1>0, <1>1, <2>4 DEF BackupFirst, Opened, BackupReturns, BeginBackup
  <2> QED BY <1>3, <2>1, <2>2, <2>3, <2>4 DEF Server
<1>4. ASSUME NEW r \in Restores, Restore(r) PROVE Holders'
  <2>0. /\ server' = server
        /\ \A q \in Restores : q # r => restore'[q] = restore[q]
    BY <1>0, <1>4 DEF Restore, BeginRestore, LockTarget, CopyBack, PublishCopy, Finish, RestoreDies, Goes, Ends
  <2>1. ASSUME NEW f \in Folders, NEW d \in Dirs, BeginRestore(r, f, d) PROVE Holders'
    <3>1. restore'[r].step = "lock" /\ restore'[r].dir = d /\ UNCHANGED <<db, holder>>
      BY <1>0, <2>1 DEF BeginRestore
    <3>2. \A e \in Dirs : holder[e] # r
      BY <2>1 DEF BeginRestore, Holders, Holding
    <3> QED BY <1>0, <2>0, <3>1, <3>2 DEF Holders, Holding
  <2>2. CASE LockTarget(r)
    <3>1. Target(r) \in Dirs /\ db' = db /\ restore[r].step = "lock"
      BY <2>2 DEF LockTarget, Holders, Target
    <3>2. CASE holder[Target(r)] = None
      <4>1. /\ holder' = [holder EXCEPT ![Target(r)] = r]
            /\ restore'[r].dir = restore[r].dir
            /\ restore'[r].step = IF StillUnused(r) THEN "copy" ELSE "finish"
        BY <1>0, <2>2, <3>2 DEF LockTarget, Goes, Types, TypeOK
      <4>2. StillUnused(r) => db[Target(r)] = None
        BY DEF StillUnused, Unused
      <4> QED BY <1>0, <2>0, <3>1, <3>2, <4>1, <4>2 DEF Holders, Holding, Target
    <3>3. CASE holder[Target(r)] # None
      <4>1. holder' = holder /\ restore'[r].step = "ended"
        BY <1>0, <2>2, <3>3 DEF LockTarget, Ends, NoRestore
      <4>2. \A e \in Dirs : holder[e] # r
        BY <3>1 DEF Holders, Holding
      <4> QED BY <1>0, <2>0, <3>1, <4>1, <4>2 DEF Holders, Holding
    <3> QED BY <3>2, <3>3
  <2>3. ASSUME NEW from \in Holding, NEW to \in Holding, restore[r].step = from, Goes(r, to),
               to = "verify" => from = "copy", to # "copy", holder' = holder
        PROVE  Holders'
    <3>1. restore'[r].step = to /\ restore'[r].dir = restore[r].dir
      BY <1>0, <2>3 DEF Goes, Types, TypeOK
    <3>2. \A d \in Dirs : (\E q \in Restores \ {r} : restore[q].step \in {"copy", "verify"} /\ restore[q].dir = d)
             => db'[d] = db[d]
      <4>1. restore[r].dir \in Dirs /\ holder[restore[r].dir] = r
        BY <2>3 DEF Holders
      <4>2. \A d \in Dirs : d # restore[r].dir => db'[d] = db[d]
        BY <1>0, <1>4, <4>1 DEF Restore, BeginRestore, LockTarget, CopyBack, PublishCopy, Finish, RestoreDies, Target
      <4> QED BY <4>1, <4>2 DEF Holders, Holding
    <3>3. to = "verify" => db' = db
      BY <1>0, <1>4, <2>3, <3>1 DEF Restore, BeginRestore, LockTarget, CopyBack, PublishCopy, Finish, RestoreDies, Goes, Holding
    <3> QED BY <1>0, <2>0, <2>3, <3>1, <3>2, <3>3 DEF Holders, Holding
  <2>4. CASE CopyBack(r)
    BY <2>3, <2>4 DEF CopyBack, Holding
  <2>5. CASE PublishCopy(r)
    BY <2>3, <2>5 DEF PublishCopy, Holding
  <2>6. CASE Finish(r) \/ RestoreDies(r)
    <3>1. restore'[r].step = "ended" /\ db' = db
      BY <1>0, <2>6 DEF Finish, RestoreDies, Ends, NoRestore
    <3>2. \A d \in Dirs : holder'[d] = IF holder[d] = r THEN None ELSE holder[d]
      BY <1>0, <2>6 DEF Finish, RestoreDies, Holders, Holding, Target
    <3> QED BY <1>0, <2>0, <3>1, <3>2 DEF Holders, Holding
  <2> QED BY <1>4, <2>1, <2>2, <2>4, <2>5, <2>6 DEF Restore, Folders
<1>5. CASE UNCHANGED vars
  BY <1>1, <1>5 DEF vars
<1> QED BY <1>2, <1>3, <1>4, <1>5 DEF Next, Folders

-----------------------------------------------------------------------------
(* Contents                                                                *)

(* What is in the place of a database was committed by some server.        *)
LEMMA CommittedStep ==
    ASSUME Types, Holders, Committed, RestoresKnow, [Next]_vars
    PROVE  Committed'
<1> SUFFICES ASSUME NEW d \in Dirs PROVE db'[d] \in past' \cup {None, Empty}
  BY DEF Committed, Empty
<1>1. \A r \in Restores : restore[r].step = "verify" => restore[r].manifest.sha \in past
  BY DEF RestoresKnow
<1> QED BY <1>1, DatabaseSteps DEF Committed, Empty

(* A folder's claims, for itself                                           *)
FolderTrue(folder, isSpoilt, known) ==
    /\ folder.step \in Running => ~ isSpoilt /\ ~ IsManifest(folder.manifest)
    /\ folder.step = "publish" => folder.temp \in known
    /\ folder.step \in {"manifest", "writing"} =>
          folder.file \in known /\ folder.info = folder.file.version
    /\ IsManifest(folder.manifest) =>
          /\ folder.manifest.sha \in known
          /\ folder.manifest.version = folder.manifest.sha.version
          /\ isSpoilt \/ folder.file \in {None, folder.manifest.sha}

(* FoldersTrue is what each folder claims.                                 *)
LEMMA FoldersTrueIs ==
    FoldersTrue <=> \A f \in Folders : /\ db[folders[f].dir] # None
                                       /\ FolderTrue(folders[f], f \in spoilt, past)
  BY DEF FoldersTrue, FolderTrue

(* A step keeps what the folders claim true.                               *)
LEMMA FoldersTrueStep ==
    ASSUME Types, Holders, Committed, FoldersTrue, [Next]_vars
    PROVE  FoldersTrue'
<1> USE CopiesConstants, FileConstants
<1>0. /\ \A f \in Folders : /\ folders[f] \in Folder /\ folders[f].dir \in Dirs
                            /\ db[folders[f].dir] # None
                            /\ FolderTrue(folders[f], f \in spoilt, past)
      /\ \A d \in Dirs : db[d] # None => db'[d] # None
      /\ \A d \in Dirs : past \subseteq past'
      /\ spoilt \subseteq Folders
  BY TypeFacts, FoldersTrueIs, DatabaseSteps DEF Folder, Types
<1>1. FoldersTrue' <=> \A f \in DOMAIN folders' : /\ db'[folders'[f].dir] # None
                                                  /\ FolderTrue(folders'[f], f \in spoilt', past')
  BY DEF FoldersTrue, FolderTrue, Folders, IsManifest, Running
(* A claim stays true as more states become known.                         *)
<1>2. ASSUME NEW f \in Folders, folders'[f] = folders[f], f \in spoilt' <=> f \in spoilt
      PROVE  db'[folders'[f].dir] # None /\ FolderTrue(folders'[f], f \in spoilt', past')
  BY <1>0, <1>2 DEF FolderTrue
<1>3. CASE FoldersStay
  BY <1>1, <1>2, <1>3 DEF FoldersStay, Folders
<1>4. ASSUME NEW f \in Folders, Backup(f), past' = past PROVE FoldersTrue'
  <2>1. \A g \in Folders \ {f} : g \in spoilt' <=> g \in spoilt
    BY <1>4, BackupSteps DEF BackupStep
  <2>2. PICK new : BackupStep(f, new)
    BY <1>4, BackupSteps
  <2>3. /\ DOMAIN folders' = Folders /\ folders'[f] = new /\ new.dir = folders[f].dir
        /\ \A g \in Folders \ {f} : folders'[g] = folders[g]
    BY <2>2, FolderChanged DEF BackupStep, Changes
  <2>4. FolderTrue(new, f \in spoilt', past)
    <3>1. FolderTrue(folders[f], f \in spoilt, past)
      BY <1>0
    <3> QED BY <2>2, <3>1 DEF BackupStep, FolderTrue, IsManifest, Running
  <2> QED BY <1>0, <1>1, <1>2, <1>4, <2>1, <2>3, <2>4
<1>5. ASSUME NEW d \in Dirs, NEW by \in {"tool", "init"}, FolderComes(d, by) PROVE FoldersTrue'
  <2>1. NewFolder(d, by) \in Folder /\ NewFolder(d, by).dir = d
    BY NewFolderTyped DEF NewFolder
  <2>2. /\ DOMAIN folders' = Folders \cup {Len(folders) + 1} /\ Len(folders) + 1 \notin Folders
        /\ folders'[Len(folders) + 1] = NewFolder(d, by)
        /\ \A f \in Folders : folders'[f] = folders[f]
        /\ db' = db /\ db[d] # None /\ spoilt' = spoilt /\ past' = past
    BY <1>5, <2>1, TypeFacts, FolderAdded DEF FolderComes, history
  <2>3. FolderTrue(NewFolder(d, by), Len(folders) + 1 \in spoilt', past')
    BY <1>0, <2>2 DEF FolderTrue, NewFolder, IsManifest, Running
  <2> QED BY <1>1, <1>2, <2>1, <2>2, <2>3
<1>6. ASSUME NEW d \in Dirs, ServerEnds(d) PROVE FoldersTrue'
  <2>1. spoilt' = spoilt
    BY <1>6 DEF ServerEnds, history
  <2>2. ASSUME NEW f \in Folders PROVE db'[folders'[f].dir] # None /\ FolderTrue(folders'[f], f \in spoilt', past')
    <3>1. CASE folders'[f] = folders[f]
      BY <1>2, <2>1, <3>1
    <3>2. CASE /\ folders'[f].dir = folders[f].dir
               /\ folders'[f].step = "failed" /\ folders'[f].manifest = None
      BY <1>0, <3>2 DEF FolderTrue, IsManifest, Running
    <3> QED BY <1>6, <3>1, <3>2, ServerEndsFolders
  <2> QED BY <1>1, <1>6, <2>2, ServerEndsFolders
<1> QED BY <1>3, <1>4, <1>5, <1>6, FolderSteps

(* A step keeps what restores have read true.                              *)
LEMMA RestoresKnowStep ==
    ASSUME Types, Holders, Committed, FoldersTrue, RestoresKnow, [Next]_vars
    PROVE  RestoresKnow'
<1> USE CopiesConstants, FileConstants DEF live, history
<1>0. DOMAIN restore = Restores /\ \A d \in Dirs : past \subseteq past'
  BY DatabaseSteps DEF Types, TypeOK
<1>1. Folders \subseteq DOMAIN folders'
  <2>1. CASE FoldersStay
    BY <2>1 DEF FoldersStay, Folders
  <2>2. ASSUME NEW f \in Folders, Backup(f) PROVE Folders \subseteq DOMAIN folders'
    BY <2>2, BackupSteps, FolderChanged DEF BackupStep
  <2>3. ASSUME NEW d \in Dirs, NEW by \in {"tool", "init"}, FolderComes(d, by) PROVE Folders \subseteq DOMAIN folders'
    <3>1. NewFolder(d, by) \in Folder
      BY NewFolderTyped
    <3> QED BY <2>3, <3>1, TypeFacts, FolderAdded DEF FolderComes
  <2>4. ASSUME NEW d \in Dirs, ServerEnds(d) PROVE Folders \subseteq DOMAIN folders'
    BY <2>4, ServerEndsFolders
  <2> QED BY <2>1, <2>2, <2>3, <2>4, FolderSteps
<1>2. past \subseteq past'
  <2>1. CASE Dirs = {}
    BY <2>1, TypeFacts DEF Next, Server, Backup, Copy, Publish, BeginManifest, EndManifest, BackupFails, Spoil,
       Restore, BeginRestore, LockTarget, CopyBack, PublishCopy, Finish, RestoreDies, vars, Folders
  <2> QED BY <1>0, <2>1
<1>3. ASSUME \A r \in Restores : /\ restore'[r].step \notin {"new", "ended"} => restore[r].step \notin {"new", "ended"}
                                 /\ restore'[r].step \notin {"new", "ended"} =>
                                       /\ restore'[r].manifest = restore[r].manifest
                                       /\ restore'[r].folder = restore[r].folder
      PROVE  RestoresKnow'
  BY <1>1, <1>2, <1>3 DEF RestoresKnow, Folders
<1>4. ASSUME NEW r \in Restores, NEW f \in Folders, NEW d \in Dirs, BeginRestore(r, f, d) PROVE RestoresKnow'
  <2>1. IsManifest(folders[f].manifest) /\ folders[f].manifest.sha \in past
    BY <1>4 DEF BeginRestore, FoldersTrue
  <2>2. /\ restore'[r].manifest = folders[f].manifest /\ restore'[r].folder = f
        /\ \A q \in Restores : q # r => restore'[q] = restore[q]
    BY <1>0, <1>4 DEF BeginRestore
  <2> QED BY <1>1, <1>2, <2>1, <2>2 DEF RestoresKnow, Folders
<1>5. ASSUME NEW r \in Restores, Restore(r), ~ \E f \in Folders, d \in Dirs : BeginRestore(r, f, d) PROVE RestoresKnow'
  <2>1. restore[r].step \notin {"new", "ended"} /\ (Ends(r) \/ \E step : Goes(r, step))
    BY <1>5 DEF Restore, Folders, LockTarget, CopyBack, PublishCopy, Finish, RestoreDies
  <2>2. CASE Ends(r)
    BY <1>0, <1>3, <2>2 DEF Ends, NoRestore
  <2>3. ASSUME NEW step, Goes(r, step) PROVE RestoresKnow'
    <3>1. restore[r] = [step |-> restore[r].step, dir |-> restore[r].dir, folder |-> restore[r].folder,
                        manifest |-> restore[r].manifest]
      BY DEF Types, TypeOK
    <3>2. restore'[r].manifest = restore[r].manifest /\ restore'[r].folder = restore[r].folder
      BY <1>0, <2>3, <3>1 DEF Goes
    <3>3. \A q \in Restores : q # r => restore'[q] = restore[q]
      BY <1>0, <2>3 DEF Goes
    <3> QED BY <1>3, <2>1, <3>2, <3>3
  <2> QED BY <2>1, <2>2, <2>3
<1>6. CASE restore' = restore
  BY <1>3, <1>6
<1>7. ASSUME NEW f \in Folders, Backup(f) PROVE restore' = restore
  BY <1>7 DEF Backup, Copy, Publish, BeginManifest, EndManifest, BackupFails, Spoil
<1>8. ASSUME NEW d \in Dirs, Server(d) PROVE restore' = restore
  BY <1>8 DEF Server, StartServer, CreateBase, BackupFirst, Opened, BackupReturns, Migrate, Write, ServerEnds, BeginBackup
<1> QED BY <1>4, <1>5, <1>6, <1>7, <1>8 DEF Next, vars, Folders

-----------------------------------------------------------------------------
(* Upgrades                                                                *)

(* Folders stay where they are, and a backup goes on from what it holds.   *)
LEMMA CopyGoesOn ==
    ASSUME Types, Holders, Committed, FoldersTrue, [Next]_vars, NEW f \in Folders
    PROVE  /\ f \in DOMAIN folders'
           /\ folders'[f].dir = folders[f].dir /\ folders'[f].by = folders[f].by
           /\ folders[f].step = "done" => folders'[f].step = "done"
           /\ \A content : /\ CopyOf(f, content)
                           /\ folders[f].step = "copy" => content = db[folders[f].dir]
                           => CopyOf(f, content)'
<1> USE CopiesConstants, FileConstants
<1> DEFINE Goal == /\ f \in DOMAIN folders'
                   /\ folders'[f].dir = folders[f].dir /\ folders'[f].by = folders[f].by
                   /\ folders[f].step = "done" => folders'[f].step = "done"
                   /\ \A content : /\ CopyOf(f, content)
                                   /\ folders[f].step = "copy" => content = db[folders[f].dir]
                                   => CopyOf(f, content)'
<1>1. ASSUME folders'[f] = folders[f], f \in DOMAIN folders', f \in spoilt => f \in spoilt' PROVE Goal
  BY <1>1 DEF CopyOf
<1>2. CASE FoldersStay
  BY <1>1, <1>2 DEF FoldersStay, Folders
<1>3. ASSUME NEW g \in Folders, Backup(g) PROVE Goal
  <2>1. CASE g # f
    <3>1. PICK new : Changes(g, new) /\ spoilt \subseteq spoilt'
      BY <1>3, BackupSteps DEF BackupStep
    <3>2. folders'[f] = folders[f] /\ DOMAIN folders' = Folders
      BY <2>1, <3>1, FolderChanged
    <3> QED BY <1>1, <3>1, <3>2
  <2>2. CASE g = f
    <3>1. PICK new : BackupStep(f, new)
      BY <1>3, <2>2, BackupSteps
    <3>2. /\ DOMAIN folders' = Folders /\ folders'[f] = new
          /\ new.dir = folders[f].dir /\ new.by = folders[f].by
      BY <3>1, FolderChanged DEF BackupStep, Changes
    <3> QED BY <3>1, <3>2 DEF BackupStep, CopyOf, Running
  <2> QED BY <2>1, <2>2
<1>4. ASSUME NEW d \in Dirs, NEW by \in {"tool", "init"}, FolderComes(d, by) PROVE Goal
  <2>1. NewFolder(d, by) \in Folder
    BY NewFolderTyped
  <2>2. folders'[f] = folders[f] /\ f \in DOMAIN folders' /\ spoilt' = spoilt
    BY <1>4, <2>1, TypeFacts, FolderAdded DEF FolderComes, history
  <2> QED BY <1>1, <2>2
<1>5. ASSUME NEW d \in Dirs, ServerEnds(d) PROVE Goal
  <2>1. spoilt' = spoilt /\ DOMAIN folders' = Folders
    BY <1>5, ServerEndsFolders DEF ServerEnds, history
  <2>2. CASE folders'[f] = folders[f]
    BY <1>1, <2>1, <2>2
  <2>3. CASE /\ folders[f].step \in Running
             /\ folders'[f].dir = folders[f].dir /\ folders'[f].by = folders[f].by
             /\ folders'[f].step = "failed"
    BY <2>1, <2>3 DEF CopyOf, Running
  <2> QED BY <1>5, <2>2, <2>3, ServerEndsFolders
<1> QED BY <1>2, <1>3, <1>4, <1>5, FolderSteps

(* What was kept is not lost again.                                        *)
LEMMA KeptStays ==
    ASSUME Types, Holders, Committed, FoldersTrue, [Next]_vars, NEW content, Kept(content)
    PROVE  Kept(content)'
<1>1. CASE content.data = 0
  BY <1>1 DEF Kept
<1>2. ASSUME NEW f \in Folders, folders[f].step = "done", CopyOf(f, content) PROVE Kept(content)'
  <2>1. f \in DOMAIN folders' /\ folders'[f].step = "done" /\ CopyOf(f, content)'
    BY <1>2, CopyGoesOn
  <2> QED BY <2>1 DEF Kept, Folders
<1> QED BY <1>1, <1>2 DEF Kept

(* What a server that goes on in a step may have done                      *)
LEMMA ServersGoOn ==
    ASSUME Types, Holders, [Next]_vars, NEW d \in Dirs
    PROVE  /\ server'[d] = "migrating" =>
                 \/ server[d] = "migrating" /\ db'[d] = db[d]
                 \/ db'[d].data = 0
                 \/ server[d] = "backup" /\ db'[d] = db[d] /\ folders' = folders
                    /\ folders[LastOf(OwnBackups(d))].step = "done"
           /\ server'[d] = "backup" =>
                 \/ server[d] = "backup" /\ db'[d] = db[d]
                    /\ ~ BackupFirst(d) /\ ~ ServerEnds(d)
                 \/ BackupFirst(d)
           /\ \A content \in replaced' \ replaced : \E e \in Dirs : server[e] = "migrating" /\ content = db[e]
<1> USE CopiesConstants DEF live, history
<1>0. DOMAIN db = Dirs /\ DOMAIN server = Dirs
  BY DEF Types, TypeOK
<1>1. server[d] # "off" => holder[d] = SERVER /\ holder[d] # None
  BY DEF Holders
<1> DEFINE Goal == /\ server'[d] = "migrating" =>
                         \/ server[d] = "migrating" /\ db'[d] = db[d]
                         \/ db'[d].data = 0
                         \/ server[d] = "backup" /\ db'[d] = db[d] /\ folders' = folders
                            /\ folders[LastOf(OwnBackups(d))].step = "done"
                   /\ server'[d] = "backup" =>
                         \/ server[d] = "backup" /\ db'[d] = db[d]
                            /\ ~ BackupFirst(d) /\ ~ ServerEnds(d)
                         \/ BackupFirst(d)
                   /\ \A content \in replaced' \ replaced : \E e \in Dirs : server[e] = "migrating" /\ content = db[e]
<1>2. ASSUME server'[d] = server[d], server[d] # "off" => db'[d] = db[d], replaced' = replaced PROVE Goal
  BY <1>0, <1>2 DEF BackupFirst, ServerEnds
<1>3. ASSUME NEW f \in Folders, Backup(f) PROVE Goal
  BY <1>2, <1>3 DEF Backup, Copy, Publish, BeginManifest, EndManifest, BackupFails, Spoil
<1>4. ASSUME NEW r \in Restores, Restore(r) PROVE Goal
  <2>1. server' = server /\ replaced' = replaced
    BY <1>4 DEF Restore, BeginRestore, LockTarget, CopyBack, PublishCopy, Finish, RestoreDies
  <2>2. server[d] # "off" => db'[d] = db[d]
    <3>1. CASE PublishCopy(r)
      BY <1>0, <1>1, <3>1 DEF PublishCopy, Holders, Holding, Target
    <3>2. CASE ~ PublishCopy(r)
      BY <1>4, <3>2 DEF Restore, BeginRestore, LockTarget, CopyBack, Finish, RestoreDies
    <3> QED BY <3>1, <3>2
  <2> QED BY <1>2, <2>1, <2>2
<1>5. ASSUME NEW e \in Dirs, Server(e) PROVE Goal
  <2>1. CASE StartServer(e)
    BY <1>0, <1>2, <2>1 DEF StartServer
  <2>2. CASE CreateBase(e)
    BY <1>0, <1>2, <2>2 DEF CreateBase, Commit
  <2>3. CASE BackupFirst(e)
    BY <1>0, <1>2, <2>3 DEF BackupFirst
  <2>4. CASE Opened(e)
    <3>1. server'[e] = "on"
      BY <1>0, <2>4 DEF Opened, NeedsBackup
    <3> QED BY <1>0, <1>2, <2>4, <3>1 DEF Opened
  <2>5. CASE BackupReturns(e)
    BY <1>0, <1>2, <2>5 DEF BackupReturns
  <2>6. CASE Migrate(e)
    <3>1. /\ server'[e] = "on" /\ server[e] = "migrating" /\ replaced' = replaced \cup {db[e]}
          /\ e # d => server'[d] = server[d] /\ db'[d] = db[d]
      BY <1>0, <2>6 DEF Migrate, Commit
    <3>2. \A content \in replaced' \ replaced : server[e] = "migrating" /\ content = db[e]
      BY <3>1
    <3>3. CASE e = d
      BY <3>1, <3>2, <3>3
    <3>4. CASE e # d
      <4>1. server'[d] = "backup" => ~ BackupFirst(d) /\ ~ ServerEnds(d)
        BY <1>0, <3>1, <3>4 DEF BackupFirst, ServerEnds
      <4> QED BY <3>1, <3>2, <3>4, <4>1
    <3> QED BY <3>3, <3>4
  <2>7. CASE Write(e)
    BY <1>0, <1>2, <2>7 DEF Write, Commit
  <2>8. CASE ServerEnds(e)
    BY <1>0, <1>2, <2>8 DEF ServerEnds
  <2>9. CASE BeginBackup(e)
    BY <1>0, <1>2, <2>9 DEF BeginBackup
  <2> QED BY <1>5, <2>1, <2>2, <2>3, <2>4, <2>5, <2>6, <2>7, <2>8, <2>9 DEF Server
<1>6. CASE UNCHANGED vars
  BY <1>2, <1>6 DEF vars
<1> QED BY <1>3, <1>4, <1>5, <1>6 DEF Next, Folders

(* A server waits for the last backup of its own, which no other step      *)
(* than its own adds to.                                                   *)
LEMMA OwnBackupsStay ==
    ASSUME Types, Holders, Committed, FoldersTrue, [Next]_vars, NEW d \in Dirs, ~ BackupFirst(d)
    PROVE  OwnBackups(d)' = OwnBackups(d)
<1>1. \A f \in Folders : /\ f \in DOMAIN folders'
                         /\ folders'[f].dir = folders[f].dir /\ folders'[f].by = folders[f].by
  BY CopyGoesOn
<1>2. ASSUME DOMAIN folders' = Folders PROVE OwnBackups(d)' = OwnBackups(d)
  BY <1>1, <1>2 DEF OwnBackups, Folders
<1>3. CASE FoldersStay
  BY <1>2, <1>3 DEF FoldersStay, Folders
<1>4. ASSUME NEW f \in Folders, Backup(f) PROVE OwnBackups(d)' = OwnBackups(d)
  BY <1>2, <1>4, BackupSteps, FolderChanged DEF BackupStep
<1>5. ASSUME NEW e \in Dirs, ServerEnds(e) PROVE OwnBackups(d)' = OwnBackups(d)
  BY <1>2, <1>5, ServerEndsFolders
<1>6. ASSUME NEW e \in Dirs, NEW by \in {"tool", "init"}, FolderComes(e, by), e # d \/ by # "init"
      PROVE  OwnBackups(d)' = OwnBackups(d)
  <2>1. /\ NewFolder(e, by) \in Folder
        /\ NewFolder(e, by).dir = e /\ NewFolder(e, by).by = by
    BY NewFolderTyped DEF NewFolder
  <2>2. /\ DOMAIN folders' = Folders \cup {Len(folders) + 1}
        /\ folders'[Len(folders) + 1] = NewFolder(e, by)
    BY <1>6, <2>1, TypeFacts, FolderAdded DEF FolderComes
  <2>3. Len(folders) + 1 \notin OwnBackups(d)'
    BY <1>6, <2>1, <2>2 DEF OwnBackups
  <2>4. Len(folders) + 1 \notin OwnBackups(d)
    BY TypeFacts DEF OwnBackups, Folders
  <2> QED BY <1>1, <2>2, <2>3, <2>4 DEF OwnBackups, Folders
<1> QED BY <1>3, <1>4, <1>5, <1>6, FolderSteps

(* The backup before an upgrade keeps what is upgraded, step by step.      *)
LEMMA UpgradesKeepStep ==
    ASSUME Types, Holders, Committed, FoldersTrue, UpgradesKeep, [Next]_vars
    PROVE  UpgradesKeep'
<1> USE CopiesConstants
<1>0. /\ \A content : Kept(content) => Kept(content)'
      /\ \A d \in Dirs : db'[d] = db[d] /\ Kept(db[d]) => Kept(db[d])'
  <2>1. \A content : Kept(content) => Kept(content)'
    BY KeptStays
  <2> QED BY <2>1 DEF Kept, CopyOf, Folders
<1>1. ASSUME NEW content \in replaced' PROVE Kept(content)'
  <2>1. CASE content \in replaced
    BY <1>0, <2>1 DEF UpgradesKeep
  <2>2. CASE content \notin replaced
    <3>1. CASE Dirs = {}
      <4>1. replaced' = replaced
        BY <3>1 DEF Next, Server, Backup, Copy, Publish, BeginManifest, EndManifest, BackupFails, Spoil,
           Restore, BeginRestore, LockTarget, CopyBack, PublishCopy, Finish, RestoreDies, vars, history
      <4> QED BY <1>1, <2>2, <4>1
    <3>2. ASSUME NEW d \in Dirs PROVE Kept(content)'
      <4>1. PICK e \in Dirs : server[e] = "migrating" /\ content = db[e]
        BY <1>1, <2>2, <3>2, ServersGoOn
      <4>2. Kept(db[e])
        BY <4>1 DEF UpgradesKeep
      <4>3. \A c : c = db[e] => Kept(c)
        BY <4>2 DEF Kept, CopyOf
      <4> QED BY <1>0, <4>1, <4>3
    <3> QED BY <3>1, <3>2
  <2> QED BY <2>1, <2>2
<1>2. ASSUME NEW d \in Dirs, server'[d] = "migrating" PROVE Kept(db[d])'
  <2>1. CASE server[d] = "migrating" /\ db'[d] = db[d]
    BY <1>0, <2>1 DEF UpgradesKeep
  <2>2. CASE db'[d].data = 0
    BY <2>2 DEF Kept
  <2>3. CASE /\ server[d] = "backup" /\ db'[d] = db[d] /\ folders' = folders
             /\ folders[LastOf(OwnBackups(d))].step = "done"
    <3>1. PICK f \in OwnBackups(d) : (\A g \in OwnBackups(d) : g <= f) /\ CopyOf(f, db[d])
      BY <2>3 DEF UpgradesKeep
    <3>2. OwnBackups(d) \subseteq Folders /\ Folders \subseteq Nat
      BY TypeFacts DEF OwnBackups, Folders
    <3>3. LastOf(OwnBackups(d)) = f
      <4>1. ASSUME NEW g \in OwnBackups(d), \A h \in OwnBackups(d) : h <= g PROVE g = f
        <5>1. f <= g /\ g <= f
          BY <3>1, <4>1
        <5>2. f \in Nat /\ g \in Nat
          BY <3>2
        <5> QED BY <5>1, <5>2
      <4> QED BY <3>1, <4>1 DEF LastOf
    <3>4. Kept(db[d])
      BY <2>3, <3>1, <3>2, <3>3 DEF Kept
    <3> QED BY <1>0, <2>3, <3>4
  <2> QED BY <1>2, <2>1, <2>2, <2>3, ServersGoOn
<1>3. ASSUME NEW d \in Dirs, server'[d] = "backup"
      PROVE  \E f \in OwnBackups(d)' : (\A g \in OwnBackups(d)' : g <= f) /\ CopyOf(f, db[d])'
  <2>1. CASE server[d] = "backup" /\ db'[d] = db[d] /\ ~ BackupFirst(d)
    <3>1. PICK f \in OwnBackups(d) : (\A g \in OwnBackups(d) : g <= f) /\ CopyOf(f, db[d])
      BY <2>1 DEF UpgradesKeep
    <3>2. f \in Folders /\ folders[f].dir = d
      BY DEF OwnBackups, Folders
    <3>3. \A content : content = db[d] => CopyOf(f, content)'
      <4>1. \A content : content = db[d] => CopyOf(f, content)
        BY <3>1 DEF CopyOf
      <4> QED BY <3>2, <4>1, CopyGoesOn
    <3>4. CopyOf(f, db[d])'
      BY <2>1, <3>3 DEF CopyOf
    <3>5. OwnBackups(d)' = OwnBackups(d)
      BY <2>1, OwnBackupsStay
    <3> QED BY <3>1, <3>4, <3>5
  <2>2. CASE BackupFirst(d)
    <3>1. folders' = Append(folders, NewFolder(d, "init"))
      BY <2>2 DEF BackupFirst
    <3>2. NewFolder(d, "init") \in Folder
      BY NewFolderTyped
    <3>0. PICK new : new = Len(folders) + 1
      OBVIOUS
    <3>3. /\ DOMAIN folders' = Folders \cup {new} /\ Folders = 1 .. Len(folders) /\ Len(folders) \in Nat
          /\ folders'[new] = NewFolder(d, "init")
      BY <3>0, <3>1, <3>2, TypeFacts, FolderAdded
    <3>4. new \in OwnBackups(d)' /\ CopyOf(new, db[d])'
      BY <3>3 DEF OwnBackups, CopyOf, NewFolder
    <3>5. \A g \in OwnBackups(d)' : g <= new
      BY <3>0, <3>3 DEF OwnBackups
    <3> QED BY <3>4, <3>5
  <2> QED BY <1>3, <2>1, <2>2, ServersGoOn
<1> QED BY <1>1, <1>2, <1>3 DEF UpgradesKeep

-----------------------------------------------------------------------------
(* The invariant                                                           *)

CopiesInv ==
    Types /\ Holders /\ Committed /\ FoldersTrue /\ RestoresKnow /\ UpgradesKeep

(* The invariant holds at first.                                           *)
LEMMA CopiesInit ==
    ASSUME Init
    PROVE  CopiesInv
<1> USE CopiesConstants, FileConstants
<1>1. PICK d \in Dirs, first \in {None, [version |-> 1, data |-> 1]} :
         db = [e \in Dirs |-> IF e = d THEN first ELSE None] /\ past = {first} \ {None}
  BY DEF Init
<1>2. [version |-> 1, data |-> 1] \in Contents /\ None \notin Contents
  BY DEF Contents, Versions
<1>3. db \in [Dirs -> Contents \cup {None}] /\ past \subseteq Contents /\ Committed
  BY <1>1, <1>2 DEF Committed
<1>4. folders \in Seq(Folder) /\ Len(folders) = 0 /\ Folders = {}
  BY DEF Init, Folders
<1>5. Types
  <2>1. \A r \in Restores : restore[r] = [step |-> "new", dir |-> None, folder |-> 0, manifest |-> None]
    BY DEF Init, NoRestore
  <2>2. restore \in [Restores -> [step : {"new", "lock", "copy", "verify", "finish", "ended"},
                                 dir : Dirs \cup {None}, folder : 0 .. MaxFolders,
                                 manifest : Manifests \cup {None}]]
    BY <2>1 DEF Init
  <2>3. folders \in Seq([dir : Dirs, by : {"tool", "init"}, step : Steps, info : Versions,
                         temp : Contents \cup {None}, file : Contents \cup {None, Damaged},
                         manifest : Manifests \cup {None, Torn}])
    BY DEF Init
  <2>4. /\ staged = [e \in Dirs |-> None] /\ lockfile = [e \in Dirs |-> db[e] # None]
        /\ holder = [e \in Dirs |-> None] /\ server = [e \in Dirs |-> "off"]
        /\ writes = 1 /\ replaced = {} /\ spoilt = {}
    BY DEF Init
  <2> QED BY <1>3, <1>4, <2>2, <2>3, <2>4 DEF Types, TypeOK
<1>6. \A r \in Restores : restore[r].step = "new"
  BY DEF Init, NoRestore
<1>7. Holders
  BY <1>6 DEF Init, Holders, Holding
<1>8. FoldersTrue /\ RestoresKnow
  BY <1>4, <1>6 DEF FoldersTrue, RestoresKnow
<1>9. UpgradesKeep
  BY DEF Init, UpgradesKeep
<1> QED BY <1>3, <1>5, <1>7, <1>8, <1>9 DEF CopiesInv

(* Every step keeps the invariant.                                         *)
LEMMA CopiesStep ==
    ASSUME CopiesInv, [Next]_vars
    PROVE  CopiesInv'
  BY TypesStep, HoldersStep, CommittedStep, FoldersTrueStep, RestoresKnowStep, UpgradesKeepStep
     DEF CopiesInv

(* CopiesInv is an invariant: who may touch a directory, what its files    *)
(* and its backups hold, and what the backup before an upgrade keeps.      *)
THEOREM AlwaysCopiesInv == Spec => []CopiesInv
  BY CopiesInit, CopiesStep, PTL DEF Spec

(* The variables keep their types: each database is missing or whole.      *)
THEOREM TypeCorrect == Spec => []TypeOK
<1>1. CopiesInv => TypeOK
  BY DEF CopiesInv, Types
<1> QED BY <1>1, AlwaysCopiesInv, PTL

(* Only the server that holds a directory's lock changes a database that   *)
(* is in its place; no restore, no backup and no dead process does.        *)
THEOREM NeverOverwritten == Spec => NeverReplaced
<1>1. CopiesInv /\ [Next]_vars =>
        [\A d \in Dirs : db[d] # None /\ db'[d] # db[d] => holder[d] = SERVER /\ server[d] # "off"]_vars
  BY DatabaseSteps DEF CopiesInv
<1> QED BY <1>1, AlwaysCopiesInv, PTL DEF Spec, NeverReplaced

(* What a restore publishes is what its manifest was written for, and some *)
(* server committed it.                                                    *)
THEOREM RestoresOriginals == Spec => RestoresTheOriginal
<1>1. ASSUME CopiesInv, [Next]_vars, NEW r \in Restores, NEW d \in Dirs, holder[d] = r, db'[d] # db[d]
      PROVE  db'[d] = restore[r].manifest.sha /\ db'[d] \in past
  <2>1. db'[d] = restore[r].manifest.sha /\ restore[r].step = "verify"
    BY <1>1, CopiesConstants, DatabaseSteps DEF CopiesInv
  <2> QED BY <1>1, <2>1 DEF CopiesInv, RestoresKnow
<1>2. CopiesInv /\ [Next]_vars =>
        [\A r \in Restores, d \in Dirs : holder[d] = r /\ db'[d] # db[d] =>
            db'[d] = restore[r].manifest.sha /\ db'[d] \in past]_vars
  BY <1>1
<1> QED BY <1>2, AlwaysCopiesInv, PTL DEF Spec, RestoresTheOriginal

(* A folder with a whole manifest and an untouched file is what it says.   *)
THEOREM CompleteFoldersAreTrue == Spec => []CompleteIsTrue
<1>1. CopiesInv => CompleteIsTrue
  BY DEF CopiesInv, FoldersTrue, CompleteIsTrue, Folders
<1> QED BY <1>1, AlwaysCopiesInv, PTL

(* Whatever an upgrade started from is in a finished backup, however many  *)
(* start-ups failed before.                                                *)
THEOREM UpgradesKeepOriginals == Spec => []UpgradeKeepsOriginal
<1>1. CopiesInv => UpgradeKeepsOriginal
  BY DEF CopiesInv, UpgradesKeep, Kept, CopyOf, UpgradeKeepsOriginal, Folders
<1> QED BY <1>1, AlwaysCopiesInv, PTL

=============================================================================
