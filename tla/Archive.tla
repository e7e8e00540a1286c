------------------------------ MODULE Archive ------------------------------
(***************************************************************************)
(* The media archive: the tables media_folders and media_files of          *)
(* store/db.go, the bytes in uploads/, and the handlers that change them.  *)
(*                                                                         *)
(* A handler works in several steps, on the disk and on the tables, and    *)
(* others run in between; nothing is locked and nothing is undone.  Any    *)
(* statement and any os.Remove may fail: bot.db is opened without a busy   *)
(* timeout, and most of these errors are dropped.  One instance of each    *)
(* handler runs at a time here; folders can be created meanwhile.          *)
(*                                                                         *)
(* No handler looks whether a folder exists.  Folders and files are put    *)
(* where the form says, and the form says what the address of its page     *)
(* did: the root, a folder, one that is gone, or one still to come.        *)
(*                                                                         *)
(* As in MessageStore, rows are never rewritten (names aside), so a table  *)
(* is a function of every row ever inserted and the set of those present.  *)
(* A file is stored under a name nothing else ever had (UnixNano).         *)
(***************************************************************************)
EXTENDS Integers, FiniteSets

CONSTANTS
    MaxFolder,  \* bound: rows ever inserted into media_folders
    MaxFile,    \* bound: rows ever inserted into media_files
    MaxPath,    \* bound: files ever written to uploads/
    MaxStops    \* bound: resets and restarts, together

ASSUME BoundAssumption ==
    /\ MaxFolder \in Nat /\ MaxFile \in Nat
    /\ MaxPath \in Nat /\ MaxStops \in Nat

Root == 0
NoFolder == -1
NoPath == 0
NoFile == 0

\* What a form may name as a folder.  That of a deletion never names the root,
\* which is on no page as something to delete.
Address == 0..MaxFolder

VARIABLES
    parent,     \* parent_id of every folder ever created
    folders,    \* the folders whose row is in the table
    lastFolder, \* sqlite_sequence of media_folders
    early,      \* the folders that were put under an id not yet given out (ghost)
    home,       \* folder_id of every file ever in the table
    path,       \* its path
    files,      \* the files whose row is in the table
    lastFile,   \* sqlite_sequence of media_files
    disk,       \* the paths in uploads/
    lastPath,   \* the last path used
    upload,     \* handleFileUpload: the path written, and the folder_id
    removing,   \* handleFileDelete: the file whose bytes it has removed
    target,     \* handleFolderDelete: the folder it was asked to delete
    erasing,    \* folders deleteMediaFolderFiles has still to visit
    emptying,   \* folders DeleteMediaFolder has still to visit
    closing,    \* folders it has visited and whose row it has still to delete
    resetting,  \* handleReset: its next step
    stops       \* resets and restarts so far

folderTable == <<parent, folders, lastFolder, early>>
fileTable   == <<home, path, files, lastFile>>
uploads     == <<disk, lastPath>>
folderDelete == <<target, erasing, emptying, closing>>
handlers    == <<upload, removing, folderDelete, resetting>>
vars        == <<folderTable, fileTable, uploads, handlers, stops>>

Folder == 1..lastFolder

NoUpload == [path |-> NoPath, folder |-> Root]

TypeOK ==
    /\ lastFolder \in 0..MaxFolder
    /\ folders \subseteq Folder /\ early \subseteq Folder
    /\ parent \in [Folder -> Address]
    /\ lastFile \in 0..MaxFile /\ files \subseteq 1..lastFile
    /\ home \in [1..lastFile -> Address]
    /\ path \in [1..lastFile -> 1..lastPath]
    /\ lastPath \in 0..MaxPath /\ disk \subseteq 1..lastPath
    /\ upload \in [path : 0..lastPath, folder : Address]
    /\ removing \in 0..lastFile
    /\ target \in Address \cup {NoFolder}
    /\ erasing \cup emptying \cup closing \subseteq Address
    /\ target = NoFolder => erasing \cup emptying \cup closing = {}
    /\ resetting \in {"idle", "files", "uploads"}
    /\ stops \in 0..MaxStops

Init ==
    /\ parent = [f \in {} |-> f] /\ folders = {} /\ lastFolder = 0
    /\ early = {}
    /\ home = [f \in {} |-> f] /\ path = [f \in {} |-> f]
    /\ files = {} /\ lastFile = 0
    /\ disk = {} /\ lastPath = 0
    /\ upload = NoUpload /\ removing = NoFile
    /\ target = NoFolder /\ erasing = {} /\ emptying = {} /\ closing = {}
    /\ resetting = "idle" /\ stops = 0

Put(table, id, row) ==
    [i \in DOMAIN table \cup {id} |-> IF i = id THEN row ELSE table[i]]

\* What INTEGER PRIMARY KEY without AUTOINCREMENT would allocate.
LargestPlusOne(last, present) ==
    1 + CHOOSE m \in present \cup {0} : \A i \in present : i <= m

\* AUTOINCREMENT.
NextFolderId(last, present) == last + 1
NextFileId(last, present) == last + 1

\* The WHERE clauses of GetMediaFiles and GetMediaFolders, and the same without.
AnyFile(d) == files
AnyFolder(d) == folders
FilesIn(d) == {f \in files : home[f] = d}
FoldersIn(d) == {c \in folders : parent[c] = d}

\* The folder d and all those around it: what following parent ids leads to.
Around(d) ==
    {x \in Address :
        \A S \in SUBSET Address :
            d \in S /\ (\A c \in S \cap Folder : parent[c] \in S) => x \in S}

InItself(d) == d \in Folder /\ d \in Around(parent[d])

-----------------------------------------------------------------------------
(* handleFolderCreate, handleFileUpload, handleFileDelete *)

FolderCreate(under) ==
    LET id == NextFolderId(lastFolder, folders)
    IN  /\ lastFolder < MaxFolder
        /\ parent' = Put(parent, id, under)
        /\ folders' = folders \cup {id}
        /\ lastFolder' = id
        /\ early' = IF under \in Folder \cup {Root} THEN early \ {id}
                    ELSE early \cup {id}
        /\ UNCHANGED <<fileTable, uploads, handlers, stops>>

\* The name is not looked at by anything here.
FolderRename(d) == UNCHANGED vars

\* os.Create and io.Copy; when the copy fails the file stays.
WriteUpload(folder) ==
    /\ upload = NoUpload /\ lastPath < MaxPath
    /\ lastPath' = lastPath + 1
    /\ disk' = disk \cup {lastPath + 1}
    /\ upload' \in {NoUpload, [path |-> lastPath + 1, folder |-> folder]}
    /\ UNCHANGED <<folderTable, fileTable, removing, folderDelete, resetting>>
    /\ UNCHANGED stops

CreateMediaFile ==
    LET id == NextFileId(lastFile, files)
    IN  /\ upload # NoUpload /\ lastFile < MaxFile
        /\ home' = Put(home, id, upload.folder)
        /\ path' = Put(path, id, upload.path)
        /\ files' = files \cup {id}
        /\ lastFile' = id
        /\ upload' = NoUpload
        /\ UNCHANGED <<folderTable, uploads, removing, folderDelete, resetting>>
        /\ UNCHANGED stops

\* The insertion fails, and the bytes are removed again.
UploadFails ==
    /\ upload # NoUpload
    /\ disk' = disk \ {upload.path}
    /\ upload' = NoUpload
    /\ UNCHANGED <<folderTable, fileTable, lastPath, removing, folderDelete>>
    /\ UNCHANGED <<resetting, stops>>

\* The file's row is read and its bytes are removed, if os.Remove can.
RemoveBytes(f) ==
    /\ removing = NoFile
    /\ removing' = f
    /\ disk' \in {disk, disk \ {path[f]}}
    /\ UNCHANGED <<folderTable, fileTable, lastPath, upload, folderDelete>>
    /\ UNCHANGED <<resetting, stops>>

\* The row is deleted, or the error is dropped.
RemoveRow ==
    /\ removing # NoFile
    /\ removing' = NoFile
    /\ files' \in {files, files \ {removing}}
    /\ UNCHANGED <<folderTable, home, path, lastFile, uploads, upload>>
    /\ UNCHANGED <<folderDelete, resetting, stops>>

-----------------------------------------------------------------------------
(* handleFolderDelete *)

FolderDelete(d) ==
    /\ target = NoFolder
    /\ target' = d /\ erasing' = {d}
    /\ UNCHANGED <<emptying, closing>>
    /\ UNCHANGED <<folderTable, fileTable, uploads, upload, removing>>
    /\ UNCHANGED <<resetting, stops>>

\* What the query for the folders in d may bring: them, or an error.
Within(d) == {{}, FoldersIn(d)}

\* One call of deleteMediaFolderFiles: the bytes of the files that are in the
\* folder now are removed, or of some of them, and the folders in it are next.
\* After the last call the rows are next.
EraseFolder(d, within) ==
    /\ d \in erasing
    /\ \E gone \in SUBSET FilesIn(d) : disk' = disk \ {path[f] : f \in gone}
    /\ erasing' = (erasing \ {d}) \cup within
    /\ emptying' = IF erasing' = {} THEN {target} ELSE {}
    /\ UNCHANGED <<target, closing, lastPath>>
    /\ UNCHANGED <<folderTable, fileTable, upload, removing, resetting, stops>>

\* The first half of DeleteMediaFolder.  The rows of the files are deleted while
\* the query that finds them is still open, which keeps the table locked: each of
\* these deletions may fail, and its error is dropped.
EmptyFolder(d, within) ==
    /\ d \in emptying
    /\ \E gone \in SUBSET FilesIn(d) : files' = files \ gone
    /\ emptying' = (emptying \ {d}) \cup within
    /\ closing' = closing \cup {d}
    /\ UNCHANGED <<target, erasing, home, path, lastFile>>
    /\ UNCHANGED <<folderTable, uploads, upload, removing, resetting, stops>>

\* The row of the folder is deleted first.
AnyTime(d) == TRUE

\* The calls for the folders within have returned.  Round a circle there is no
\* telling which call returns first: it depends on where a query fails.
NoneWithin(d) ==
    \A c \in Folder :
        parent[c] = d => c \notin emptying /\ (c \in closing => InItself(c))

\* Its second half.
CloseFolder(d) ==
    /\ d \in closing /\ NoneWithin(d)
    /\ folders' \in {folders, folders \ {d}}
    /\ closing' = closing \ {d}
    /\ target' = IF closing' = {} THEN NoFolder ELSE target
    /\ UNCHANGED <<parent, lastFolder, early, erasing, emptying>>
    /\ UNCHANGED <<fileTable, uploads, upload, removing, resetting, stops>>

\* The same in an inner call for a folder that is inside itself, when the outer
\* ones have not returned.
CloseInner(d) ==
    /\ d \in closing /\ InItself(d)
    /\ folders' = folders \ {d}
    /\ UNCHANGED <<parent, lastFolder, early, folderDelete>>
    /\ UNCHANGED <<fileTable, uploads, upload, removing, resetting, stops>>

\* A step of the two walks in which the query for folders succeeds.
WalkOn(d) ==
    \/ EraseFolder(d, FoldersIn(d)) \/ EmptyFolder(d, FoldersIn(d))
    \/ CloseFolder(d)

DeleteStep ==
    \E d \in Address :
        \/ \E within \in Within(d) : EraseFolder(d, within) \/ EmptyFolder(d, within)
        \/ CloseFolder(d) \/ CloseInner(d)

-----------------------------------------------------------------------------
(* handleReset, and the process killed and started again *)

\* ResetAll deletes the folders before the files, each in its own transaction.
ResetFolders ==
    /\ resetting = "idle" /\ stops < MaxStops
    /\ resetting' = "files" /\ stops' = stops + 1
    /\ folders' = {}
    /\ UNCHANGED <<parent, lastFolder, early, fileTable, uploads>>
    /\ UNCHANGED <<upload, removing, folderDelete>>

ResetFiles ==
    /\ resetting = "files"
    /\ resetting' = "uploads"
    /\ files' = {}
    /\ UNCHANGED <<home, path, lastFile, folderTable, uploads>>
    /\ UNCHANGED <<upload, removing, folderDelete, stops>>

\* os.RemoveAll, as far as it gets.
ResetUploads ==
    /\ resetting = "uploads"
    /\ resetting' = "idle"
    /\ disk' \in SUBSET disk
    /\ UNCHANGED <<lastPath, folderTable, fileTable>>
    /\ UNCHANGED <<upload, removing, folderDelete, stops>>

\* A statement fails, and handleReset returns.
ResetFails ==
    /\ resetting = "files"
    /\ resetting' = "idle"
    /\ UNCHANGED <<folderTable, fileTable, uploads>>
    /\ UNCHANGED <<upload, removing, folderDelete, stops>>

Restart ==
    /\ stops < MaxStops
    /\ stops' = stops + 1
    /\ upload' = NoUpload /\ removing' = NoFile
    /\ target' = NoFolder /\ erasing' = {} /\ emptying' = {} /\ closing' = {}
    /\ resetting' = "idle"
    /\ UNCHANGED <<folderTable, fileTable, uploads>>

Next ==
    \/ \E d \in Address : FolderCreate(d) \/ WriteUpload(d)
    \/ \E d \in Address \ {Root} : FolderRename(d) \/ FolderDelete(d)
    \/ CreateMediaFile \/ UploadFails
    \/ \E f \in files : RemoveBytes(f)
    \/ RemoveRow
    \/ DeleteStep
    \/ ResetFolders \/ ResetFiles \/ ResetUploads \/ ResetFails
    \/ Restart

Spec == Init /\ [][Next]_vars

\* A handler that has begun goes on, and that a query fails is never certain: a
\* walk that comes to the same folders again and again goes on for ever.
FairSpec == Spec /\ WF_vars(\E d \in Address : WalkOn(d))

-----------------------------------------------------------------------------
(* Properties *)

\* Whatever stale page a folder is created from, it does not come to be inside
\* itself, where GetFolderBreadcrumb and both walks of handleFolderDelete would go
\* round for ever: for that, one of those on the way round must have been put under
\* an id that had not been given out yet.
OnlyEarlyLoop == \A d \in Folder : InItself(d) => Around(d) \cap early # {}

\* A file of the archive loses its row or its bytes only while somebody deletes
\* that very file, a folder around it, or everything.
OnlyAskedVanish ==
    [][\A f \in files :
          f \notin files' \/ path[f] \in disk \ disk'
          => \/ f \in {removing, removing'}
             \/ target \in Around(home[f])
             \/ resetting # "idle"]_vars

\* The archive is what the scheduler takes it for: however handlers interleave
\* and fail, a file whose row or bytes are gone never comes back.
ToScheduler == INSTANCE Media WITH
    disk <- {f \in 1..lastFile : path[f] \in disk}

ImplementsMedia == ToScheduler!MediaSpec

\* The deletion of a folder comes to an end, whatever is created, uploaded and
\* deleted in it meanwhile, unless the folder is inside itself.
DeletionEnds ==
    target # NoFolder ~> target = NoFolder \/ InItself(target)

\* What the page says before a deletion ("Bu klasör ve içindekiler silinecek"):
\* a folder is deleted together with what is in it.
FolderGoesWithFiles ==
    [][\A d \in folders \ folders' :
          resetting # "idle" \/ resetting' # "idle" \/ FilesIn(d) = {}]_vars
=============================================================================
