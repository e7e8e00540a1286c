--------------------------- MODULE ArchiveProofs ---------------------------
(* Proofs about Archive. *)
EXTENDS Archive, FiniteSetTheorems, WellFoundedInduction, TLAPS

LEMMA AddressIs ==
    /\ MaxFolder \in Nat /\ Address \subseteq Nat
    /\ Root \in Address /\ NoFolder \notin Address
BY BoundAssumption DEF Address, Root, NoFolder

LEMMA FolderIs ==
    ASSUME TypeOK
    PROVE  /\ lastFolder \in Nat /\ lastFolder + 1 \notin Folder
           /\ Folder \subseteq Address
           /\ \A c \in Folder : c \in 1..lastFolder /\ parent[c] \in Address
<1>1. lastFolder \in 0..MaxFolder /\ MaxFolder \in Nat
  BY AddressIs DEF TypeOK
<1>2. Folder \subseteq Address /\ lastFolder + 1 \notin Folder
  BY <1>1 DEF Folder, Address
<1> QED
  BY <1>1, <1>2 DEF Folder, TypeOK

\* A table that grows by one row.
LEMMA PutRow ==
    ASSUME NEW n \in Nat, NEW S, NEW f \in [1..n -> S], NEW v \in S
    PROVE  Put(f, n + 1, v) \in [1..(n + 1) -> S]
<1>1. DOMAIN f \cup {n + 1} = 1..(n + 1)
  OBVIOUS
<1>2. Put(f, n + 1, v) = [i \in 1..(n + 1) |-> IF i = n + 1 THEN v ELSE f[i]]
  BY <1>1 DEF Put
<1>3. \A i \in 1..(n + 1) : i # n + 1 => i \in 1..n
  OBVIOUS
<1> QED
  BY <1>2, <1>3

LEMMA PutKeeps ==
    ASSUME NEW table, NEW id, NEW row, NEW i \in DOMAIN table, i # id
    PROVE  Put(table, id, row)[i] = table[i]
BY DEF Put

\* No step changes where a folder is.
LEMMA FoldersStay ==
    ASSUME TypeOK, [Next]_vars
    PROVE  \A c \in Folder : c \in Folder' /\ parent'[c] = parent[c]
<1>1. CASE \E d \in Address : FolderCreate(d)
  <2>1. PICK d \in Address : FolderCreate(d)
    BY <1>1
  <2>2. lastFolder' = lastFolder + 1 /\ parent' = Put(parent, lastFolder + 1, d)
    BY <2>1 DEF FolderCreate, NextFolderId
  <2>3. DOMAIN parent = Folder
    BY DEF TypeOK
  <2>4. ASSUME NEW c \in Folder PROVE c \in Folder' /\ parent'[c] = parent[c]
    <3>1. c # lastFolder + 1
      BY FolderIs
    <3>2. c \in Folder'
      BY <2>2, FolderIs DEF Folder
    <3> QED
      BY <2>2, <2>3, <3>1, <3>2, PutKeeps
  <2> QED
    BY <2>4
<1>2. ASSUME ~\E d \in Address : FolderCreate(d)
      PROVE  UNCHANGED <<parent, lastFolder>>
  BY <1>2
  DEF Next, DeleteStep, WriteUpload, CreateMediaFile, UploadFails, RemoveBytes,
      RemoveRow, FolderRename, FolderDelete, EraseFolder, EmptyFolder, CloseFolder,
      CloseInner, ResetFolders, ResetFiles, ResetUploads, ResetFails, Restart, vars,
      folderTable
<1> QED
  BY <1>1, <1>2 DEF Folder

-----------------------------------------------------------------------------
(* The folders around a folder: on a tree or round a circle *)

\* A set that has, with a folder, the one it is in.
Upward(S) == \A c \in S \cap Folder : parent[c] \in S

LEMMA AroundLeast ==
    ASSUME NEW S \in SUBSET Address, Upward(S), NEW d \in S
    PROVE  Around(d) \subseteq S
BY DEF Around, Upward

LEMMA AroundSelf ==
    ASSUME NEW d \in Address
    PROVE  d \in Around(d) /\ Around(d) \in SUBSET Address
BY DEF Around

LEMMA AroundUpward ==
    ASSUME TypeOK, NEW d
    PROVE  Upward(Around(d))
<1> SUFFICES ASSUME NEW c \in Around(d), c \in Folder
             PROVE  parent[c] \in Around(d)
  BY DEF Upward
<1>1. parent[c] \in Address
  BY FolderIs
<1> QED
  BY <1>1 DEF Around

\* What is around something around d is around d.
LEMMA AroundAgain ==
    ASSUME TypeOK, NEW d, NEW x \in Around(d)
    PROVE  Around(x) \subseteq Around(d)
<1>1. Around(d) \in SUBSET Address
  BY DEF Around
<1> QED
  BY <1>1, AroundLeast, AroundUpward

LEMMA AroundIs ==
    ASSUME TypeOK, NEW c \in Folder
    PROVE  Around(c) = {c} \cup Around(parent[c])
<1>1. c \in Address /\ parent[c] \in Address
  BY FolderIs
<1>2. c \in Around(c) /\ parent[c] \in Around(c)
  BY <1>1, AroundSelf, AroundUpward DEF Upward
<1>3. {c} \cup Around(parent[c]) \subseteq Around(c)
  BY <1>2, AroundAgain
<1> DEFINE S == {c} \cup Around(parent[c])
<1>4. parent[c] \in S /\ c \in S /\ S \in SUBSET Address
  BY <1>1, AroundSelf
<1>5. Upward(S)
  BY <1>4, AroundUpward DEF Upward
<1>6. Around(c) \subseteq S
  BY <1>4, <1>5, AroundLeast
<1> QED
  BY <1>3, <1>6

\* Folders do not move, so no step takes anything away from around a folder; what
\* was under an id still to come gets more around it when the folder comes.
LEMMA AroundGrows ==
    ASSUME TypeOK, [Next]_vars, NEW d
    PROVE  Around(d) \subseteq Around(d)'
<1>1. \A S : Upward(S)' => Upward(S)
  BY FoldersStay DEF Upward
<1> QED
  BY <1>1 DEF Around, Upward

\* All on the way round a circle are inside themselves.
LEMMA LoopShared ==
    ASSUME TypeOK, NEW d, InItself(d), NEW t \in Around(d)
    PROVE  InItself(t)
<1>1. d \in Folder /\ d \in Around(parent[d]) /\ d \in Address
  BY FolderIs DEF InItself
<1> DEFINE S == {x \in Around(d) : d \in Around(x)}
<1>2. d \in S /\ S \in SUBSET Address
  BY <1>1, AroundSelf
<1>3. ASSUME NEW x \in S \cap Folder PROVE parent[x] \in S
  <2>1. parent[x] \in Around(d)
    BY <1>3, AroundUpward DEF Upward
  <2>2. d = x \/ d \in Around(parent[x])
    BY <1>3, AroundIs
  <2> QED
    BY <1>1, <2>1, <2>2
<1>4. Upward(S)
  BY <1>3 DEF Upward
<1>5. d \in Around(t)
  BY <1>2, <1>4, AroundLeast
<1>6. CASE t = d
  BY <1>6
<1>7. CASE t # d
  <2>1. t \in Folder
    <3>1. t \in Address
      BY DEF Around
    <3>2. ASSUME t \notin Folder PROVE FALSE
      <4>1. Upward({t})
        BY <3>2 DEF Upward
      <4>2. Around(t) \subseteq {t}
        BY <3>1, <4>1, AroundLeast
      <4> QED
        BY <1>5, <1>7, <4>2
    <3> QED
      BY <3>2
  <2>2. d \in Around(parent[t])
    BY <1>5, <1>7, <2>1, AroundIs
  <2>3. t \in Around(parent[t])
    BY <2>2, AroundAgain
  <2> QED
    BY <2>1, <2>3 DEF InItself
<1> QED
  BY <1>6, <1>7

LEMMA LoopStays ==
    ASSUME TypeOK, [Next]_vars, NEW d, InItself(d)
    PROVE  InItself(d)'
BY FoldersStay, AroundGrows DEF InItself
-----------------------------------------------------------------------------
\* Where the two walks of handleFolderDelete are.  The second begins when the
\* first is over, with the target; what it has still to visit is within a folder
\* that waits for it.
WalkOK ==
    /\ erasing # {} => emptying = {} /\ closing = {}
    /\ \A c \in emptying :
          \/ closing = {} /\ emptying = {c}
          \/ c \in Folder /\ parent[c] \in closing

\* An upload that has been written has a path.
UploadOK == upload # NoUpload => upload.path # NoPath

\* A folder that was put under an id given out before is younger than it.
EarlyOK == \A d \in Folder \ early : parent[d] < d

ArchiveInv == TypeOK /\ WalkOK /\ UploadOK /\ EarlyOK

LEMMA ArchiveStarts == Init => ArchiveInv
<1> SUFFICES ASSUME Init PROVE ArchiveInv
  OBVIOUS
<1>1. lastFolder = 0 /\ lastFile = 0 /\ lastPath = 0 /\ stops = 0
  BY DEF Init
<1>2. /\ parent = [f \in {} |-> f] /\ home = [f \in {} |-> f]
      /\ path = [f \in {} |-> f] /\ 1..0 = {} /\ Folder = {}
  BY <1>1 DEF Init, Folder
<1>3. upload \in [path : 0..lastPath, folder : Address]
  BY <1>1, AddressIs DEF Init, NoUpload, NoPath
<1>4. TypeOK
  BY <1>1, <1>2, <1>3, BoundAssumption DEF Init, TypeOK, NoFile
<1>5. WalkOK /\ UploadOK
  BY DEF Init, WalkOK, UploadOK
<1> QED
  BY <1>2, <1>4, <1>5 DEF ArchiveInv, EarlyOK

LEMMA TypeOKStays ==
    ASSUME ArchiveInv, [Next]_vars
    PROVE  TypeOK'
<1> USE BoundAssumption
<1>a. TypeOK /\ WalkOK /\ UploadOK
  BY DEF ArchiveInv
<1>b. /\ lastFolder \in Nat /\ lastFile \in Nat /\ lastPath \in Nat
      /\ stops \in Nat
  BY <1>a DEF TypeOK
<1>c. Root \in Address /\ Folder \subseteq Address
  BY <1>a, AddressIs, FolderIs
<1>1. ASSUME NEW d \in Address, FolderCreate(d) PROVE TypeOK'
  <2>1. /\ lastFolder' = lastFolder + 1 /\ lastFolder < MaxFolder
        /\ parent' = Put(parent, lastFolder + 1, d)
        /\ folders' = folders \cup {lastFolder + 1}
        /\ early' \subseteq early \cup {lastFolder + 1}
        /\ UNCHANGED <<fileTable, uploads, handlers, stops>>
    BY <1>1 DEF FolderCreate, NextFolderId
  <2>2. parent \in [1..lastFolder -> Address]
    BY <1>a DEF TypeOK, Folder
  <2>3. parent' \in [Folder' -> Address]
    BY <1>b, <2>1, <2>2, PutRow DEF Folder
  <2>4. Folder \subseteq Folder' /\ lastFolder + 1 \in Folder'
    BY <1>b, <2>1 DEF Folder
  <2>5. folders' \subseteq Folder' /\ early' \subseteq Folder'
    BY <1>a, <2>1, <2>4 DEF TypeOK
  <2>6. lastFolder' \in 0..MaxFolder
    BY <1>b, <2>1
  <2>7. UNCHANGED <<home, path, files, lastFile, disk, lastPath, upload, removing,
                    target, erasing, emptying, closing, resetting, stops>>
    BY <2>1 DEF fileTable, uploads, handlers, folderDelete
  <2> QED
    BY <1>a, <2>3, <2>5, <2>6, <2>7 DEF TypeOK
<1>2. ASSUME NEW d \in Address, WriteUpload(d) PROVE TypeOK'
  <2>1. /\ lastPath' = lastPath + 1 /\ lastPath < MaxPath
        /\ disk' = disk \cup {lastPath + 1}
        /\ upload' \in {NoUpload, [path |-> lastPath + 1, folder |-> d]}
        /\ UNCHANGED <<folderTable, fileTable, removing, folderDelete, resetting>>
        /\ UNCHANGED stops
    BY <1>2 DEF WriteUpload
  <2>2. upload' \in [path : 0..lastPath', folder : Address]
    BY <1>b, <1>c, <2>1 DEF NoUpload, NoPath
  <2>3. path' \in [1..lastFile' -> 1..lastPath']
    <3>1. 1..lastPath \subseteq 1..(lastPath + 1)
      BY <1>b
    <3> QED
      BY <1>a, <2>1, <3>1 DEF TypeOK, fileTable
  <2>4. lastPath' \in 0..MaxPath /\ disk' \subseteq 1..lastPath'
    <3>1. \A p \in 1..lastPath : p \in 1..(lastPath + 1)
      BY <1>b
    <3>2. lastPath + 1 \in 1..(lastPath + 1) /\ lastPath + 1 \in 0..MaxPath
      BY <1>b, <2>1
    <3> QED
      BY <1>a, <2>1, <3>1, <3>2 DEF TypeOK
  <2>5. UNCHANGED <<parent, folders, lastFolder, early, home, files, lastFile,
                    removing, target, erasing, emptying, closing, resetting, stops>>
    BY <2>1 DEF folderTable, fileTable, folderDelete
  <2> QED
    BY <1>a, <2>2, <2>3, <2>4, <2>5 DEF TypeOK, Folder
<1>3. CASE CreateMediaFile
  <2>1. /\ upload # NoUpload /\ lastFile < MaxFile /\ lastFile' = lastFile + 1
        /\ home' = Put(home, lastFile + 1, upload.folder)
        /\ path' = Put(path, lastFile + 1, upload.path)
        /\ files' = files \cup {lastFile + 1}
        /\ upload' = NoUpload
        /\ UNCHANGED <<folderTable, uploads, removing, folderDelete, resetting>>
        /\ UNCHANGED stops
    BY <1>3 DEF CreateMediaFile, NextFileId
  <2>2. upload.folder \in Address
    BY <1>a DEF TypeOK
  <2>3. home' \in [1..lastFile' -> Address]
    BY <1>a, <1>b, <2>1, <2>2, PutRow DEF TypeOK
  <2>4. upload.path \in 1..lastPath
    BY <1>a, <1>b, <2>1 DEF TypeOK, UploadOK, NoPath
  <2>5. path' \in [1..lastFile' -> 1..lastPath']
    BY <1>a, <1>b, <2>1, <2>4, PutRow DEF TypeOK, uploads
  <2>6. upload' \in [path : 0..lastPath', folder : Address]
    BY <1>b, <1>c, <2>1 DEF NoUpload, NoPath, uploads
  <2>7. /\ lastFile' \in 0..MaxFile /\ files' \subseteq 1..lastFile'
        /\ removing' \in 0..lastFile'
    <3>1. \A f \in 0..lastFile : f \in 0..(lastFile + 1)
      BY <1>b
    <3>2. \A f \in 1..lastFile : f \in 1..(lastFile + 1)
      BY <1>b
    <3>3. lastFile + 1 \in 1..(lastFile + 1) /\ lastFile + 1 \in 0..MaxFile
      BY <1>b, <2>1
    <3> QED
      BY <1>a, <2>1, <3>1, <3>2, <3>3 DEF TypeOK
  <2>8. UNCHANGED <<parent, folders, lastFolder, early, disk, lastPath, target,
                    erasing, emptying, closing, resetting, stops>>
    BY <2>1 DEF folderTable, uploads, folderDelete
  <2> QED
    BY <1>a, <2>3, <2>5, <2>6, <2>7, <2>8 DEF TypeOK, Folder
<1>4. ASSUME UNCHANGED <<folderTable, home, path, lastFile, lastPath>>,
             UNCHANGED <<folderDelete, resetting, stops>>,
             files' \subseteq files, disk' \subseteq disk,
             upload' \in {upload, NoUpload}, removing' \in {removing, NoFile} \cup files
      PROVE  TypeOK'
  <2>1. NoUpload \in [path : 0..lastPath, folder : Address]
    BY <1>b, <1>c DEF NoUpload, NoPath
  <2>2. removing' \in 0..lastFile
    BY <1>a, <1>b, <1>4 DEF TypeOK, NoFile
  <2> QED
    BY <1>a, <1>4, <2>1, <2>2 DEF TypeOK, Folder, folderTable, folderDelete
<1>5. CASE UploadFails \/ RemoveRow \/ \E f \in files : RemoveBytes(f)
  BY <1>4, <1>5
  DEF UploadFails, RemoveRow, RemoveBytes, fileTable, uploads
<1>6. ASSUME NEW t \in Address \cup {NoFolder},
             target' = t,
             erasing' \cup emptying' \cup closing' \subseteq Address,
             t = NoFolder => erasing' \cup emptying' \cup closing' = {},
             files' \subseteq files, disk' \subseteq disk, folders' \subseteq folders,
             UNCHANGED <<parent, lastFolder, early, home, path, lastFile, lastPath>>,
             UNCHANGED <<upload, removing, resetting, stops>>
      PROVE  TypeOK'
  BY <1>a, <1>6 DEF TypeOK, Folder
<1>7. ASSUME NEW d \in Address \ {Root}, FolderDelete(d) PROVE TypeOK'
  <2>1. /\ target = NoFolder /\ target' = d /\ erasing' = {d}
        /\ UNCHANGED <<emptying, closing>>
        /\ UNCHANGED <<folderTable, fileTable, uploads, upload, removing>>
        /\ UNCHANGED <<resetting, stops>>
    BY <1>7 DEF FolderDelete
  <2>2. erasing' \cup emptying' \cup closing' \subseteq Address
    BY <1>a, <2>1 DEF TypeOK
  <2> QED
    BY <1>6, <2>1, <2>2, AddressIs DEF folderTable, fileTable, uploads
<1>8. ASSUME NEW d \in Address, NEW within \in Within(d)
      PROVE  within \subseteq Address
  BY <1>a, <1>c DEF TypeOK, Within, FoldersIn
<1>9. ASSUME NEW d \in Address, NEW within \in Within(d), EraseFolder(d, within)
      PROVE  TypeOK'
  <2>1. /\ d \in erasing /\ target' = target /\ closing' = closing
        /\ erasing' = (erasing \ {d}) \cup within
        /\ emptying' = IF erasing' = {} THEN {target} ELSE {}
        /\ disk' \subseteq disk /\ UNCHANGED lastPath
        /\ UNCHANGED <<folderTable, fileTable, upload, removing, resetting, stops>>
    BY <1>9 DEF EraseFolder
  <2>2. target # NoFolder /\ target \in Address
    BY <1>a, <2>1 DEF TypeOK
  <2>3. erasing' \cup emptying' \cup closing' \subseteq Address
    BY <1>a, <1>8, <2>1, <2>2 DEF TypeOK
  <2> QED
    BY <1>6, <2>1, <2>2, <2>3 DEF folderTable, fileTable
<1>10. ASSUME NEW d \in Address, NEW within \in Within(d), EmptyFolder(d, within)
       PROVE  TypeOK'
  <2>1. /\ d \in emptying /\ target' = target /\ erasing' = erasing
        /\ emptying' = (emptying \ {d}) \cup within
        /\ closing' = closing \cup {d}
        /\ files' \subseteq files /\ UNCHANGED <<home, path, lastFile>>
        /\ UNCHANGED <<folderTable, uploads, upload, removing, resetting, stops>>
    BY <1>10 DEF EmptyFolder
  <2>2. target # NoFolder /\ target \in Address
    BY <1>a, <2>1 DEF TypeOK
  <2>3. erasing' \cup emptying' \cup closing' \subseteq Address
    BY <1>a, <1>8, <2>1, <2>2 DEF TypeOK
  <2> QED
    BY <1>6, <2>1, <2>2, <2>3 DEF folderTable, uploads
<1>11. ASSUME NEW d \in Address, CloseFolder(d) PROVE TypeOK'
  <2>1. /\ d \in closing /\ NoneWithin(d) /\ closing' = closing \ {d}
        /\ target' = IF closing' = {} THEN NoFolder ELSE target
        /\ folders' \subseteq folders
        /\ UNCHANGED <<parent, lastFolder, early, erasing, emptying>>
        /\ UNCHANGED <<fileTable, uploads, upload, removing, resetting, stops>>
    BY <1>11 DEF CloseFolder
  <2>2. erasing = {} /\ target # NoFolder
    BY <1>a, <2>1 DEF WalkOK, TypeOK
  <2>3. ASSUME closing' = {} PROVE emptying = {}
    <3>1. closing = {d}
      BY <2>1, <2>3
    <3>2. \A c \in emptying : c \in Folder /\ parent[c] = d
      BY <1>a, <3>1 DEF WalkOK
    <3> QED
      BY <2>1, <3>2 DEF NoneWithin
  <2>4. erasing' \cup emptying' \cup closing' \subseteq Address
    BY <1>a, <2>1 DEF TypeOK
  <2>5. target' \in Address \cup {NoFolder}
    BY <1>a, <2>1 DEF TypeOK
  <2>6. target' = NoFolder => erasing' \cup emptying' \cup closing' = {}
    BY <2>1, <2>2, <2>3
  <2> QED
    BY <1>6, <2>1, <2>4, <2>5, <2>6 DEF fileTable, uploads
<1>12. ASSUME NEW d \in Address, CloseInner(d) PROVE TypeOK'
  BY <1>a, <1>6, <1>12
  DEF TypeOK, CloseInner, folderDelete, fileTable, uploads
<1>13. CASE ResetFolders \/ ResetFiles \/ ResetUploads \/ ResetFails
  <2>1. /\ folders' \subseteq folders /\ files' \subseteq files
        /\ disk' \subseteq disk /\ resetting' \in {"idle", "files", "uploads"}
        /\ UNCHANGED <<parent, lastFolder, early, home, path, lastFile, lastPath>>
        /\ UNCHANGED <<upload, removing, folderDelete>>
    BY <1>13
    DEF ResetFolders, ResetFiles, ResetUploads, ResetFails, folderTable,
        fileTable, uploads
  <2>2. stops' \in 0..MaxStops
    <3>1. CASE ResetFolders
      BY <1>a, <1>b, <3>1 DEF ResetFolders, TypeOK
    <3>2. CASE ResetFiles \/ ResetUploads \/ ResetFails
      BY <1>a, <3>2 DEF ResetFiles, ResetUploads, ResetFails, TypeOK
    <3> QED
      BY <1>13, <3>1, <3>2
  <2> QED
    BY <1>a, <2>1, <2>2 DEF TypeOK, Folder, folderDelete
<1>14. CASE Restart
  <2>1. /\ upload' \in [path : 0..lastPath, folder : Address]
        /\ removing' \in 0..lastFile /\ target' = NoFolder
    BY <1>b, <1>c, <1>14 DEF Restart, NoUpload, NoFile, NoPath
  <2>2. stops' \in 0..MaxStops
    BY <1>b, <1>14 DEF Restart
  <2>3. /\ erasing' = {} /\ emptying' = {} /\ closing' = {}
        /\ resetting' = "idle"
        /\ UNCHANGED <<lastFolder, folders, parent, early, lastFile, files, home,
                      path, lastPath, disk>>
    BY <1>14 DEF Restart, folderTable, fileTable, uploads
  <2> QED
    BY <1>a, <2>1, <2>2, <2>3 DEF TypeOK, Folder
<1>15. CASE (\E d \in Address \ {Root} : FolderRename(d)) \/ UNCHANGED vars
  BY <1>a, <1>15
  DEF TypeOK, FolderRename, Folder, vars, folderTable, fileTable, uploads,
      handlers, folderDelete
<1> QED
  BY <1>1, <1>2, <1>3, <1>5, <1>7, <1>9, <1>10, <1>11, <1>12, <1>13, <1>14, <1>15
  DEF Next, DeleteStep

LEMMA WalkStays ==
    ASSUME ArchiveInv, [Next]_vars
    PROVE  WalkOK'
<1>a. TypeOK /\ WalkOK
  BY DEF ArchiveInv
<1>b. \A c \in Folder : c \in Folder' /\ parent'[c] = parent[c]
  BY <1>a, FoldersStay
<1>1. ASSUME UNCHANGED folderDelete PROVE WalkOK'
  BY <1>a, <1>b, <1>1 DEF WalkOK, folderDelete
<1>2. ASSUME NEW d, FolderDelete(d) PROVE WalkOK'
  BY <1>a, <1>2 DEF WalkOK, TypeOK, FolderDelete
<1>3. ASSUME NEW d, NEW within, EraseFolder(d, within) PROVE WalkOK'
  <2>1. emptying = {} /\ closing = {} /\ closing' = {}
    BY <1>a, <1>3 DEF WalkOK, EraseFolder
  <2>2. emptying' = IF erasing' = {} THEN {target} ELSE {}
    BY <1>3 DEF EraseFolder
  <2> QED
    BY <2>1, <2>2 DEF WalkOK
<1>4. ASSUME NEW d, NEW within \in Within(d), EmptyFolder(d, within) PROVE WalkOK'
  <2>1. /\ d \in emptying /\ erasing' = erasing
        /\ emptying' = (emptying \ {d}) \cup within
        /\ closing' = closing \cup {d}
    BY <1>4 DEF EmptyFolder
  <2>2. erasing' = {}
    BY <1>a, <2>1 DEF WalkOK
  <2>3. ASSUME NEW c \in within PROVE c \in Folder /\ parent[c] = d
    BY <1>a, <2>3 DEF Within, FoldersIn, TypeOK
  <2>4. ASSUME NEW c \in emptying \ {d} PROVE c \in Folder /\ parent[c] \in closing
    BY <1>a, <2>1, <2>4 DEF WalkOK
  <2>5. ASSUME NEW c \in emptying' PROVE c \in Folder' /\ parent'[c] \in closing'
    <3>1. CASE c \in within
      BY <1>b, <2>1, <2>3, <3>1
    <3>2. CASE c \in emptying \ {d}
      BY <1>b, <2>1, <2>4, <3>2
    <3> QED
      BY <2>1, <2>5, <3>1, <3>2
  <2> QED
    BY <2>2, <2>5 DEF WalkOK
<1>5. ASSUME NEW d, CloseFolder(d) PROVE WalkOK'
  <2>1. /\ d \in closing /\ NoneWithin(d) /\ closing' = closing \ {d}
        /\ UNCHANGED <<erasing, emptying, parent, lastFolder>>
    BY <1>5 DEF CloseFolder
  <2>2. erasing' = {}
    BY <1>a, <2>1 DEF WalkOK
  <2>3. ASSUME NEW c \in emptying PROVE c \in Folder' /\ parent'[c] \in closing'
    <3>1. c \in Folder /\ parent[c] \in closing
      BY <1>a, <2>1, <2>3 DEF WalkOK
    <3>2. parent[c] # d
      BY <2>1, <2>3, <3>1 DEF NoneWithin
    <3> QED
      BY <1>b, <2>1, <3>1, <3>2
  <2> QED
    BY <2>1, <2>2, <2>3 DEF WalkOK
<1>6. CASE Restart
  BY <1>6 DEF WalkOK, Restart
<1>7. ASSUME ~\E d \in Address : FolderDelete(d) \/ CloseFolder(d),
             ~\E d \in Address : \E within \in Within(d) :
                 EraseFolder(d, within) \/ EmptyFolder(d, within),
             ~Restart
      PROVE  UNCHANGED folderDelete
  BY <1>7
  DEF Next, DeleteStep, FolderCreate, WriteUpload, CreateMediaFile, UploadFails,
      RemoveRow, RemoveBytes, FolderRename, CloseInner, ResetFolders, ResetFiles,
      ResetUploads, ResetFails, vars, handlers
<1> QED
  BY <1>1, <1>2, <1>3, <1>4, <1>5, <1>6, <1>7

LEMMA UploadStays ==
    ASSUME ArchiveInv, [Next]_vars
    PROVE  UploadOK'
<1>a. lastPath \in Nat /\ UploadOK
  BY BoundAssumption DEF ArchiveInv, TypeOK
<1>1. ASSUME NEW d \in Address, WriteUpload(d) PROVE UploadOK'
  <2>1. upload' = NoUpload \/ upload'.path = lastPath + 1
    BY <1>1 DEF WriteUpload
  <2> QED
    BY <1>a, <2>1 DEF UploadOK, NoPath
<1>2. ASSUME upload' \in {upload, NoUpload} PROVE UploadOK'
  BY <1>a, <1>2 DEF UploadOK
<1>3. ASSUME ~\E d \in Address : WriteUpload(d)
      PROVE  upload' \in {upload, NoUpload}
  BY <1>3
  DEF Next, DeleteStep, FolderCreate, CreateMediaFile, UploadFails, RemoveBytes,
      RemoveRow, FolderRename, FolderDelete, EraseFolder, EmptyFolder, CloseFolder,
      CloseInner, ResetFolders, ResetFiles, ResetUploads, ResetFails, Restart, vars,
      handlers, folderDelete
<1> QED
  BY <1>1, <1>2, <1>3

LEMMA EarlyStays ==
    ASSUME ArchiveInv, [Next]_vars
    PROVE  EarlyOK'
<1>a. TypeOK /\ EarlyOK
  BY DEF ArchiveInv
<1>1. ASSUME NEW d \in Address, FolderCreate(d) PROVE EarlyOK'
  <2>1. /\ lastFolder' = lastFolder + 1
        /\ parent' = Put(parent, lastFolder + 1, d)
        /\ early' = IF d \in Folder \cup {Root} THEN early \ {lastFolder + 1}
                    ELSE early \cup {lastFolder + 1}
    BY <1>1 DEF FolderCreate, NextFolderId
  <2>2. lastFolder \in Nat /\ lastFolder + 1 \notin Folder
    BY <1>a, FolderIs
  <2> SUFFICES ASSUME NEW c \in Folder', c \notin early' PROVE parent'[c] < c
    BY DEF EarlyOK
  <2>3. CASE c = lastFolder + 1
    <3>1. d \in Folder \cup {Root} /\ parent'[c] = d
      BY <2>1, <2>3 DEF Put
    <3>2. d \in 0..lastFolder
      BY <2>2, <3>1 DEF Folder, Root
    <3> QED
      BY <2>2, <2>3, <3>1, <3>2
  <2>4. CASE c # lastFolder + 1
    <3>1. c \in Folder
      BY <2>1, <2>2, <2>4 DEF Folder
    <3>2. c \notin early
      BY <2>1, <2>4
    <3>3. parent'[c] = parent[c]
      BY <1>a, <3>1, FoldersStay
    <3> QED
      BY <1>a, <3>1, <3>2, <3>3 DEF EarlyOK
  <2> QED
    BY <2>3, <2>4
<1>2. ASSUME UNCHANGED <<parent, lastFolder, early>> PROVE EarlyOK'
  BY <1>a, <1>2 DEF EarlyOK, Folder
<1>3. ASSUME ~\E d \in Address : FolderCreate(d)
      PROVE  UNCHANGED <<parent, lastFolder, early>>
  BY <1>3
  DEF Next, DeleteStep, WriteUpload, CreateMediaFile, UploadFails, RemoveBytes,
      RemoveRow, FolderRename, FolderDelete, EraseFolder, EmptyFolder, CloseFolder,
      CloseInner, ResetFolders, ResetFiles, ResetUploads, ResetFails, Restart, vars,
      folderTable
<1> QED
  BY <1>1, <1>2, <1>3

LEMMA ArchiveStays == ArchiveInv /\ [Next]_vars => ArchiveInv'
BY TypeOKStays, WalkStays, UploadStays, EarlyStays DEF ArchiveInv

THEOREM ArchiveInvariance == Spec => []ArchiveInv
BY ArchiveStarts, ArchiveStays, PTL DEF Spec

\* Every reachable state of the archive is well typed.  That includes that the
\* walks of handleFolderDelete have nothing left to visit when it has returned.
THEOREM TypeCorrect == Spec => []TypeOK
<1>1. ArchiveInv => TypeOK
  BY DEF ArchiveInv
<1> QED
  BY <1>1, ArchiveInvariance, PTL

\* However many folders there are and from whatever stale, future or deleted page
\* they are created: a folder is inside itself only if one of those on the way
\* round was put under an id that had not been given out.  Without one, parent ids
\* fall on every step upwards: what is around a folder is no younger than it.
THEOREM LoopsAreEarly == Spec => []OnlyEarlyLoop
<1>1. ASSUME ArchiveInv, NEW d \in Folder, InItself(d), Around(d) \cap early = {}
      PROVE  FALSE
  <2>1. TypeOK /\ EarlyOK
    BY <1>1 DEF ArchiveInv
  <2>2. Around(d) = {d} \cup Around(parent[d])
    BY <2>1, AroundIs
  <2>a. /\ parent[d] \in Address /\ d \in Nat /\ parent[d] \in Nat
    BY <2>1, AddressIs, FolderIs
  <2> DEFINE S == {x \in Around(parent[d]) : x <= parent[d]}
  <2>3. parent[d] \in S /\ S \in SUBSET Address
    <3>1. /\ parent[d] \in Around(parent[d])
          /\ Around(parent[d]) \in SUBSET Address
      BY <2>a, AroundSelf
    <3> QED
      BY <2>a, <3>1
  <2>4. ASSUME NEW c \in S, c \in Folder PROVE parent[c] \in S
    <3>1. parent[c] \in Around(parent[d])
      BY <2>1, <2>4, AroundUpward DEF Upward
    <3>2. c \notin early
      BY <1>1, <2>2, <2>4
    <3>3. parent[c] < c /\ c <= parent[d]
      BY <2>1, <2>4, <3>2 DEF EarlyOK
    <3>4. parent[c] \in Nat /\ c \in Nat /\ parent[d] \in Nat
      BY <2>1, <2>a, <2>4, AddressIs, FolderIs
    <3> QED
      BY <3>1, <3>3, <3>4
  <2> HIDE DEF S
  <2>5. Upward(S)
    BY <2>4 DEF Upward
  <2>6. d \in S
    BY <1>1, <2>3, <2>5, AroundLeast DEF InItself
  <2>7. d <= parent[d]
    BY <2>6 DEF S
  <2>8. d \in Around(d)
    BY <2>2
  <2>9. parent[d] < d
    BY <1>1, <2>1, <2>8 DEF EarlyOK
  <2> QED
    BY <2>a, <2>7, <2>9
<1>2. ArchiveInv => OnlyEarlyLoop
  BY <1>1 DEF OnlyEarlyLoop
<1> QED
  BY <1>2, ArchiveInvariance, PTL

-----------------------------------------------------------------------------
\* The archive seen from the scheduler.
Bytes == {f \in 1..lastFile : path[f] \in disk}

LEMMA MediaSteps ==
    ASSUME ArchiveInv, [Next]_vars
    PROVE  [ToScheduler!MediaNext]_(ToScheduler!media)
<1> USE DEF ToScheduler!media
<1>a. /\ TypeOK /\ UploadOK
      /\ lastFile \in Nat /\ lastPath \in Nat
  <2>1. TypeOK /\ UploadOK
    BY DEF ArchiveInv
  <2>2. lastFile \in 0..MaxFile /\ lastPath \in 0..MaxPath
    BY <2>1 DEF TypeOK
  <2> QED
    BY <2>1, <2>2, BoundAssumption
<1>b. path \in [1..lastFile -> 1..lastPath]
  BY <1>a DEF TypeOK
<1>1. ASSUME UNCHANGED <<path, lastFile, disk>>, files' \subseteq files
      PROVE  ToScheduler!MediaNext
  <2>1. files \ files' \in SUBSET files /\ files' = files \ (files \ files')
    BY <1>1
  <2>2. ToScheduler!Forget(files \ files')
    BY <1>1, <2>1 DEF ToScheduler!Forget
  <2> QED
    BY <2>1, <2>2 DEF ToScheduler!MediaNext
<1>2. ASSUME UNCHANGED <<path, lastFile, files>>, disk' \subseteq disk
      PROVE  ToScheduler!MediaNext
  <2>1. PICK gone \in SUBSET Bytes : Bytes' = Bytes \ gone
    <3>1. Bytes' \subseteq Bytes
      BY <1>2 DEF Bytes
    <3>2. Bytes \ Bytes' \in SUBSET Bytes /\ Bytes' = Bytes \ (Bytes \ Bytes')
      BY <3>1
    <3> QED
      BY <3>2
  <2>2. ToScheduler!Erase(gone)
    BY <1>2, <2>1 DEF ToScheduler!Erase, Bytes
  <2> QED
    BY <2>2 DEF ToScheduler!MediaNext, Bytes
<1>3. CASE CreateMediaFile
  <2>1. /\ lastFile < MaxFile /\ lastFile' = lastFile + 1
        /\ files' = files \cup {lastFile + 1} /\ disk' = disk
        /\ path' = Put(path, lastFile + 1, upload.path) /\ upload # NoUpload
    BY <1>3 DEF CreateMediaFile, NextFileId, uploads
  <2>2. upload.path \in 1..lastPath
    BY <1>a, <2>1 DEF TypeOK, UploadOK, NoPath
  <2>3. \A f \in 1..lastFile : path'[f] = path[f]
    <3> TAKE f \in 1..lastFile
    <3>1. f \in DOMAIN path /\ f # lastFile + 1
      BY <1>a, <1>b
    <3> QED
      BY <2>1, <3>1 DEF Put
  <2>4. Bytes' \in {Bytes, Bytes \cup {lastFile + 1}}
    <3>1. \A f \in 1..(lastFile + 1) : f \in 1..lastFile \/ f = lastFile + 1
      BY <1>a
    <3>2. 1..lastFile \subseteq 1..(lastFile + 1) /\ lastFile + 1 \notin 1..lastFile
          /\ lastFile + 1 \in 1..(lastFile + 1)
      BY <1>a
    <3>3. CASE path'[lastFile + 1] \in disk
      BY <2>1, <2>3, <3>1, <3>2, <3>3 DEF Bytes
    <3>4. CASE path'[lastFile + 1] \notin disk
      BY <2>1, <2>3, <3>1, <3>2, <3>4 DEF Bytes
    <3> QED
      BY <3>3, <3>4
  <2>5. ToScheduler!Appear
    BY <2>1, <2>4 DEF ToScheduler!Appear, Bytes
  <2> QED
    BY <2>5 DEF ToScheduler!MediaNext
\* The path of an upload is one no row has.
<1>4. ASSUME NEW d \in Address, WriteUpload(d)
      PROVE  UNCHANGED ToScheduler!media
  <2>1. /\ disk' = disk \cup {lastPath + 1}
        /\ UNCHANGED <<files, path, lastFile>>
    BY <1>4 DEF WriteUpload, fileTable
  <2>2. \A f \in 1..lastFile : path[f] # lastPath + 1
    BY <1>a, <1>b
  <2>3. Bytes' = Bytes
    BY <2>1, <2>2 DEF Bytes
  <2> QED
    BY <2>1, <2>3 DEF Bytes
<1>5. CASE RemoveRow \/ ResetFiles
  <2>1. UNCHANGED <<path, lastFile, disk>> /\ files' \subseteq files
    BY <1>5 DEF RemoveRow, ResetFiles, uploads
  <2> QED
    BY <1>1, <2>1
<1>6. ASSUME NEW d, NEW within, EmptyFolder(d, within) PROVE ToScheduler!MediaNext
  <2>1. UNCHANGED <<path, lastFile, disk>> /\ files' \subseteq files
    BY <1>6 DEF EmptyFolder, uploads
  <2> QED
    BY <1>1, <2>1
<1>7. CASE UploadFails \/ ResetUploads \/ \E f \in files : RemoveBytes(f)
  <2>1. UNCHANGED <<path, lastFile, files>> /\ disk' \subseteq disk
    BY <1>7 DEF UploadFails, ResetUploads, RemoveBytes, fileTable
  <2> QED
    BY <1>2, <2>1
<1>8. ASSUME NEW d, NEW within, EraseFolder(d, within) PROVE ToScheduler!MediaNext
  <2>1. UNCHANGED <<path, lastFile, files>> /\ disk' \subseteq disk
    BY <1>8 DEF EraseFolder, fileTable
  <2> QED
    BY <1>2, <2>1
<1>9. ASSUME \/ \E d \in Address : \/ FolderCreate(d) \/ FolderRename(d)
                                \/ FolderDelete(d)
                                \/ CloseFolder(d) \/ CloseInner(d)
             \/ ResetFolders \/ ResetFails \/ Restart \/ UNCHANGED vars
      PROVE  UNCHANGED ToScheduler!media
  <2>1. UNCHANGED <<path, lastFile, files, disk>>
    BY <1>9
    DEF FolderCreate, FolderRename, FolderDelete, CloseFolder, CloseInner,
        ResetFolders, ResetFails, Restart, vars, fileTable, uploads
  <2> QED
    BY <2>1
<1> QED
  BY <1>3, <1>4, <1>5, <1>6, <1>7, <1>8, <1>9 DEF Next, DeleteStep

\* The archive is what the scheduler and the direct sends take it for, whatever
\* the numbers of folders, files, uploads, resets and restarts: a file appears
\* under a fresh id, and neither its row nor its bytes ever come back.
THEOREM MediaKept == Spec => ImplementsMedia
<1>1. Init => ToScheduler!MediaInit
  <2> SUFFICES ASSUME Init PROVE ToScheduler!MediaInit
    OBVIOUS
  <2>1. lastFile = 0 /\ files = {} /\ disk = {}
    BY DEF Init
  <2> QED
    BY <2>1 DEF ToScheduler!MediaInit
<1>2. ArchiveInv /\ [Next]_vars => [ToScheduler!MediaNext]_(ToScheduler!media)
  BY MediaSteps
<1> QED
  BY <1>1, <1>2, ArchiveInvariance, PTL DEF Spec, ImplementsMedia,
     ToScheduler!MediaSpec

-----------------------------------------------------------------------------
\* The walks stay within what the deletion was asked for.
Asked == \A d \in erasing \cup emptying \cup closing : target \in Around(d)

\* No two rows have ever had one path, nor does a row have that of an upload.
PathsOwn ==
    /\ \A f, g \in 1..lastFile : path[f] = path[g] => f = g
    /\ upload # NoUpload => \A f \in 1..lastFile : path[f] # upload.path

LEMMA WithinAsked ==
    ASSUME TypeOK, Asked, NEW d \in erasing \cup emptying,
           NEW within \in Within(d), NEW c \in within
    PROVE  target \in Around(c)
<1>1. c \in Folder /\ parent[c] = d
  BY DEF TypeOK, Within, FoldersIn
<1>2. Around(c) = {c} \cup Around(d)
  BY <1>1, AroundIs
<1> QED
  BY <1>2 DEF Asked

LEMMA AskedStays ==
    ASSUME ArchiveInv, Asked, [Next]_vars
    PROVE  Asked'
<1>a. TypeOK
  BY DEF ArchiveInv
<1>b. \A d : Around(d) \subseteq Around(d)'
  BY <1>a, AroundGrows
<1>1. ASSUME target' = target,
             \A c \in erasing' \cup emptying' \cup closing' : target \in Around(c)
      PROVE  Asked'
  BY <1>b, <1>1 DEF Asked
<1>2. ASSUME UNCHANGED folderDelete PROVE Asked'
  BY <1>1, <1>2 DEF Asked, folderDelete
<1>3. ASSUME NEW d \in Address, FolderDelete(d) PROVE Asked'
  <2>1. /\ target' = d /\ erasing' = {d} /\ emptying' = {} /\ closing' = {}
    BY <1>a, <1>3 DEF FolderDelete, TypeOK
  <2>2. d \in Around(d)'
    BY <1>b, AroundSelf
  <2> QED
    BY <2>1, <2>2 DEF Asked
<1>4. ASSUME NEW d, NEW within \in Within(d), EraseFolder(d, within) PROVE Asked'
  <2>1. /\ d \in erasing /\ UNCHANGED <<target, closing>>
        /\ erasing' = (erasing \ {d}) \cup within
        /\ emptying' \subseteq {target}
    BY <1>4 DEF EraseFolder
  <2>2. target \in Around(target)
    BY <1>a, <2>1, AroundSelf DEF TypeOK
  <2>3. \A c \in within : target \in Around(c)
    BY <1>a, <2>1, WithinAsked
  <2> QED
    BY <1>1, <2>1, <2>2, <2>3 DEF Asked
<1>5. ASSUME NEW d, NEW within \in Within(d), EmptyFolder(d, within) PROVE Asked'
  <2>1. /\ d \in emptying /\ UNCHANGED <<target, erasing>>
        /\ emptying' = (emptying \ {d}) \cup within
        /\ closing' = closing \cup {d}
    BY <1>5 DEF EmptyFolder
  <2>2. \A c \in within : target \in Around(c)
    BY <1>a, <2>1, WithinAsked
  <2> QED
    BY <1>1, <2>1, <2>2 DEF Asked
<1>6. ASSUME NEW d, CloseFolder(d) PROVE Asked'
  <2>1. /\ closing' = closing \ {d} /\ UNCHANGED <<erasing, emptying>>
        /\ target' = IF closing' = {} THEN NoFolder ELSE target
    BY <1>6 DEF CloseFolder
  <2>2. CASE closing' # {}
    BY <1>1, <2>1, <2>2 DEF Asked
  <2>3. CASE closing' = {}
    <3>1. target' = NoFolder
      BY <2>1, <2>3
    <3>2. erasing' \cup emptying' \cup closing' = {}
      BY <3>1, TypeOKStays DEF TypeOK
    <3> QED
      BY <3>2 DEF Asked
  <2> QED
    BY <2>2, <2>3
<1>7. CASE Restart
  BY <1>7 DEF Restart, Asked
<1>8. ASSUME ~\E d \in Address : FolderDelete(d) \/ CloseFolder(d),
             ~\E d \in Address : \E within \in Within(d) :
                 EraseFolder(d, within) \/ EmptyFolder(d, within),
             ~Restart
      PROVE  UNCHANGED folderDelete
  BY <1>8
  DEF Next, DeleteStep, FolderCreate, WriteUpload, CreateMediaFile, UploadFails,
      RemoveRow, RemoveBytes, FolderRename, CloseInner, ResetFolders, ResetFiles,
      ResetUploads, ResetFails, vars, handlers
<1> QED
  BY <1>2, <1>3, <1>4, <1>5, <1>6, <1>7, <1>8

LEMMA PathsOwnStay ==
    ASSUME ArchiveInv, PathsOwn, [Next]_vars
    PROVE  PathsOwn'
<1>a. /\ lastPath \in Nat /\ lastFile \in Nat
      /\ path \in [1..lastFile -> 1..lastPath]
  BY BoundAssumption DEF ArchiveInv, TypeOK
<1>1. ASSUME UNCHANGED <<path, lastFile>>, upload' \in {upload, NoUpload}
      PROVE  PathsOwn'
  BY <1>1 DEF PathsOwn
<1>2. ASSUME NEW d \in Address, WriteUpload(d) PROVE PathsOwn'
  <2>1. /\ UNCHANGED <<path, lastFile>>
        /\ upload' = NoUpload \/ upload'.path = lastPath + 1
    BY <1>2 DEF WriteUpload, fileTable
  <2>2. \A f \in 1..lastFile : path[f] # lastPath + 1
    BY <1>a
  <2> QED
    BY <2>1, <2>2 DEF PathsOwn
<1>3. CASE CreateMediaFile
  <2>1. /\ lastFile' = lastFile + 1 /\ upload # NoUpload /\ upload' = NoUpload
        /\ path' = Put(path, lastFile + 1, upload.path)
    BY <1>3 DEF CreateMediaFile, NextFileId
  <2>2. \A f \in 1..lastFile' : f \in 1..lastFile \/ f = lastFile + 1
    BY <1>a, <2>1
  <2>3. ASSUME NEW f \in 1..lastFile PROVE path'[f] = path[f]
    <3>1. f \in DOMAIN path /\ f # lastFile + 1
      BY <1>a
    <3> QED
      BY <2>1, <3>1, PutKeeps
  <2>4. path'[lastFile + 1] = upload.path
    BY <2>1 DEF Put
  <2> QED
    BY <2>1, <2>2, <2>3, <2>4 DEF PathsOwn
<1>4. ASSUME ~\E d \in Address : WriteUpload(d), ~CreateMediaFile
      PROVE  UNCHANGED <<path, lastFile>> /\ upload' \in {upload, NoUpload}
  BY <1>4
  DEF Next, DeleteStep, FolderCreate, UploadFails, RemoveBytes, RemoveRow,
      FolderRename, FolderDelete, EraseFolder, EmptyFolder, CloseFolder,
      CloseInner, ResetFolders, ResetFiles, ResetUploads, ResetFails, Restart, vars,
      handlers, folderDelete, fileTable
<1> QED
  BY <1>1, <1>2, <1>3, <1>4

VanishOK == ArchiveInv /\ Asked /\ PathsOwn

LEMMA VanishStarts == Init => VanishOK
<1> SUFFICES ASSUME Init PROVE VanishOK
  OBVIOUS
<1>1. Asked
  BY DEF Init, Asked
<1>2. lastFile = 0 /\ 1..0 = {}
  BY DEF Init
<1>3. PathsOwn
  BY <1>2 DEF Init, PathsOwn
<1> QED
  BY <1>1, <1>3, ArchiveStarts DEF VanishOK

LEMMA VanishStays == VanishOK /\ [Next]_vars => VanishOK'
BY ArchiveStays, AskedStays, PathsOwnStay DEF VanishOK

\* The reasons for which a file may lose its row or its bytes.
MayVanish(f) ==
    \/ f \in {removing, removing'}
    \/ target \in Around(home[f])
    \/ resetting # "idle"

LEMMA OnlyAskedStep ==
    ASSUME VanishOK, [Next]_vars,
           NEW f \in files, f \notin files' \/ path[f] \in disk \ disk'
    PROVE  MayVanish(f)
<1>a. f \in 1..lastFile /\ \A g \in files : g \in 1..lastFile
  BY DEF VanishOK, ArchiveInv, TypeOK
<1>b. \A g \in files : path[g] = path[f] => g = f
  BY <1>a DEF VanishOK, PathsOwn
<1>1. CASE UploadFails
  BY <1>1, <1>a DEF UploadFails, VanishOK, PathsOwn, fileTable
<1>2. CASE RemoveRow
  BY <1>2 DEF RemoveRow, MayVanish, uploads
<1>3. ASSUME NEW g \in files, RemoveBytes(g) PROVE MayVanish(f)
  <2>1. files' = files /\ removing' = g /\ disk' \in {disk, disk \ {path[g]}}
    BY <1>3 DEF RemoveBytes, fileTable
  <2>2. g = f
    BY <1>b, <2>1
  <2> QED
    BY <2>1, <2>2 DEF MayVanish
<1>4. ASSUME NEW d, NEW within, EraseFolder(d, within) PROVE MayVanish(f)
  <2>1. PICK gone \in SUBSET FilesIn(d) : disk' = disk \ {path[g] : g \in gone}
    BY <1>4 DEF EraseFolder
  <2>2. d \in erasing /\ files' = files
    BY <1>4 DEF EraseFolder, fileTable
  <2>3. PICK g \in gone : path[g] = path[f]
    BY <2>1, <2>2
  <2>4. g \in files /\ home[g] = d
    BY <2>1, <2>3 DEF FilesIn
  <2>5. g = f
    BY <1>b, <2>3, <2>4
  <2> QED
    BY <2>2, <2>4, <2>5 DEF MayVanish, VanishOK, Asked
<1>5. ASSUME NEW d, NEW within, EmptyFolder(d, within) PROVE MayVanish(f)
  <2>1. PICK gone \in SUBSET FilesIn(d) : files' = files \ gone
    BY <1>5 DEF EmptyFolder
  <2>2. d \in emptying /\ disk' = disk
    BY <1>5 DEF EmptyFolder, uploads
  <2>3. home[f] = d
    BY <2>1, <2>2 DEF FilesIn
  <2> QED
    BY <2>2, <2>3 DEF MayVanish, VanishOK, Asked
<1>6. CASE ResetFiles \/ ResetUploads
  BY <1>6 DEF ResetFiles, ResetUploads, MayVanish
<1>7. ASSUME \/ \E d \in Address : \/ FolderCreate(d) \/ WriteUpload(d)
                                   \/ FolderRename(d) \/ FolderDelete(d)
                                   \/ CloseFolder(d) \/ CloseInner(d)
             \/ CreateMediaFile
             \/ ResetFolders \/ ResetFails \/ Restart \/ UNCHANGED vars
      PROVE  files \subseteq files' /\ disk \subseteq disk'
  BY <1>7
  DEF FolderCreate, WriteUpload, CreateMediaFile, FolderRename, FolderDelete,
      CloseFolder, CloseInner, ResetFolders, ResetFails, Restart, vars, fileTable,
      uploads
<1> QED
  BY <1>1, <1>2, <1>3, <1>4, <1>5, <1>6, <1>7 DEF Next, DeleteStep

\* However many folders, files and handlers: a file loses its row or its bytes only
\* while that very file, a folder around it or everything is being deleted.  What
\* the walks of handleFolderDelete visit has the target around it (Asked), and the
\* bytes that are removed are those of no other row (PathsOwn).
THEOREM OnlyAskedVanishes == Spec => OnlyAskedVanish
<1>1. VanishOK /\ [Next]_vars =>
         [\A f \in files :
             f \notin files' \/ path[f] \in disk \ disk'
             => \/ f \in {removing, removing'}
                \/ target \in Around(home[f])
                \/ resetting # "idle"]_vars
  BY OnlyAskedStep DEF MayVanish
<1> QED
  BY <1>1, VanishStarts, VanishStays, PTL DEF Spec, OnlyAskedVanish

-----------------------------------------------------------------------------
\* A deletion under way has a folder to go on with: one that a walk has still to
\* visit, or one whose row is next because the calls for those within are back.
\* And only a walk from a folder that is inside itself comes to one that is.
GoesOn ==
    target # NoFolder =>
        /\ \E d \in Address : \/ d \in erasing \cup emptying
                              \/ d \in closing /\ NoneWithin(d)
        /\ \/ InItself(target)
           \/ \A d \in erasing \cup emptying \cup closing : ~InItself(d)

Begun == target # NoFolder => erasing \cup emptying \cup closing # {}

LEMMA BegunStays ==
    ASSUME Begun, [Next]_vars
    PROVE  Begun'
<1>1. ASSUME UNCHANGED folderDelete PROVE Begun'
  BY <1>1 DEF Begun, folderDelete
<1>2. ASSUME NEW d, FolderDelete(d) PROVE Begun'
  BY <1>2 DEF FolderDelete, Begun
<1>3. ASSUME NEW d, NEW within, EraseFolder(d, within) PROVE Begun'
  BY <1>3 DEF EraseFolder, Begun
<1>4. ASSUME NEW d, NEW within, EmptyFolder(d, within) PROVE Begun'
  BY <1>4 DEF EmptyFolder, Begun
<1>5. ASSUME NEW d, CloseFolder(d) PROVE Begun'
  BY <1>5 DEF CloseFolder, Begun
<1>6. CASE Restart
  BY <1>6 DEF Restart, Begun
<1>7. ASSUME ~\E d \in Address : FolderDelete(d) \/ CloseFolder(d),
             ~\E d \in Address : \E within \in Within(d) :
                 EraseFolder(d, within) \/ EmptyFolder(d, within),
             ~Restart
      PROVE  UNCHANGED folderDelete
  BY <1>7
  DEF Next, DeleteStep, FolderCreate, WriteUpload, CreateMediaFile, UploadFails,
      RemoveRow, RemoveBytes, FolderRename, CloseInner, ResetFolders, ResetFiles,
      ResetUploads, ResetFails, vars, handlers
<1> QED
  BY <1>1, <1>2, <1>3, <1>4, <1>5, <1>6, <1>7

LEMMA LeastOf ==
    ASSUME NEW T \in SUBSET Nat, T # {}
    PROVE  \E n \in T : \A k \in T : n <= k
<1> DEFINE Less == {ss \in Nat \X Nat : ss[1] < ss[2]}
<1>1. IsWellFoundedOn(Less, Nat)
  BY NatLessThanWellFounded DEF OpToRel
<1> HIDE DEF Less
<1>2. PICK n \in T : \A k \in T : <<k, n>> \notin Less
  BY <1>1, WFMin
<1>3. \A k \in T : ~(k < n)
  BY <1>2 DEF Less
<1> QED
  BY <1>3

\* How many folders are around one, and what a folder directly inside adds.
Depth(d) == Cardinality(Around(d))

LEMMA AddressFinite == IsFiniteSet(Address) /\ Cardinality(Address) \in Nat
BY BoundAssumption, FS_Interval, FS_CardinalityType DEF Address

LEMMA DepthBounded ==
    ASSUME NEW d
    PROVE  /\ IsFiniteSet(Around(d))
           /\ Depth(d) \in Nat /\ Depth(d) <= Cardinality(Address)
<1>1. Around(d) \in SUBSET Address
  BY DEF Around
<1> QED
  BY <1>1, AddressFinite, FS_Subset, FS_CardinalityType DEF Depth

LEMMA DeeperWithin ==
    ASSUME TypeOK, NEW c \in Folder, ~InItself(c)
    PROVE  Depth(c) = Depth(parent[c]) + 1
<1>1. Around(c) = Around(parent[c]) \cup {c}
  BY AroundIs
<1>2. c \notin Around(parent[c])
  BY DEF InItself
<1>3. IsFiniteSet(Around(parent[c]))
  BY DepthBounded
<1> QED
  BY <1>1, <1>2, <1>3, FS_AddElement DEF Depth

\* Of some folders, one that no other is directly inside, circles apart.
LEMMA DeepestOf ==
    ASSUME TypeOK, NEW T \in SUBSET Address, T # {}
    PROVE  \E d \in T : \A c \in Folder \cap T : parent[c] = d => InItself(c)
<1> DEFINE N == Cardinality(Address)
           Above == {N - Depth(d) : d \in T}
<1>1. \A d \in T : N - Depth(d) \in Nat
  BY AddressFinite, DepthBounded
<1>2. Above \in SUBSET Nat /\ Above # {}
  BY <1>1
<1>3. PICK n \in Above : \A k \in Above : n <= k
  BY <1>2, LeastOf
<1>4. PICK d \in T : n = N - Depth(d)
  BY <1>3
<1>5. ASSUME NEW c \in Folder \cap T, parent[c] = d, ~InItself(c) PROVE FALSE
  <2>1. Depth(c) = Depth(d) + 1
    BY <1>5, DeeperWithin
  <2>2. N - Depth(d) <= N - Depth(c)
    BY <1>3, <1>4
  <2>3. N \in Nat /\ Depth(d) \in Nat
    BY AddressFinite, DepthBounded
  <2> HIDE DEF N
  <2> QED
    BY <2>1, <2>2, <2>3
<1> QED
  BY <1>5

\* Whatever others create, delete and reset in the tree meanwhile, a deletion never
\* gets stuck: when both walks have visited all they found, the folder to close
\* that has most around it has none within, circles apart; and a walk from a folder
\* that is not inside itself never comes to a circle.  This is what DeletionEnds
\* needs of the states; that what a walk has before it runs out is left to TLC.
THEOREM DeletionGoesOn == Spec => []GoesOn
<1>1. ASSUME VanishOK, Begun, target # NoFolder
      PROVE  \E d \in Address : \/ d \in erasing \cup emptying
                                \/ d \in closing /\ NoneWithin(d)
  <2>1. TypeOK /\ erasing \cup emptying \cup closing \subseteq Address
    BY <1>1 DEF VanishOK, ArchiveInv, TypeOK
  <2>2. CASE erasing \cup emptying # {}
    BY <2>1, <2>2
  <2>3. CASE erasing \cup emptying = {}
    <3>1. closing \in SUBSET Address /\ closing # {}
      BY <1>1, <2>1, <2>3 DEF Begun
    <3>2. PICK d \in closing :
              \A c \in Folder \cap closing : parent[c] = d => InItself(c)
      BY <2>1, <3>1, DeepestOf
    <3>3. NoneWithin(d)
      BY <2>3, <3>2 DEF NoneWithin
    <3> QED
      BY <3>1, <3>3
  <2> QED
    BY <2>2, <2>3
<1>2. ASSUME VanishOK, NEW d \in erasing \cup emptying \cup closing, InItself(d)
      PROVE  InItself(target)
  <2>1. TypeOK /\ target \in Around(d) /\ InItself(d)
    BY <1>2 DEF VanishOK, ArchiveInv, Asked
  <2> QED
    BY <2>1, LoopShared
<1>3. VanishOK /\ Begun => GoesOn
  BY <1>1, <1>2 DEF GoesOn
<1>4. Init => Begun
  BY DEF Init, Begun
<1> QED
  BY <1>3, <1>4, BegunStays, VanishStarts, VanishStays, PTL DEF Spec
=============================================================================
