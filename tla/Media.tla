------------------------------- MODULE Media -------------------------------
(***************************************************************************)
(* What the scheduler may rely on in the media archive: which files are in *)
(* the table media_files and of which the bytes are in uploads/.  A file   *)
(* never comes back: its id is not used again, neither for another row nor *)
(* for other bytes.  Archive implements this specification; in Scheduler   *)
(* it stands for the archive's handlers.                                   *)
(***************************************************************************)
EXTENDS Naturals

CONSTANT MaxFile    \* bound: rows ever inserted into media_files

VARIABLES
    files,      \* rows of media_files
    disk,       \* files whose bytes are in uploads/
    lastFile    \* sqlite_sequence of media_files

media == <<files, disk, lastFile>>

FileId == 1..MaxFile

MediaInit == files = {} /\ disk = {} /\ lastFile = 0

\* A row appears under a fresh id.  Its bytes are there already, unless a reset
\* has emptied uploads/ since they were written.
Appear ==
    /\ lastFile < MaxFile
    /\ lastFile' = lastFile + 1
    /\ files' = files \cup {lastFile + 1}
    /\ disk' \in {disk, disk \cup {lastFile + 1}}

\* Rows are deleted, or bytes, in either order.
Forget(ids) ==
    /\ files' = files \ ids
    /\ UNCHANGED <<disk, lastFile>>

Erase(ids) ==
    /\ disk' = disk \ ids
    /\ UNCHANGED <<files, lastFile>>

MediaNext ==
    \/ Appear
    \/ \E ids \in SUBSET files : Forget(ids)
    \/ \E ids \in SUBSET disk : Erase(ids)

MediaSpec == MediaInit /\ [][MediaNext]_media
=============================================================================
