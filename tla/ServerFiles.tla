----------------------------- MODULE ServerFiles -----------------------------
(***************************************************************************)
(* The files that others rely on once they have their final name: the      *)
(* uploads of a build (Uploads) and the archives of the backup command     *)
(* (Backup).  The two share the disk and no file on it.                    *)
(***************************************************************************)
EXTENDS Uploads, Backup

FilesInit == UploadInit /\ BackupInit
FilesNext == \/ UploadNext /\ UNCHANGED backupVars
             \/ BackupNext /\ UNCHANGED uploadVars
FilesSpec == FilesInit /\ [][FilesNext]_<<uploadVars, backupVars>>

(* What stands under its name on the disk is whole, whoever wrote it, in   *)
(* how many attempts: an uploaded file under its hash (buildsvc/upload.go) *)
(* and a backup under its own name (backup/backup.go).                     *)
FilesWhole == HashHolds /\ ArchiveWhole
=============================================================================
