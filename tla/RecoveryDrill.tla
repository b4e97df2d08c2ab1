----------------------------- MODULE RecoveryDrill -----------------------------
(***************************************************************************)
(* Backups of the database to one path, and a drill that restores what is  *)
(* there: create_backup and restore_drill                                  *)
(* (src/shared/procuresignal/operations/recovery.py).                      *)
(*                                                                         *)
(* Every backup dumps to the same temporary path and renames it.  A name   *)
(* can be taken from a file somebody is still writing, so names and files  *)
(* are kept apart; a file is called by the backup that made it.  pg_dump,  *)
(* pg_restore, createdb and dropdb are external: each may fail, and a      *)
(* timeout does not say how far it came.                                   *)
(***************************************************************************)
EXTENDS Naturals

CONSTANTS Backups,   \* processes that run create_backup
          Overwrites \* those that were told to overwrite

NoFile == "no file"
Earlier == "earlier"

ASSUME RecoveryAssumption == Overwrites \subseteq Backups /\ {NoFile, Earlier} \cap Backups = {}

VARIABLES
  archive, \* the file named output: a backup's, the one from before, or none
  partial, \* the file named output.tmp
  file,    \* each backup's file: who writes it, whether it is a whole archive
  backup,  \* what each backup is doing
  shared,  \* somebody opened, or published, a temporary file that another made
  drill    \* the restore drill

recoveryVars == <<archive, partial, file, backup, shared, drill>>

RecoveryInit ==
  /\ archive \in {NoFile, Earlier} /\ partial = NoFile
  /\ file = [b \in Backups |-> [writing |-> {}, torn |-> FALSE, whole |-> FALSE]]
  /\ backup = [b \in Backups |-> [phase |-> "new", into |-> NoFile, ok |-> FALSE]]
  /\ shared = FALSE
  /\ \E keeps \in BOOLEAN : drill = [phase |-> "new", keeps |-> keeps, there |-> FALSE,
                                     created |-> FALSE, ok |-> FALSE, excuse |-> FALSE]

Whole(f) == f = Earlier \/ (f \in Backups /\ file[f].whole)

Goes(b, phase) == backup' = [backup EXCEPT ![b].phase = phase]

----------------------------------------------------------------------------
\* Refused before anything was touched, so nothing is cleaned up either.
CheckPaths(b) ==
  /\ backup[b].phase = "new"
  /\ Goes(b, IF \/ archive # NoFile /\ b \notin Overwrites
                \/ partial # NoFile THEN "over" ELSE "checked")
  /\ UNCHANGED <<archive, partial, file, shared, drill>>

\* pg_dump opens the path, and empties what it finds there.
Dump(b) ==
  /\ backup[b].phase = "checked"
  /\ LET f == IF partial = NoFile THEN b ELSE partial IN
       /\ file' = [file EXCEPT ![f] = [writing |-> @.writing \cup {b},
                                       torn |-> @.writing # {}, whole |-> FALSE]]
       /\ partial' = f
       /\ backup' = [backup EXCEPT ![b].phase = "dumping", ![b].into = f]
  /\ shared' = (shared \/ partial # NoFile)
  /\ UNCHANGED <<archive, drill>>

\* pg_dump ends, well or not (it fails, or runs into the timeout and is killed).
DumpEnds(b) ==
  /\ backup[b].phase = "dumping"
  /\ \E well \in BOOLEAN :
       /\ file' = [file EXCEPT ![backup[b].into] =
                     [writing |-> @.writing \ {b}, torn |-> @.torn \/ ~well,
                      whole |-> well /\ ~@.torn]]
       /\ Goes(b, IF well THEN "dumped" ELSE "cleaning")
  /\ UNCHANGED <<archive, partial, shared, drill>>

\* The file is there and not empty (one that is being written may still be),
\* and the output still is not.
Verify(b) ==
  /\ backup[b].phase = "dumped"
  /\ \/ /\ partial # NoFile /\ (archive = NoFile \/ b \in Overwrites)
        /\ Goes(b, "verified")
     \/ /\ \/ partial = NoFile
           \/ partial # NoFile /\ file[partial].writing # {}
           \/ archive # NoFile /\ b \notin Overwrites
        /\ Goes(b, "cleaning")
  /\ UNCHANGED <<archive, partial, file, shared, drill>>

\* The rename takes whatever has the name now.
Replace(b) ==
  /\ backup[b].phase = "verified"
  /\ IF partial = NoFile
     THEN Goes(b, "cleaning") /\ UNCHANGED <<archive, partial, shared>>
     ELSE /\ archive' = partial /\ partial' = NoFile
          /\ backup' = [backup EXCEPT ![b].phase = "cleaning", ![b].ok = TRUE]
          /\ shared' = (shared \/ partial # backup[b].into)
  /\ UNCHANGED <<file, drill>>

\* The finally: whatever has the temporary name goes, another's file included.
Unlink(b) ==
  /\ backup[b].phase = "cleaning"
  /\ partial' = NoFile
  /\ Goes(b, "over")
  /\ UNCHANGED <<archive, file, shared, drill>>

\* The process is killed, and its pg_dump with it.
BackupDies(b) ==
  /\ backup[b].phase \notin {"new", "over", "dead"}
  /\ Goes(b, "dead")
  /\ file' = [f \in Backups |-> IF b \in file[f].writing
                                THEN [file[f] EXCEPT !.writing = @ \ {b}, !.torn = TRUE]
                                ELSE file[f]]
  /\ UNCHANGED <<archive, partial, shared, drill>>

----------------------------------------------------------------------------
\* createdb; a timeout leaves open whether the database was made.
CreateDatabase ==
  /\ drill.phase = "new"
  /\ \/ archive = NoFile /\ drill' = [drill EXCEPT !.phase = "over"]
     \/ archive # NoFile /\ \/ drill' = [drill EXCEPT !.phase = "created", !.there = TRUE, !.created = TRUE]
                            \/ \E there \in BOOLEAN :
                                 drill' = [drill EXCEPT !.phase = "ending", !.there = there,
                                                        !.excuse = there]
  /\ UNCHANGED <<archive, partial, file, backup, shared>>

\* pg_restore of what has the name now; an archive that is not whole fails.
RestoreArchive ==
  /\ drill.phase = "created"
  /\ \/ Whole(archive) /\ drill' = [drill EXCEPT !.phase = "restored"]
     \/ drill' = [drill EXCEPT !.phase = "ending"]
  /\ UNCHANGED <<archive, partial, file, backup, shared>>

\* The migrations run, then head and tables are checked.
MigrateAndVerify ==
  /\ drill.phase = "restored"
  /\ \E well \in BOOLEAN : drill' = [drill EXCEPT !.phase = "ending", !.ok = well]
  /\ UNCHANGED <<archive, partial, file, backup, shared>>

\* The finally: dropdb, unless a failed drill is to be kept; when dropdb fails,
\* that is what the caller is told.
EndDrill ==
  /\ drill.phase = "ending"
  /\ IF drill.created /\ (drill.ok \/ ~drill.keeps)
     THEN \/ drill' = [drill EXCEPT !.phase = "over", !.there = FALSE]
          \/ drill' = [drill EXCEPT !.phase = "over", !.ok = FALSE, !.excuse = TRUE]
     ELSE drill' = [drill EXCEPT !.phase = "over", !.excuse = @ \/ drill.created]
  /\ UNCHANGED <<archive, partial, file, backup, shared>>

RecoveryNext ==
  \/ \E b \in Backups : \/ CheckPaths(b) \/ Dump(b) \/ DumpEnds(b) \/ Verify(b)
                        \/ Replace(b) \/ Unlink(b) \/ BackupDies(b)
  \/ CreateDatabase \/ RestoreArchive \/ MigrateAndVerify \/ EndDrill

RecoverySpec == RecoveryInit /\ [][RecoveryNext]_recoveryVars

----------------------------------------------------------------------------
ArchiveFile == [writing : SUBSET Backups, torn : BOOLEAN, whole : BOOLEAN]
BackupPhases == {"new", "checked", "dumping", "dumped", "verified", "cleaning", "over", "dead"}
BackupState == [phase : BackupPhases, into : Backups \cup {NoFile}, ok : BOOLEAN]
DrillState == [phase : {"new", "created", "restored", "ending", "over"}, keeps : BOOLEAN,
               there : BOOLEAN, created : BOOLEAN, ok : BOOLEAN, excuse : BOOLEAN]
RecoveryTypeOK ==
  /\ archive \in Backups \cup {NoFile, Earlier} /\ partial \in Backups \cup {NoFile}
  /\ file \in [Backups -> ArchiveFile] /\ backup \in [Backups -> BackupState]
  /\ shared \in BOOLEAN /\ drill \in DrillState

(***************************************************************************)
(* Of backups that overlap: what has the name of the backup is a whole     *)
(* archive, through failures and crashes, as long as none has dumped into  *)
(* another's file or renamed it (the check for output.tmp is made long     *)
(* before pg_dump opens it, recovery.py:216); a published one survives     *)
(* every backup not told to overwrite; and only a process that died leaves *)
(* output.tmp behind.  A drill that hands out a receipt has dropped its    *)
(* database, and one that leaves it was to keep it, or could not know or   *)
(* drop it.                                                                *)
(***************************************************************************)
BackupIsWhole ==
  /\ archive # NoFile /\ ~shared => Whole(archive)
  /\ ~shared /\ (\A o \in Overwrites : ~backup[o].ok) =>
       \A b \in Backups : backup[b].ok => archive = b
  /\ partial # NoFile => \E b \in Backups : backup[b].phase \notin {"new", "over"}
  /\ drill.phase = "over" => (drill.ok => ~drill.there) /\ (drill.there => drill.excuse)
=============================================================================
