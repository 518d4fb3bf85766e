--------------------------- MODULE BackupRestore ---------------------------
(***************************************************************************)
(* Backup and restore of the database (apps/server/src/backup.rs): one     *)
(* archive file that backups overwrite and restores read, a database that  *)
(* goes on changing, and a target path that two restores or a starting     *)
(* server may fill.  Every command may stop at any point, killed or on a   *)
(* full disk.  A database is two pages, a file is read page by page.  One   *)
(* backup runs at a time: two that write one archive together are not      *)
(* modelled.                                                               *)
(***************************************************************************)
EXTENDS Integers, Sequences

CONSTANTS
  Restores,   \* restore commands
  MaxVersion  \* bound of the model: commits to the source

VARIABLES
  version,   \* what the source database holds
  archive,   \* the file: pages written, and whether the manifest is whole
  snapshot,  \* the pages a running backup has yet to write
  backup,    \* where the backup is
  target,    \* the file at the target path, and who put it there
  restore,   \* where each restore is, with its staged file
  crossed    \* history: the restores that read while the archive was overwritten

vars == <<version, archive, snapshot, backup, target, restore, crossed>>

NoFile == [pages |-> <<>>, by |-> "nobody"]
Unstarted == [pc |-> "unstarted", staged |-> <<>>]
Pages == 2

Init ==
  /\ version = 1
  /\ archive = [pages |-> <<>>, manifest |-> FALSE]
  /\ snapshot = <<>> /\ backup = "idle"
  /\ target = NoFile
  /\ restore = [r \in Restores |-> Unstarted]
  /\ crossed = {}

Commit ==
  /\ version < MaxVersion /\ version' = version + 1
  /\ UNCHANGED <<archive, snapshot, backup, target, restore, crossed>>

-----------------------------------------------------------------------------
(* create_backup().                                                        *)

\* VACUUM INTO: what one transaction sees.
Snapshot ==
  /\ backup = "idle"
  /\ snapshot' = [i \in 1 .. Pages |-> version] /\ backup' = "create"
  /\ UNCHANGED <<version, archive, target, restore, crossed>>

Reading == {r \in Restores : restore[r].pc \in {"copy", "finish"}}

\* File::create(): the last backup is gone before this one is written.
CreateArchive ==
  /\ backup = "create" /\ backup' = "append"
  /\ archive' = [pages |-> <<>>, manifest |-> FALSE]
  /\ crossed' = crossed \union Reading
  /\ UNCHANGED <<version, snapshot, target, restore>>

AppendPage ==
  /\ backup = "append" /\ snapshot # <<>>
  /\ archive' = [archive EXCEPT !.pages = Append(@, Head(snapshot))]
  /\ snapshot' = Tail(snapshot)
  /\ UNCHANGED <<version, backup, target, restore, crossed>>

AppendManifest ==
  /\ backup = "append" /\ snapshot = <<>>
  /\ archive' = [archive EXCEPT !.manifest = TRUE] /\ backup' = "idle"
  /\ UNCHANGED <<version, snapshot, target, restore, crossed>>

BackupStops ==
  /\ backup # "idle" /\ backup' = "idle" /\ snapshot' = <<>>
  /\ UNCHANGED <<version, archive, target, restore, crossed>>

-----------------------------------------------------------------------------
(* restore_backup().                                                       *)

Goto(r, pc) == restore' = [restore EXCEPT ![r].pc = pc]

\* The target must not be there; the archive is opened and its first header read.
Open(r) ==
  /\ restore[r].pc = "unstarted" /\ target = NoFile
  /\ archive.pages # <<>>
  /\ Goto(r, "copy")
  /\ UNCHANGED <<version, archive, snapshot, backup, target, crossed>>

CopyPage(r) ==
  LET next == Len(restore[r].staged) + 1 IN
  /\ restore[r].pc = "copy" /\ next \in DOMAIN archive.pages
  /\ restore' = [restore EXCEPT ![r].staged = Append(@, archive.pages[next]),
                                ![r].pc = IF next = Pages THEN "finish" ELSE "copy"]
  /\ UNCHANGED <<version, archive, snapshot, backup, target, crossed>>

\* Mutant: what could be read is good enough.
CopiedSome(r) == Len(restore[r].staged) > 0

\* Skipping to the next entry fails when the file ends before this one does.
Copied(r) == restore[r].pc = "finish"

\* The manifest is there and parses, and quick_check finds the staged file to
\* be a database; it may not see that two pages are of two snapshots.
Validate(r) ==
  /\ restore[r].pc \in {"copy", "finish"} /\ Copied(r) /\ archive.manifest
  /\ Goto(r, "publish")
  /\ UNCHANGED <<version, archive, snapshot, backup, target, crossed>>

\* persist_noclobber(): a link that fails when the target has come to exist.
Publish(r) ==
  /\ restore[r].pc = "publish" /\ target = NoFile
  /\ target' = [pages |-> restore[r].staged, by |-> r]
  /\ Goto(r, "published")
  /\ UNCHANGED <<version, archive, snapshot, backup, crossed>>

\* Any check fails, or the command is killed; the staged file goes with it.
RestoreStops(r) ==
  /\ restore[r].pc \notin {"unstarted", "published", "stopped"}
  /\ Goto(r, "stopped")
  /\ UNCHANGED <<version, archive, snapshot, backup, target, crossed>>

\* A server that starts creates its database when there is none.
ServerStarts ==
  /\ target = NoFile
  /\ target' = [pages |-> <<0, 0>>, by |-> "server"]
  /\ UNCHANGED <<version, archive, snapshot, backup, restore, crossed>>

Next ==
  \/ Commit \/ Snapshot \/ CreateArchive \/ AppendPage \/ AppendManifest \/ BackupStops
  \/ \E r \in Restores :
       Open(r) \/ CopyPage(r) \/ Validate(r) \/ Publish(r) \/ RestoreStops(r)
  \/ ServerStarts

Spec == Init /\ [][Next]_vars

-----------------------------------------------------------------------------

\* A restore that reports success has published, whole, what the source held at
\* one moment, and nobody has replaced it: not from an archive a killed backup
\* left behind, not over a database that appeared after the first check.  Of
\* backups that run one after the other, only one that overwrites the archive
\* while it is read can mix two moments.
RestoreIsWhole == \A r \in Restores : restore[r].pc = "published" =>
  /\ target = [pages |-> restore[r].staged, by |-> r]
  /\ DOMAIN target.pages = 1 .. Pages
  /\ r \notin crossed => \E v \in 1 .. version : target.pages = [i \in 1 .. Pages |-> v]
=============================================================================
