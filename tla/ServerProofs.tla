---------------------------- MODULE ServerProofs ----------------------------
(***************************************************************************)
(* Theorems of Server, for any number of workers, restores, uploads and    *)
(* calls.  Each part has an invariant of its own; since no step of another *)
(* part touches its variables, a step of the server is for each part one   *)
(* of its own steps or a stutter.                                          *)
(***************************************************************************)
EXTENDS Server, FiniteSetTheorems, WellFoundedInduction, TLAPS

\* A step of the server is a step of one part and a stutter of the others.
LEMMA StepsOfParts ==
  ASSUME [Next]_vars
  PROVE  /\ [Access!Next]_(Access!vars) /\ [Jobs!Next]_(Jobs!vars)
         /\ [Supervisor!Next]_(Supervisor!vars) /\ [Backups!Next]_(Backups!vars)
         /\ [Embeddings!Next]_(Embeddings!vars) /\ [Knowledge!Next]_(Knowledge!vars)
  BY DEF Next, vars, access, queue, supervision, files, ledger, base,
         Access!vars, Jobs!vars, Supervisor!vars, Backups!vars, Embeddings!vars, Knowledge!vars

-----------------------------------------------------------------------------
(* The supervisor of the runtime.                                          *)

SupervisorTypes ==
  /\ state \in {"starting", "running", "failed"}
  /\ loop \in {"start", "handshake", "health", "serving", "failed", "backoff", "ended"}
  /\ attempt \in Nat /\ failures \in Nat

\* The counter of the loop runs one ahead of the starts that failed when a
\* process had answered before them, and with them otherwise; a process that is
\* answering has ended the row of failures, whatever the counter still says.
AttemptCounts ==
  IF loop = "serving" THEN failures = 0
  ELSE failures <= attempt /\ attempt <= failures + 1

\* The loop goes on as long as the counter is within the bound.
EndsAtBound ==
  IF loop = "ended" THEN attempt = MAX_RESTARTS + 1 ELSE attempt <= MAX_RESTARTS

SupervisorInv == SupervisorTypes /\ AttemptCounts /\ EndsAtBound /\ Supervisor!RestartsAreBounded

-----------------------------------------------------------------------------

\* The loop starts within its bounds.
LEMMA SupervisorInit == Supervisor!Init => SupervisorInv
  BY RestartsAssumption
     DEF Supervisor!Init, SupervisorInv, SupervisorTypes, AttemptCounts, EndsAtBound,
         Supervisor!RestartsAreBounded

\* The bottom of the loop counts the start that is over and ends the loop when
\* the counter leaves the bound.
LEMMA LoopReturns ==
  ASSUME SupervisorInv, NEW served \in BOOLEAN, Supervisor!Return(served),
         loop # "ended", served <=> loop = "serving"
  PROVE  SupervisorInv'
<1>1. attempt' = (IF served THEN 1 ELSE attempt + 1)
  BY DEF Supervisor!Return, Supervisor!AttemptAfter
<1>2. SupervisorTypes'
  BY <1>1 DEF Supervisor!Return, SupervisorInv, SupervisorTypes
<1>3. AttemptCounts'
  BY <1>1 DEF Supervisor!Return, SupervisorInv, SupervisorTypes, AttemptCounts
<1>4. EndsAtBound'
  BY <1>1, RestartsAssumption DEF Supervisor!Return, SupervisorInv, SupervisorTypes, EndsAtBound
<1>5. Supervisor!RestartsAreBounded'
  BY <1>1, RestartsAssumption
     DEF Supervisor!Return, SupervisorInv, SupervisorTypes, AttemptCounts, EndsAtBound,
         Supervisor!RestartsAreBounded
<1> QED BY <1>2, <1>3, <1>4, <1>5 DEF SupervisorInv

\* Every step of the loop and of the process keeps the invariant.
LEMMA SupervisorStep ==
  SupervisorInv /\ [Supervisor!Next]_(Supervisor!vars) => SupervisorInv'
<1> SUFFICES ASSUME SupervisorInv, [Supervisor!Next]_(Supervisor!vars) PROVE SupervisorInv'
  OBVIOUS
<1> USE DEF SupervisorInv, SupervisorTypes, AttemptCounts, EndsAtBound,
            Supervisor!RestartsAreBounded
<1>1. CASE Supervisor!Start
  BY <1>1 DEF Supervisor!Start
<1>2. CASE Supervisor!Handshake
  BY <1>2 DEF Supervisor!Handshake
<1>3. CASE Supervisor!NoHandshake
  BY <1>3 DEF Supervisor!NoHandshake
<1>4. CASE Supervisor!Healthy
  BY <1>4, RestartsAssumption DEF Supervisor!Healthy
<1>5. CASE Supervisor!Unhealthy
  BY <1>5 DEF Supervisor!Unhealthy
<1>6. CASE Supervisor!StartFailed
  BY <1>6, LoopReturns DEF Supervisor!StartFailed
<1>7. CASE Supervisor!ProcessExited
  BY <1>7, LoopReturns DEF Supervisor!ProcessExited
<1>8. CASE Supervisor!Backoff
  BY <1>8 DEF Supervisor!Backoff
<1>9. CASE Supervisor!Exit
  BY <1>9 DEF Supervisor!Exit
<1>10. CASE Supervisor!Log
  BY <1>10 DEF Supervisor!Log
<1>11. CASE UNCHANGED Supervisor!vars
  BY <1>11 DEF Supervisor!vars
<1> QED BY <1>1, <1>2, <1>3, <1>4, <1>5, <1>6, <1>7, <1>8, <1>9, <1>10, <1>11
        DEF Supervisor!Next

\* The supervisor gives up after MAX_RESTARTS or MAX_RESTARTS + 1 starts in a
\* row that never answered, and leaves no process behind.
THEOREM SupervisorGivesUp == Spec => []RestartsAreBounded
<1>1. Init => SupervisorInv
  BY SupervisorInit DEF Init
<1>2. SupervisorInv /\ [Next]_vars => SupervisorInv'
  BY SupervisorStep, StepsOfParts
<1>3. SupervisorInv => RestartsAreBounded
  BY DEF SupervisorInv, RestartsAreBounded
<1> QED BY <1>1, <1>2, <1>3, PTL DEF Spec

-----------------------------------------------------------------------------
(* Backups and restores.                                                   *)

Stages == {"unstarted", "copy", "finish", "publish", "published", "stopped"}

BackupTypes ==
  /\ version \in Nat \ {0}
  /\ archive \in [pages : Seq(Nat), manifest : BOOLEAN]
  /\ snapshot \in Seq(Nat)
  /\ backup \in {"idle", "create", "append"}
  /\ restore \in [Restores -> [pc : Stages, staged : Seq(Nat)]]
  /\ crossed \subseteq Restores

AllAre(s, v) == \A i \in 1 .. Len(s) : s[i] = v

\* The file is what one snapshot has given it so far; a running backup holds
\* the rest of that snapshot.
ArchiveIsOfOneMoment ==
  /\ \E v \in 1 .. version :
       /\ AllAre(archive.pages, v)
       /\ backup = "append" => AllAre(snapshot, v)
  /\ backup = "create" => /\ Len(snapshot) = Backups!Pages
                          /\ \E v \in 1 .. version : AllAre(snapshot, v)
  /\ backup = "append" => Len(archive.pages) + Len(snapshot) = Backups!Pages

\* How long a staged file is follows from where its restore is.
StagedLength(r) ==
  /\ restore[r].pc = "unstarted" => restore[r].staged = <<>>
  /\ restore[r].pc = "copy" => Len(restore[r].staged) < Backups!Pages
  /\ restore[r].pc \in {"finish", "publish", "published"} =>
       Len(restore[r].staged) = Backups!Pages

\* A staged file is the beginning of the archive until it is checked, and of
\* one moment of the source ever after, unless a backup crossed its reading.
StagedFits(r) == r \notin crossed =>
  /\ restore[r].pc \in {"copy", "finish"} =>
       /\ Len(restore[r].staged) <= Len(archive.pages)
       /\ \A i \in 1 .. Len(restore[r].staged) : restore[r].staged[i] = archive.pages[i]
  /\ restore[r].pc \in {"publish", "published"} =>
       \E v \in 1 .. version : AllAre(restore[r].staged, v)

\* What a restore has published is still there.
PublishedStays(r) ==
  restore[r].pc = "published" => target = [pages |-> restore[r].staged, by |-> r]

BackupInv ==
  /\ BackupTypes /\ ArchiveIsOfOneMoment
  /\ \A r \in Restores : StagedLength(r) /\ StagedFits(r) /\ PublishedStays(r)

-----------------------------------------------------------------------------

\* Nothing is written, staged or published at first.
LEMMA BackupInit == Backups!Init => BackupInv
<1> SUFFICES ASSUME Backups!Init PROVE BackupInv
  OBVIOUS
<1>1. BackupTypes
  BY DEF Backups!Init, BackupTypes, Backups!Unstarted, Stages
<1>2. ArchiveIsOfOneMoment
  <2>1. 1 \in 1 .. version /\ AllAre(archive.pages, 1) /\ backup = "idle"
    BY DEF Backups!Init, AllAre
  <2> QED BY <2>1 DEF ArchiveIsOfOneMoment
<1>3. \A r \in Restores : StagedLength(r) /\ StagedFits(r) /\ PublishedStays(r)
  BY DEF Backups!Init, Backups!Unstarted, StagedLength, StagedFits, PublishedStays
<1> QED BY <1>1, <1>2, <1>3 DEF BackupInv

\* A commit adds a moment; no file changes.
LEMMA CommitStep == BackupInv /\ Backups!Commit => BackupInv'
<1> SUFFICES ASSUME BackupInv, Backups!Commit PROVE BackupInv'
  OBVIOUS
<1>1. 1 .. version \subseteq 1 .. version'
  BY DEF Backups!Commit, BackupInv, BackupTypes
<1>2. BackupTypes'
  BY DEF Backups!Commit, BackupInv, BackupTypes
<1>3. ArchiveIsOfOneMoment'
  BY <1>1 DEF Backups!Commit, BackupInv, ArchiveIsOfOneMoment, AllAre
<1>4. \A r \in Restores : (StagedLength(r) /\ StagedFits(r) /\ PublishedStays(r))'
  BY <1>1 DEF Backups!Commit, BackupInv, StagedLength, StagedFits, PublishedStays, AllAre
<1> QED BY <1>2, <1>3, <1>4 DEF BackupInv

\* A step of the backup that leaves the archive alone leaves the restores alone.
LEMMA RestoresKept ==
  ASSUME BackupInv, UNCHANGED <<version, archive, target, restore, crossed>>
  PROVE  \A r \in Restores : (StagedLength(r) /\ StagedFits(r) /\ PublishedStays(r))'
  BY DEF BackupInv, StagedLength, StagedFits, PublishedStays, AllAre

\* A snapshot is of the moment it is taken.
LEMMA SnapshotStep == BackupInv /\ Backups!Snapshot => BackupInv'
<1> SUFFICES ASSUME BackupInv, Backups!Snapshot PROVE BackupInv'
  OBVIOUS
<1>1. snapshot' \in Seq(Nat) /\ Len(snapshot') = Backups!Pages
      /\ AllAre(snapshot', version)
  BY DEF Backups!Snapshot, BackupInv, BackupTypes, AllAre, Backups!Pages
<1>2. BackupTypes'
  BY <1>1 DEF Backups!Snapshot, BackupInv, BackupTypes
<1>3. ArchiveIsOfOneMoment'
  <2>1. version \in 1 .. version
    BY DEF BackupInv, BackupTypes
  <2>2. PICK v \in 1 .. version : AllAre(archive.pages, v)
    BY DEF BackupInv, ArchiveIsOfOneMoment
  <2>3. backup' = "create" /\ UNCHANGED <<version, archive>>
    BY DEF Backups!Snapshot
  <2> QED BY <1>1, <2>1, <2>2, <2>3 DEF ArchiveIsOfOneMoment, AllAre
<1>4. \A r \in Restores : (StagedLength(r) /\ StagedFits(r) /\ PublishedStays(r))'
  BY RestoresKept DEF Backups!Snapshot
<1> QED BY <1>2, <1>3, <1>4 DEF BackupInv

\* The archive begins anew: the restores that read the old one are crossed.
LEMMA CreateArchiveStep == BackupInv /\ Backups!CreateArchive => BackupInv'
<1> SUFFICES ASSUME BackupInv, Backups!CreateArchive PROVE BackupInv'
  OBVIOUS
<1>1. archive' = [pages |-> <<>>, manifest |-> FALSE]
  BY DEF Backups!CreateArchive
<1>2. BackupTypes'
  BY DEF Backups!CreateArchive, Backups!Reading, BackupInv, BackupTypes
<1>3. ArchiveIsOfOneMoment'
  BY <1>1 DEF Backups!CreateArchive, BackupInv, BackupTypes, ArchiveIsOfOneMoment, AllAre
<1>4. \A r \in Restores : (StagedLength(r) /\ StagedFits(r) /\ PublishedStays(r))'
  BY DEF Backups!CreateArchive, Backups!Reading, BackupInv, StagedLength, StagedFits,
         PublishedStays, AllAre
<1> QED BY <1>2, <1>3, <1>4 DEF BackupInv

\* One page of the snapshot moves to the end of the archive.
LEMMA AppendPageStep == BackupInv /\ Backups!AppendPage => BackupInv'
<1> SUFFICES ASSUME BackupInv, Backups!AppendPage PROVE BackupInv'
  OBVIOUS
<1> DEFINE page == Head(snapshot)
<1>1. /\ snapshot \in Seq(Nat) /\ snapshot # <<>> /\ archive.pages \in Seq(Nat)
      /\ archive' = [archive EXCEPT !.pages = Append(@, page)]
      /\ snapshot' = Tail(snapshot)
      /\ backup = "append" /\ UNCHANGED <<version, backup, target, restore, crossed>>
  BY DEF Backups!AppendPage, BackupInv, BackupTypes
<1>2. /\ page \in Nat /\ page = snapshot[1] /\ Len(snapshot) > 0
      /\ Tail(snapshot) \in Seq(Nat) /\ Len(Tail(snapshot)) = Len(snapshot) - 1
      /\ \A i \in 1 .. Len(Tail(snapshot)) : Tail(snapshot)[i] = snapshot[i + 1]
  BY <1>1
<1>3. /\ archive'.pages = Append(archive.pages, page)
      /\ archive'.pages \in Seq(Nat)
      /\ Len(archive'.pages) = Len(archive.pages) + 1
      /\ \A i \in 1 .. Len(archive.pages) : archive'.pages[i] = archive.pages[i]
      /\ archive'.pages[Len(archive.pages) + 1] = page
  <2>1. archive'.pages = Append(archive.pages, page)
    BY <1>1 DEF BackupInv, BackupTypes
  <2> HIDE DEF page
  <2> QED BY <2>1, <1>1, <1>2
<1> HIDE DEF page
<1>4. BackupTypes'
  BY <1>1, <1>2, <1>3 DEF BackupInv, BackupTypes
<1>5. ArchiveIsOfOneMoment'
  <2>1. PICK v \in 1 .. version : AllAre(archive.pages, v) /\ AllAre(snapshot, v)
    BY <1>1 DEF BackupInv, ArchiveIsOfOneMoment
  <2>2. page = v
    BY <1>1, <1>2, <2>1 DEF AllAre
  <2>3. AllAre(archive'.pages, v)
    BY <1>1, <1>3, <2>1, <2>2 DEF AllAre
  <2>4. AllAre(snapshot', v)
    BY <1>1, <1>2, <2>1 DEF AllAre
  <2>5. Len(archive'.pages) + Len(snapshot') = Backups!Pages
    BY <1>1, <1>2, <1>3 DEF BackupInv, ArchiveIsOfOneMoment, Backups!Pages
  <2> QED BY <1>1, <2>1, <2>3, <2>4, <2>5 DEF ArchiveIsOfOneMoment, AllAre
<1>6. \A r \in Restores : (StagedLength(r) /\ StagedFits(r) /\ PublishedStays(r))'
  <2> TAKE r \in Restores
  <2>1. StagedLength(r)' /\ PublishedStays(r)'
    BY <1>1 DEF BackupInv, StagedLength, PublishedStays
  <2>2. Len(restore[r].staged) \in Nat /\ Len(archive.pages) \in Nat
    BY DEF BackupInv, BackupTypes
  <2>3. UNCHANGED <<version, restore, crossed>>
    BY <1>1
  <2>4. StagedFits(r)
    BY DEF BackupInv
  <2>5. StagedFits(r)'
    <3>1. ASSUME r \notin crossed, restore[r].pc \in {"copy", "finish"}
          PROVE  /\ Len(restore[r].staged) <= Len(archive'.pages)
                 /\ \A i \in 1 .. Len(restore[r].staged) :
                      restore[r].staged[i] = archive'.pages[i]
      <4>1. /\ Len(restore[r].staged) <= Len(archive.pages)
            /\ \A i \in 1 .. Len(restore[r].staged) :
                 restore[r].staged[i] = archive.pages[i]
        BY <2>4, <3>1 DEF StagedFits
      <4>2. 1 .. Len(restore[r].staged) \subseteq 1 .. Len(archive.pages)
        BY <2>2, <4>1
      <4> QED BY <1>3, <2>2, <4>1, <4>2
    <3> QED BY <2>3, <2>4, <3>1 DEF StagedFits, AllAre
  <2> QED BY <2>1, <2>5
<1> QED BY <1>4, <1>5, <1>6 DEF BackupInv

\* The manifest is not a page, and a backup that stops forgets its snapshot.
LEMMA BackupEndStep ==
  BackupInv /\ (Backups!AppendManifest \/ Backups!BackupStops) => BackupInv'
<1> SUFFICES ASSUME BackupInv, Backups!AppendManifest \/ Backups!BackupStops
             PROVE  BackupInv'
  OBVIOUS
<1>1. /\ archive' \in [pages : Seq(Nat), manifest : BOOLEAN] /\ archive'.pages = archive.pages
      /\ snapshot' \in Seq(Nat) /\ backup' = "idle"
      /\ UNCHANGED <<version, target, restore, crossed>>
  <2>1. CASE Backups!AppendManifest
    BY <2>1 DEF Backups!AppendManifest, BackupInv, BackupTypes
  <2>2. CASE Backups!BackupStops
    BY <2>2 DEF Backups!BackupStops, BackupInv, BackupTypes
  <2> QED BY <2>1, <2>2
<1>2. BackupTypes'
  BY <1>1 DEF BackupInv, BackupTypes
<1>3. ArchiveIsOfOneMoment'
  BY <1>1 DEF BackupInv, ArchiveIsOfOneMoment, AllAre
<1>4. \A r \in Restores : (StagedLength(r) /\ StagedFits(r) /\ PublishedStays(r))'
  BY <1>1 DEF BackupInv, StagedLength, StagedFits, PublishedStays, AllAre
<1> QED BY <1>2, <1>3, <1>4 DEF BackupInv

-----------------------------------------------------------------------------

\* The step takes restore r to pc with the file it has staged, and no other.
Moved(r, pc, staged) ==
  /\ restore' \in [Restores -> [pc : Stages, staged : Seq(Nat)]]
  /\ restore'[r].pc = pc /\ restore'[r].staged = staged
  /\ \A q \in Restores \ {r} : restore'[q] = restore[q]

\* A restore that moves on keeps what it has staged.
LEMMA GotoMoves ==
  ASSUME BackupInv, NEW r \in Restores, NEW pc \in Stages, Backups!Goto(r, pc)
  PROVE  Moved(r, pc, restore[r].staged)
  BY DEF BackupInv, BackupTypes, Backups!Goto, Moved

\* A step of one restore that publishes nothing leaves the others as they are.
LEMMA OneRestore ==
  ASSUME BackupInv, NEW r \in Restores,
         UNCHANGED <<version, archive, snapshot, backup, target, crossed>>,
         NEW pc, NEW staged, Moved(r, pc, staged),
         StagedLength(r)', StagedFits(r)', PublishedStays(r)'
  PROVE  BackupInv'
<1>1. BackupTypes'
  BY DEF BackupInv, BackupTypes, Moved
<1>2. ArchiveIsOfOneMoment'
  BY DEF BackupInv, ArchiveIsOfOneMoment, AllAre
<1>3. ASSUME NEW q \in Restores, q # r
      PROVE (StagedLength(q) /\ StagedFits(q) /\ PublishedStays(q))'
  <2>1. restore'[q] = restore[q]
    BY <1>3 DEF Moved
  <2> QED BY <2>1 DEF BackupInv, StagedLength, StagedFits, PublishedStays, AllAre
<1> QED BY <1>1, <1>2, <1>3 DEF BackupInv

\* Opening stages nothing; stopping gives the staged file up.
LEMMA OpenOrStopStep ==
  ASSUME BackupInv, NEW r \in Restores, Backups!Open(r) \/ Backups!RestoreStops(r)
  PROVE  BackupInv'
<1>1. PICK pc \in {"copy", "stopped"} :
        Moved(r, pc, restore[r].staged) /\ (pc = "copy" => restore[r].pc = "unstarted")
  BY GotoMoves DEF Backups!Open, Backups!RestoreStops, Stages
<1>2. UNCHANGED <<version, archive, snapshot, backup, target, crossed>>
  BY DEF Backups!Open, Backups!RestoreStops
<1>3. restore'[r].pc = pc /\ restore'[r].staged = restore[r].staged
  BY <1>1 DEF Moved
<1>4. StagedLength(r)' /\ StagedFits(r)' /\ PublishedStays(r)'
  <2>1. CASE pc = "stopped"
    BY <1>3, <2>1 DEF StagedLength, StagedFits, PublishedStays
  <2>2. CASE pc = "copy"
    <3>1. restore'[r].staged = <<>> /\ restore'[r].pc = "copy"
      BY <1>1, <1>3, <2>2 DEF BackupInv, StagedLength
    <3>2. Len(archive'.pages) \in Nat
      BY <1>2 DEF BackupInv, BackupTypes
    <3> QED BY <3>1, <3>2 DEF StagedLength, StagedFits, PublishedStays, Backups!Pages
  <2> QED BY <1>1, <2>1, <2>2
<1> QED BY <1>1, <1>2, <1>4, OneRestore

\* What a sequence is with one element more.
LEMMA AppendFacts ==
  ASSUME NEW s \in Seq(Nat), NEW x \in Nat
  PROVE  /\ Append(s, x) \in Seq(Nat) /\ Len(Append(s, x)) = Len(s) + 1
         /\ \A i \in 1 .. Len(s) : Append(s, x)[i] = s[i]
         /\ Append(s, x)[Len(s) + 1] = x
  OBVIOUS

\* A page is copied from the place in the archive that follows the last one.
LEMMA CopyPageStep ==
  ASSUME BackupInv, NEW r \in Restores, Backups!CopyPage(r)
  PROVE  BackupInv'
<1> DEFINE old == restore[r].staged
           next == Len(old) + 1
           new == Append(old, archive.pages[next])
           pc == IF next = Backups!Pages THEN "finish" ELSE "copy"
<1>1. /\ old \in Seq(Nat) /\ archive.pages \in Seq(Nat) /\ restore[r].pc = "copy"
      /\ Len(old) \in Nat /\ Len(archive.pages) \in Nat
      /\ next \in 1 .. Len(archive.pages) /\ Len(old) < Backups!Pages
      /\ UNCHANGED <<version, archive, snapshot, backup, target, crossed>>
  BY DEF Backups!CopyPage, BackupInv, BackupTypes, StagedLength
<1>3. new \in Seq(Nat) /\ Len(new) = next
      /\ (\A i \in 1 .. Len(old) : new[i] = old[i]) /\ new[next] = archive.pages[next]
  <2>1. archive.pages[next] \in Nat
    BY <1>1
  <2> QED BY <1>1, <2>1, AppendFacts
<1>2. Moved(r, pc, new)
  BY <1>3 DEF Backups!CopyPage, BackupInv, BackupTypes, Moved, Stages
<1> HIDE DEF new
<1>4. restore'[r].pc = pc /\ restore'[r].staged = new
  BY <1>2 DEF Moved
<1>5. StagedLength(r)'
  <2>1. IF next = Backups!Pages THEN pc = "finish" ELSE pc = "copy" /\ next < Backups!Pages
    BY <1>1 DEF Backups!Pages
  <2> HIDE DEF pc, next
  <2> QED BY <1>3, <1>4, <2>1 DEF StagedLength
<1>6. StagedFits(r)'
  <2>1. r \notin crossed => \A i \in 1 .. Len(old) : old[i] = archive.pages[i]
    BY <1>1 DEF BackupInv, StagedFits
  <2>2. r \notin crossed => \A i \in 1 .. next : new[i] = archive.pages[i]
    <3>1. \A i \in 1 .. next : i \in 1 .. Len(old) \/ i = next
      BY <1>1
    <3> HIDE DEF next, old
    <3> QED BY <1>3, <2>1, <3>1
  <2> QED BY <1>1, <1>3, <1>4, <2>2 DEF StagedFits
<1>7. PublishedStays(r)'
  BY <1>4 DEF PublishedStays
<1> QED BY <1>1, <1>2, <1>5, <1>6, <1>7, OneRestore

\* A staged file that passes is two pages, of one moment unless it was crossed.
LEMMA ValidateStep ==
  ASSUME BackupInv, NEW r \in Restores, Backups!Validate(r)
  PROVE  BackupInv'
<1> DEFINE staged == restore[r].staged
<1>1. /\ restore[r].pc = "finish" /\ staged \in Seq(Nat) /\ Len(staged) = Backups!Pages
      /\ Len(staged) \in Nat /\ Len(archive.pages) \in Nat
      /\ UNCHANGED <<version, archive, snapshot, backup, target, crossed>>
  BY DEF Backups!Validate, Backups!Copied, BackupInv, BackupTypes, StagedLength
<1>2. Moved(r, "publish", staged)
  BY GotoMoves DEF Backups!Validate, Stages
<1>3. restore'[r].pc = "publish" /\ restore'[r].staged = staged
  BY <1>2 DEF Moved
<1>4. StagedFits(r)'
  <2>1. PICK v \in 1 .. version : AllAre(archive.pages, v)
    BY DEF BackupInv, ArchiveIsOfOneMoment
  <2>2. r \notin crossed => AllAre(staged, v)
    BY <1>1, <2>1 DEF BackupInv, StagedFits, AllAre
  <2> QED BY <1>1, <1>3, <2>1, <2>2 DEF StagedFits, AllAre
<1> QED BY <1>1, <1>2, <1>3, <1>4, OneRestore DEF StagedLength, PublishedStays

\* A file that is there keeps every later restore from publishing.
LEMMA NothingPublished ==
  ASSUME BackupInv, target = Backups!NoFile
  PROVE  \A r \in Restores : restore[r].pc # "published"
<1> SUFFICES ASSUME NEW r \in Restores, restore[r].pc = "published" PROVE FALSE
  OBVIOUS
<1>1. target.pages = restore[r].staged /\ Len(restore[r].staged) = Backups!Pages
  BY DEF BackupInv, StagedLength, PublishedStays
<1> QED BY <1>1 DEF Backups!NoFile, Backups!Pages

\* Publishing puts the staged file where nothing was.
LEMMA PublishStep ==
  ASSUME BackupInv, NEW r \in Restores, Backups!Publish(r)
  PROVE  BackupInv'
<1> DEFINE staged == restore[r].staged
<1>1. /\ restore[r].pc = "publish"
      /\ Moved(r, "published", staged)
      /\ target' = [pages |-> staged, by |-> r]
      /\ UNCHANGED <<version, archive, snapshot, backup, crossed>>
  BY GotoMoves DEF Backups!Publish, Stages
<1>2. \A q \in Restores : restore[q].pc # "published"
  BY NothingPublished DEF Backups!Publish
<1>3. BackupTypes'
  BY <1>1 DEF BackupInv, BackupTypes, Moved
<1>4. ArchiveIsOfOneMoment'
  BY <1>1 DEF BackupInv, ArchiveIsOfOneMoment, AllAre
<1>5. ASSUME NEW q \in Restores PROVE (StagedLength(q) /\ StagedFits(q) /\ PublishedStays(q))'
  <2>1. CASE q = r
    <3>1. restore'[q].pc = "published" /\ restore'[q].staged = staged
      BY <1>1, <2>1 DEF Moved
    <3> QED BY <1>1, <2>1, <3>1 DEF BackupInv, StagedLength, StagedFits,
       PublishedStays, AllAre
  <2>2. CASE q # r
    <3>1. restore'[q] = restore[q]
      BY <1>1, <2>2 DEF Moved
    <3> QED BY <1>1, <1>2, <3>1 DEF BackupInv, StagedLength, StagedFits,
       PublishedStays, AllAre
  <2> QED BY <2>1, <2>2
<1> QED BY <1>3, <1>4, <1>5 DEF BackupInv

\* A server that starts creates a database only where nothing was published.
LEMMA ServerStartsStep == BackupInv /\ Backups!ServerStarts => BackupInv'
<1> SUFFICES ASSUME BackupInv, Backups!ServerStarts PROVE BackupInv'
  OBVIOUS
<1>1. \A q \in Restores : restore[q].pc # "published"
  BY NothingPublished DEF Backups!ServerStarts
<1>2. BackupTypes' /\ ArchiveIsOfOneMoment'
  BY DEF Backups!ServerStarts, BackupInv, BackupTypes, ArchiveIsOfOneMoment, AllAre
<1>3. \A r \in Restores : (StagedLength(r) /\ StagedFits(r) /\ PublishedStays(r))'
  BY <1>1 DEF Backups!ServerStarts, BackupInv, StagedLength, StagedFits,
     PublishedStays, AllAre
<1> QED BY <1>2, <1>3 DEF BackupInv

\* Every step keeps the invariant.
LEMMA BackupStep == BackupInv /\ [Backups!Next]_(Backups!vars) => BackupInv'
<1> SUFFICES ASSUME BackupInv, [Backups!Next]_(Backups!vars) PROVE BackupInv'
  OBVIOUS
<1>1. CASE UNCHANGED Backups!vars
  <2>1. BackupTypes' /\ ArchiveIsOfOneMoment'
    BY <1>1 DEF Backups!vars, BackupInv, BackupTypes, ArchiveIsOfOneMoment, AllAre
  <2>2. \A r \in Restores : (StagedLength(r) /\ StagedFits(r) /\ PublishedStays(r))'
    BY <1>1, RestoresKept DEF Backups!vars
  <2> QED BY <2>1, <2>2 DEF BackupInv
<1> QED BY <1>1, CommitStep, SnapshotStep, CreateArchiveStep, AppendPageStep,
   BackupEndStep,
        OpenOrStopStep, CopyPageStep, ValidateStep, PublishStep, ServerStartsStep
           DEF Backups!Next

\* What a restore has published is two pages, of one moment unless crossed.
LEMMA BackupSuffices == BackupInv => Backups!RestoreIsWhole
<1> SUFFICES ASSUME BackupInv, NEW r \in Restores, restore[r].pc = "published"
             PROVE  /\ target = [pages |-> restore[r].staged, by |-> r]
                    /\ DOMAIN target.pages = 1 .. Backups!Pages
                    /\ r \notin crossed =>
                         \E v \in 1 .. version : target.pages = [i \in 1 .. Backups!Pages |-> v]
  BY DEF Backups!RestoreIsWhole
<1>1. /\ target = [pages |-> restore[r].staged, by |-> r]
      /\ restore[r].staged \in Seq(Nat) /\ Len(restore[r].staged) = Backups!Pages
  BY DEF BackupInv, BackupTypes, StagedLength, PublishedStays
<1>2. target.pages = restore[r].staged /\ DOMAIN target.pages = 1 .. Backups!Pages
  BY <1>1
<1>3. ASSUME r \notin crossed
      PROVE  \E v \in 1 .. version : target.pages = [i \in 1 .. Backups!Pages |-> v]
  <2>1. PICK v \in 1 .. version : AllAre(restore[r].staged, v)
    BY <1>3 DEF BackupInv, StagedFits
  <2>2. target.pages = [i \in 1 .. Backups!Pages |-> v]
    BY <1>1, <1>2, <2>1 DEF AllAre, Backups!Pages
  <2> QED BY <2>2
<1> QED BY <1>1, <1>2, <1>3

\* A restore that succeeds has put the source as it was at one moment where
\* there was nothing, whatever stops, and however many others run.
THEOREM RestoresAreWhole == Spec => []RestoreIsWhole
<1>1. Init => BackupInv
  BY BackupInit DEF Init
<1>2. BackupInv /\ [Next]_vars => BackupInv'
  BY BackupStep, StepsOfParts
<1>3. BackupInv => RestoreIsWhole
  BY BackupSuffices DEF RestoreIsWhole
<1> QED BY <1>1, <1>2, <1>3, PTL DEF Spec

-----------------------------------------------------------------------------
(* Embeddings.                                                             *)

EmbeddingsTables ==
  /\ at \in [Request -> {"resolve", "adapter", "call", "complete", "fail",
                         "usage", "cost", "done"}]
  /\ row \in [Request -> {"none", "accepted", "completed", "failed"}]
  /\ usage \in [Request -> Nat]
  /\ cost \in [Request -> Nat]

\* What a call that has yet to write something has written so far.
WrittenSoFar(r) ==
  /\ at[r] = "resolve" => row[r] = "none"
  /\ at[r] \in {"adapter", "call", "complete", "fail"} => row[r] = "accepted"
  /\ at[r] \in {"usage", "cost"} => row[r] \in {"accepted", "completed"}
  /\ at[r] \notin {"cost", "done"} => usage[r] = 0
  /\ at[r] # "done" => cost[r] = 0

EmbeddingsInv == EmbeddingsTables /\ \A r \in Request : WrittenSoFar(r)

-----------------------------------------------------------------------------

\* A call that is only created has written nothing.
LEMMA EmbeddingsInit == Embeddings!Init => EmbeddingsInv
  BY DEF Embeddings!Init, EmbeddingsInv, EmbeddingsTables, WrittenSoFar

\* Every step of a call keeps what the tables hold in line with where it is.
LEMMA EmbeddingsStep ==
  EmbeddingsInv /\ [Embeddings!Next]_(Embeddings!vars) => EmbeddingsInv'
<1> SUFFICES ASSUME EmbeddingsInv, [Embeddings!Next]_(Embeddings!vars) PROVE EmbeddingsInv'
  OBVIOUS
<1>1. CASE UNCHANGED Embeddings!vars
  BY <1>1 DEF Embeddings!vars, EmbeddingsInv, EmbeddingsTables, WrittenSoFar
<1>2. ASSUME NEW r \in Request,
             \/ Embeddings!Refuse(r) \/ Embeddings!GetAdapter(r)
             \/ Embeddings!Answer(r) \/ Embeddings!ClientGone(r)
      PROVE EmbeddingsInv'
  <2>1. PICK to \in {"done", "call", "complete", "fail"} :
          /\ at' = [at EXCEPT ![r] = to]
          /\ UNCHANGED <<row, usage, cost>>
          /\ to = "done" \/ at[r] \in {"adapter", "call"}
    BY <1>2 DEF Embeddings!Refuse, Embeddings!GetAdapter, Embeddings!Answer,
       Embeddings!ClientGone, Embeddings!Goto
  <2>2. EmbeddingsTables'
    BY <2>1 DEF EmbeddingsInv, EmbeddingsTables
  <2>3. \A q \in Request : WrittenSoFar(q)'
    BY <2>1 DEF EmbeddingsInv, EmbeddingsTables, WrittenSoFar
  <2> QED BY <2>2, <2>3 DEF EmbeddingsInv
<1>3. ASSUME NEW r \in Request, Embeddings!CreateRow(r) PROVE EmbeddingsInv'
  BY <1>3 DEF Embeddings!CreateRow, Embeddings!Goto, EmbeddingsInv, EmbeddingsTables,
     WrittenSoFar
<1>4. ASSUME NEW r \in Request, Embeddings!Finish(r) PROVE EmbeddingsInv'
  BY <1>4 DEF Embeddings!Finish, Embeddings!Written, Embeddings!Goto, EmbeddingsInv,
     EmbeddingsTables, WrittenSoFar
<1>5. ASSUME NEW r \in Request, Embeddings!InsertUsage(r) PROVE EmbeddingsInv'
  BY <1>5 DEF Embeddings!InsertUsage, Embeddings!Written, Embeddings!Goto,
     EmbeddingsInv, EmbeddingsTables, WrittenSoFar
<1>6. ASSUME NEW r \in Request, Embeddings!InsertCost(r) PROVE EmbeddingsInv'
  BY <1>6 DEF Embeddings!InsertCost, Embeddings!Written, Embeddings!Goto,
     EmbeddingsInv, EmbeddingsTables, WrittenSoFar
<1>7. ASSUME NEW r \in Request, Embeddings!FinishFailed(r) PROVE EmbeddingsInv'
  BY <1>7 DEF Embeddings!FinishFailed, Embeddings!Written, Embeddings!Goto,
     EmbeddingsInv, EmbeddingsTables, WrittenSoFar
<1> QED BY <1>1, <1>2, <1>3, <1>4, <1>5, <1>6, <1>7 DEF Embeddings!Next

\* A table starts empty, as the ledger does.
LEMMA EmbeddingsStartMapped == Embeddings!Init => Embeddings!Ledger!Init
  BY DEF Embeddings!Init, Embeddings!Ledger!Init

\* A step of a call is the ledger's step of that name, or writes nothing.
LEMMA EmbeddingsStepMapped ==
  EmbeddingsInv /\ [Embeddings!Next]_(Embeddings!vars) =>
    [Embeddings!Ledger!Next]_(Embeddings!Ledger!vars)
<1> SUFFICES ASSUME EmbeddingsInv, [Embeddings!Next]_(Embeddings!vars)
             PROVE  [Embeddings!Ledger!Next]_(Embeddings!Ledger!vars)
  OBVIOUS
<1> USE DEF Embeddings!Ledger!vars
<1>1. CASE UNCHANGED Embeddings!vars
  BY <1>1 DEF Embeddings!vars
<1>2. ASSUME NEW r \in Request,
             \/ Embeddings!Refuse(r) \/ Embeddings!GetAdapter(r)
             \/ Embeddings!Answer(r) \/ Embeddings!ClientGone(r)
      PROVE UNCHANGED <<row, usage, cost>>
  BY <1>2 DEF Embeddings!Refuse, Embeddings!GetAdapter, Embeddings!Answer,
     Embeddings!ClientGone
<1>3. ASSUME NEW r \in Request, Embeddings!CreateRow(r) PROVE Embeddings!Ledger!Accept(r)
  BY <1>3 DEF Embeddings!CreateRow, Embeddings!Goto, EmbeddingsInv, WrittenSoFar,
     Embeddings!Ledger!Accept
<1>4. ASSUME NEW r \in Request, Embeddings!Finish(r)
      PROVE Embeddings!Ledger!Finish(r, "completed") \/ UNCHANGED <<row, usage, cost>>
  BY <1>4 DEF Embeddings!Finish, Embeddings!Written, Embeddings!Goto, EmbeddingsInv,
     WrittenSoFar, Embeddings!Ledger!Finish
<1>5. ASSUME NEW r \in Request, Embeddings!FinishFailed(r)
      PROVE Embeddings!Ledger!Finish(r, "failed") \/ UNCHANGED <<row, usage, cost>>
  BY <1>5 DEF Embeddings!FinishFailed, Embeddings!Written, Embeddings!Goto,
     EmbeddingsInv, WrittenSoFar, Embeddings!Ledger!Finish
<1>6. ASSUME NEW r \in Request, Embeddings!InsertUsage(r)
      PROVE Embeddings!Ledger!InsertUsage(r) \/ UNCHANGED <<row, usage, cost>>
  BY <1>6 DEF Embeddings!InsertUsage, Embeddings!Written, Embeddings!Goto,
     EmbeddingsInv, WrittenSoFar, Embeddings!Ledger!InsertUsage
<1>7. ASSUME NEW r \in Request, Embeddings!InsertCost(r)
      PROVE Embeddings!Ledger!InsertCost(r) \/ UNCHANGED <<row, usage, cost>>
  BY <1>7 DEF Embeddings!InsertCost, Embeddings!Written, Embeddings!Goto,
     EmbeddingsInv, WrittenSoFar, Embeddings!Ledger!InsertCost
<1>8. {"completed", "failed"} \subseteq Embeddings!Ledger!Terminal
  BY DEF Embeddings!Ledger!Terminal
<1> QED BY <1>1, <1>2, <1>3, <1>4, <1>5, <1>6, <1>7, <1>8
        DEF Embeddings!Next, Embeddings!Ledger!Next

\* Embeddings write the ledger as a chat does, whichever of their writes fail
\* and whenever their clients go away.
THEOREM EmbeddingsImplementLedger == Spec => EmbeddingsLedger
<1>1. Init => EmbeddingsInv
  BY EmbeddingsInit DEF Init
<1>2. EmbeddingsInv /\ [Next]_vars => EmbeddingsInv'
  BY EmbeddingsStep, StepsOfParts
<1>3. Init => Embeddings!Ledger!Init
  BY EmbeddingsStartMapped DEF Init
<1>4. EmbeddingsInv /\ [Next]_vars => [Embeddings!Ledger!Next]_(Embeddings!Ledger!vars)
  BY EmbeddingsStepMapped, StepsOfParts
<1> QED BY <1>1, <1>2, <1>3, <1>4, PTL
        DEF Spec, EmbeddingsLedger, Embeddings!EmbeddingsLedger, Embeddings!Ledger!Spec

-----------------------------------------------------------------------------
(* Runtime jobs.                                                           *)

JobRows ==
  [status : {"pending", "running", "succeeded", "failed"}, attempt : Nat,
   available_at : Nat, won : BOOLEAN]

JobTypes ==
  /\ jobs \in Seq(JobRows) /\ jobTime \in Nat
  /\ work \in [Workers -> [pc : {"idle", "claiming", "running"}, job : Nat]]
  /\ \A w \in Workers :
       IF work[w].pc = "idle" THEN work[w].job = 0 ELSE work[w].job \in DOMAIN jobs

\* The workers that have selected job j and not marked it yet.
Claiming(j) == {w \in Workers : work[w].pc = "claiming" /\ work[w].job = j}

\* Each claim under way will count one attempt more, whatever the row says by
\* then; a row that can be selected has an attempt left.
ClaimsFit(j) ==
  /\ jobs[j].attempt + Cardinality(Claiming(j)) <= MaxAttempts + Cardinality(Workers) - 1
  /\ jobs[j].status = "pending" => jobs[j].attempt < MaxAttempts

\* A job nobody has crossed is with one worker at most, and its row tells where
\* that worker is.
RowTellsTheWorker(j) ==
  /\ \A v, w \in Jobs!Busy(j) : v = w
  /\ \A w \in Jobs!Busy(j) :
       ~jobs[j].won /\ jobs[j].status = (IF work[w].pc = "claiming" THEN "pending" ELSE "running")
  /\ jobs[j].won => jobs[j].status = "succeeded"
  /\ jobs[j].attempt <= MaxAttempts

JobInv ==
  /\ JobTypes
  /\ \A j \in DOMAIN jobs : ClaimsFit(j) /\ (j \notin overlapped => RowTellsTheWorker(j))

\* There are no more claims than workers.
LEMMA ClaimsAreFew ==
  ASSUME NEW j
  PROVE  /\ IsFiniteSet(Workers) /\ Cardinality(Workers) \in Nat
         /\ IsFiniteSet(Claiming(j)) /\ Cardinality(Claiming(j)) \in Nat
         /\ Cardinality(Claiming(j)) <= Cardinality(Workers)
<1>1. Claiming(j) \in SUBSET Workers
  BY DEF Claiming
<1> QED BY <1>1, WorkersAssumption, FS_Subset, FS_CardinalityType

\* What a worker turns to is all that changes in who claims and who is busy.
LEMMA OneWorkerTurns ==
  ASSUME JobTypes, NEW w \in Workers, NEW new, work' = [work EXCEPT ![w] = new]
  PROVE  work'[w] = new /\ \A v \in Workers \ {w} : work'[v] = work[v]
  BY DEF JobTypes

\* The queue starts empty.
LEMMA JobsStart == Jobs!Init => JobInv
<1> SUFFICES ASSUME Jobs!Init PROVE JobInv
  OBVIOUS
<1>1. jobs = <<>> /\ jobs \in Seq(JobRows) /\ DOMAIN jobs = {}
  BY DEF Jobs!Init
<1>2. JobTypes
  BY <1>1 DEF Jobs!Init, Jobs!Resting, JobTypes
<1> QED BY <1>1, <1>2 DEF JobInv

\* A new row was selected by nobody.
LEMMA EnqueueStep == JobInv /\ Jobs!Enqueue => JobInv'
<1> SUFFICES ASSUME JobInv, Jobs!Enqueue PROVE JobInv'
  OBVIOUS
<1> DEFINE new == [status |-> "pending", attempt |-> 0, available_at |-> jobTime, won |-> FALSE]
<1>0. PICK n \in Nat \ {0} : n = Len(jobs) + 1
  BY DEF JobInv, JobTypes
<1>1. /\ jobs \in Seq(JobRows) /\ new \in JobRows
      /\ jobs' = Append(jobs, new) /\ UNCHANGED <<work, jobTime, overlapped>>
  BY DEF Jobs!Enqueue, JobInv, JobTypes, JobRows
<1>2. /\ jobs' \in Seq(JobRows) /\ DOMAIN jobs' = DOMAIN jobs \union {n}
      /\ jobs'[n] = new /\ (\A j \in DOMAIN jobs : jobs'[j] = jobs[j])
      /\ n \notin DOMAIN jobs /\ 0 \notin DOMAIN jobs
  BY <1>0, <1>1
<1>3. JobTypes'
  BY <1>1, <1>2 DEF JobInv, JobTypes
<1>4. Jobs!Busy(n) = {} /\ Claiming(n) = {}
  BY <1>1, <1>2 DEF JobInv, JobTypes, Jobs!Busy, Claiming
<1>5. \A j : Jobs!Busy(j)' = Jobs!Busy(j) /\ Claiming(j)' = Claiming(j)
  BY <1>1 DEF Jobs!Busy, Claiming
<1>6. ClaimsFit(n)'
  <2>1. Cardinality(Claiming(n)') = 0
    BY <1>4, <1>5, FS_EmptySet
  <2>2. jobs'[n].attempt = 0
    BY <1>2
  <2> QED BY <2>1, <2>2, AttemptsAssumption, ClaimsAreFew DEF ClaimsFit
<1>7. RowTellsTheWorker(n)'
  BY <1>2, <1>4, <1>5, AttemptsAssumption DEF RowTellsTheWorker
<1>8. ASSUME NEW j \in DOMAIN jobs
      PROVE  ClaimsFit(j)' /\ (j \notin overlapped' => RowTellsTheWorker(j)')
  BY <1>1, <1>2, <1>5, <1>8 DEF JobInv, ClaimsFit, RowTellsTheWorker
<1> QED BY <1>2, <1>3, <1>6, <1>7, <1>8 DEF JobInv

\* A selected row has an attempt left for the worker that selected it.
LEMMA SelectStep == ASSUME JobInv, NEW w \in Workers, Jobs!Select(w) PROVE JobInv'
<1>1. PICK j \in Jobs!Due :
        /\ work[w].pc = "idle" /\ work' = [work EXCEPT ![w] = [pc |-> "claiming", job |-> j]]
        /\ overlapped' = IF Jobs!Busy(j) = {} THEN overlapped ELSE overlapped \union {j}
        /\ UNCHANGED <<jobs, jobTime>>
  BY DEF Jobs!Select
<1>2. /\ j \in DOMAIN jobs /\ j \in Nat \ {0} /\ jobs[j].status = "pending"
      /\ DOMAIN jobs \subseteq Nat \ {0} /\ work[w].job = 0
  BY <1>1 DEF Jobs!Due, JobInv, JobTypes
<1>3. JobTypes'
  BY <1>1, <1>2 DEF JobInv, JobTypes
<1>4. /\ Claiming(j)' = Claiming(j) \union {w} /\ Jobs!Busy(j)' = Jobs!Busy(j) \union {w}
      /\ \A k \in DOMAIN jobs \ {j} :
           Claiming(k)' = Claiming(k) /\ Jobs!Busy(k)' = Jobs!Busy(k)
      /\ work'[w].pc = "claiming" /\ \A v \in Workers \ {w} : work'[v] = work[v]
  <2>1. /\ \A v \in Workers \ {w} : work'[v] = work[v]
        /\ work'[w].pc = "claiming"
        /\ \A k : k # j => Claiming(k)' = Claiming(k) \ {w}
        /\ Claiming(j)' = Claiming(j) \union {w}
        /\ \A k : k # j => Jobs!Busy(k)' = Jobs!Busy(k) \ {w}
        /\ Jobs!Busy(j)' = Jobs!Busy(j) \union {w}
    <3>1. /\ work'[w] = [pc |-> "claiming", job |-> j]
          /\ \A v \in Workers \ {w} : work'[v] = work[v]
      BY <1>1, OneWorkerTurns DEF JobInv
    <3>2. work'[w].pc = "claiming" /\ work'[w].job = j
      BY <3>1
    <3> QED BY <3>1, <3>2 DEF Claiming, Jobs!Busy
  <2>2. ASSUME NEW k \in DOMAIN jobs
        PROVE  Claiming(k) \ {w} = Claiming(k) /\ Jobs!Busy(k) \ {w} = Jobs!Busy(k)
    BY <1>1, <1>2 DEF Claiming, Jobs!Busy
  <2>3. ASSUME NEW k \in DOMAIN jobs \ {j}
        PROVE  Claiming(k)' = Claiming(k) /\ Jobs!Busy(k)' = Jobs!Busy(k)
    <3>1. Claiming(k)' = Claiming(k) \ {w} /\ Jobs!Busy(k)' = Jobs!Busy(k) \ {w}
      BY <2>1
    <3> QED BY <2>2, <3>1
  <2> QED BY <2>1, <2>3
<1>5. ClaimsFit(j)'
  <2>1. Cardinality(Claiming(j)') \in Nat /\ Cardinality(Claiming(j)') <= Cardinality(Workers)
    <3>1. Claiming(j)' \in SUBSET Workers
      BY <1>4 DEF Claiming
    <3> QED BY <3>1, WorkersAssumption, FS_Subset, FS_CardinalityType
  <2>2. jobs[j].attempt < MaxAttempts /\ jobs[j].attempt \in Nat
    <3>1. jobs[j] \in JobRows /\ ClaimsFit(j)
      BY <1>2 DEF JobInv, JobTypes
    <3> QED BY <1>2, <3>1 DEF JobRows, ClaimsFit
  <2>3. jobs' = jobs /\ Cardinality(Workers) \in Nat /\ MaxAttempts \in Nat
    BY <1>1, ClaimsAreFew, AttemptsAssumption
  <2> QED BY <2>1, <2>2, <2>3 DEF ClaimsFit
<1>6. j \notin overlapped' => RowTellsTheWorker(j)'
  BY <1>1, <1>2, <1>4 DEF JobInv, RowTellsTheWorker
<1>7. ASSUME NEW k \in DOMAIN jobs, k # j
      PROVE  ClaimsFit(k)' /\ (k \notin overlapped' => RowTellsTheWorker(k)')
  <2>1. \A v \in Jobs!Busy(k) : work'[v] = work[v]
    BY <1>2, <1>4, <1>7 DEF Jobs!Busy
  <2> QED BY <1>1, <1>4, <1>7, <2>1 DEF JobInv, ClaimsFit, RowTellsTheWorker
<1> QED BY <1>1, <1>3, <1>5, <1>6, <1>7 DEF JobInv

\* A claim turns into an attempt.
LEMMA ClaimStep == ASSUME JobInv, NEW w \in Workers, Jobs!Claim(w) PROVE JobInv'
<1>1. PICK j \in DOMAIN jobs : j = work[w].job
  BY DEF Jobs!Claim, JobInv, JobTypes
<1> DEFINE new == [jobs[j] EXCEPT !.status = "running", !.attempt = @ + 1]
<1>2. /\ work[w].pc = "claiming" /\ work[w].job = j /\ jobs[j] \in JobRows
      /\ DOMAIN jobs \subseteq Nat \ {0}
      /\ work' = [work EXCEPT ![w] = [pc |-> "running", job |-> j]]
      /\ jobs' = [jobs EXCEPT ![j] = new]
      /\ UNCHANGED <<jobTime, overlapped>>
  <2>1. /\ work[w].pc = "claiming" /\ work[w].job = j /\ jobs[j] \in JobRows
        /\ DOMAIN jobs \subseteq Nat \ {0} /\ UNCHANGED <<jobTime, overlapped>>
    BY <1>1 DEF Jobs!Claim, JobInv, JobTypes
  <2>2. [work[w] EXCEPT !.pc = "running"] = [pc |-> "running", job |-> j]
    BY <1>1 DEF JobInv, JobTypes
  <2>3. work' = [work EXCEPT ![w] = [work[w] EXCEPT !.pc = "running"]]
    BY DEF Jobs!Claim
  <2>4. jobs' = [jobs EXCEPT ![j] = new]
    BY <1>1, <2>1 DEF Jobs!Claim
  <2> QED BY <2>1, <2>2, <2>3, <2>4
<1>3. /\ new \in JobRows /\ new.attempt = jobs[j].attempt + 1 /\ new.status = "running"
      /\ new.won = jobs[j].won
  <2>1. jobs[j] \in JobRows
    BY <1>2
  <2> DEFINE marked == [jobs[j] EXCEPT !.status = "running"]
  <2>2. /\ marked \in JobRows /\ marked.attempt = jobs[j].attempt /\ marked.status = "running"
        /\ marked.won = jobs[j].won
    BY <2>1 DEF JobRows
  <2>3. new = [marked EXCEPT !.attempt = @ + 1]
    OBVIOUS
  <2> HIDE DEF marked, new
  <2> QED BY <2>2, <2>3 DEF JobRows
<1> HIDE DEF new
<1>4. /\ jobs' \in Seq(JobRows) /\ DOMAIN jobs' = DOMAIN jobs /\ jobs'[j] = new
      /\ \A k \in DOMAIN jobs \ {j} : jobs'[k] = jobs[k]
  BY <1>2, <1>3 DEF JobInv, JobTypes
<1>5. JobTypes'
  BY <1>1, <1>2, <1>4 DEF JobInv, JobTypes
<1>6. /\ work'[w].pc = "running" /\ \A v \in Workers \ {w} : work'[v] = work[v]
      /\ \A k : Claiming(k)' = Claiming(k) \ {w}
      /\ Jobs!Busy(j)' = Jobs!Busy(j) \union {w}
      /\ \A k : k # j => Jobs!Busy(k)' = Jobs!Busy(k) \ {w}
  <2>1. /\ work'[w] = [pc |-> "running", job |-> j]
        /\ \A v \in Workers \ {w} : work'[v] = work[v]
    BY <1>2, OneWorkerTurns DEF JobInv
  <2>2. work'[w].pc = "running" /\ work'[w].job = j
    BY <2>1
  <2> QED BY <2>1, <2>2 DEF Claiming, Jobs!Busy
<1>7. ClaimsFit(j)'
  <2>1. w \in Claiming(j)
    BY <1>2 DEF Claiming
  <2>2. Cardinality(Claiming(j)') = Cardinality(Claiming(j)) - 1
    BY <1>6, <2>1, ClaimsAreFew, FS_RemoveElement
  <2>3. jobs[j].attempt \in Nat /\ Cardinality(Claiming(j)) \in Nat
    BY <1>2, ClaimsAreFew DEF JobRows
  <2> QED BY <1>3, <1>4, <2>2, <2>3 DEF JobInv, ClaimsFit
<1>8. j \notin overlapped' => RowTellsTheWorker(j)'
  <2>1. w \in Jobs!Busy(j) /\ jobs[j].attempt \in Nat /\ MaxAttempts \in Nat
    BY <1>2, AttemptsAssumption DEF Jobs!Busy, JobRows
  <2>2. Jobs!Busy(j)' = Jobs!Busy(j)
    BY <1>6, <2>1
  <2>3. j \notin overlapped =>
          /\ RowTellsTheWorker(j) /\ ~jobs[j].won /\ jobs[j].attempt < MaxAttempts
          /\ \A v \in Jobs!Busy(j) : v = w
    BY <1>2, <2>1 DEF JobInv, RowTellsTheWorker, ClaimsFit
  <2> QED BY <1>2, <1>3, <1>4, <1>6, <2>1, <2>2, <2>3 DEF RowTellsTheWorker
<1>9. ASSUME NEW k \in DOMAIN jobs, k # j
      PROVE  ClaimsFit(k)' /\ (k \notin overlapped' => RowTellsTheWorker(k)')
  <2>1. Claiming(k) \ {w} = Claiming(k) /\ Jobs!Busy(k) \ {w} = Jobs!Busy(k)
    BY <1>2, <1>9 DEF Claiming, Jobs!Busy
  <2>2. /\ Claiming(k)' = Claiming(k) /\ Jobs!Busy(k)' = Jobs!Busy(k)
        /\ jobs'[k] = jobs[k]
    BY <1>4, <1>6, <1>9, <2>1
  <2>3. \A v \in Jobs!Busy(k) : work'[v] = work[v]
    BY <1>2, <1>6, <1>9 DEF Jobs!Busy
  <2> QED BY <1>2, <1>9, <2>2, <2>3 DEF JobInv, ClaimsFit, RowTellsTheWorker
<1> QED BY <1>4, <1>5, <1>7, <1>8, <1>9 DEF JobInv

\* The worker gives its job up, with what it wrote into the row: nothing, or
\* how the attempt ended.
LEMMA GiveUpStep ==
  ASSUME JobInv, NEW w \in Workers, NEW j \in DOMAIN jobs, j = work[w].job,
         work' = [work EXCEPT ![w] = Jobs!Resting], UNCHANGED <<jobTime, overlapped>>,
         \/ jobs' = jobs
         \/ /\ work[w].pc = "running"
            /\ \E new \in JobRows :
                 /\ jobs' = [jobs EXCEPT ![j] = new] /\ new.attempt = jobs[j].attempt
                 /\ new.status = "pending" => new.attempt < MaxAttempts
                 /\ IF new.status = "succeeded" THEN TRUE ELSE new.won = jobs[j].won
  PROVE  JobInv'
<1>1. /\ work' = [work EXCEPT ![w] = [pc |-> "idle", job |-> 0]]
      /\ DOMAIN jobs \subseteq Nat \ {0} /\ w \in Jobs!Busy(j)
  BY DEF Jobs!Resting, JobInv, JobTypes, Jobs!Busy
<1>2. /\ jobs' \in Seq(JobRows) /\ DOMAIN jobs' = DOMAIN jobs
      /\ \A k \in DOMAIN jobs \ {j} : jobs'[k] = jobs[k]
      /\ jobs'[j].attempt = jobs[j].attempt
      /\ \/ jobs'[j] = jobs[j]
         \/ /\ work[w].pc = "running"
            /\ jobs'[j].status = "pending" => jobs[j].attempt < MaxAttempts
            /\ jobs'[j].status = "succeeded" \/ jobs'[j].won = jobs[j].won
  <2>1. CASE jobs' = jobs
    BY <2>1 DEF JobInv, JobTypes
  <2>2. CASE jobs' # jobs
    <3>1. PICK new \in JobRows :
            /\ work[w].pc = "running"
            /\ jobs' = [jobs EXCEPT ![j] = new] /\ new.attempt = jobs[j].attempt
            /\ new.status = "pending" => new.attempt < MaxAttempts
            /\ new.status = "succeeded" \/ new.won = jobs[j].won
      BY <2>2
    <3>2. jobs'[j] = new
      BY <3>1 DEF JobInv, JobTypes
    <3> QED BY <3>1, <3>2 DEF JobInv, JobTypes
  <2> QED BY <2>1, <2>2
<1>3. JobTypes'
  BY <1>1, <1>2 DEF JobInv, JobTypes
<1>4. /\ \A v \in Workers \ {w} : work'[v] = work[v]
      /\ \A k : Claiming(k)' = Claiming(k) \ {w}
      /\ \A k : k # 0 => Jobs!Busy(k)' = Jobs!Busy(k) \ {w}
  <2>1. /\ work'[w] = [pc |-> "idle", job |-> 0]
        /\ \A v \in Workers \ {w} : work'[v] = work[v]
    BY <1>1, OneWorkerTurns DEF JobInv
  <2>2. work'[w].pc = "idle" /\ work'[w].job = 0
    BY <2>1
  <2> QED BY <2>1, <2>2 DEF Claiming, Jobs!Busy
<1>5. ASSUME NEW k \in DOMAIN jobs PROVE ClaimsFit(k)'
  <2>1. /\ Cardinality(Claiming(k)') \in Nat /\ Cardinality(Claiming(k)) \in Nat
        /\ Cardinality(Claiming(k)') <= Cardinality(Claiming(k))
    <3>1. Claiming(k)' \in SUBSET Claiming(k)
      BY <1>4
    <3> QED BY <3>1, ClaimsAreFew, FS_Subset, FS_CardinalityType
  <2>2. /\ jobs'[k].attempt = jobs[k].attempt /\ jobs[k].attempt \in Nat
        /\ jobs'[k].status = "pending" => jobs[k].attempt < MaxAttempts
    <3>1. jobs[k] \in JobRows /\ (jobs[k].status = "pending" => jobs[k].attempt < MaxAttempts)
      BY DEF JobInv, JobTypes, ClaimsFit
    <3> QED BY <1>2, <3>1 DEF JobRows
  <2> QED BY <2>1, <2>2, ClaimsAreFew, AttemptsAssumption DEF JobInv, ClaimsFit
<1>6. ASSUME NEW k \in DOMAIN jobs, k \notin overlapped PROVE RowTellsTheWorker(k)'
  <2>1. RowTellsTheWorker(k) /\ Jobs!Busy(k)' = Jobs!Busy(k) \ {w}
    BY <1>1, <1>4, <1>6 DEF JobInv
  <2>2. \A v \in Jobs!Busy(k)' : work'[v] = work[v]
    BY <1>4, <2>1 DEF Jobs!Busy
  <2>3. CASE k = j
    <3>1. Jobs!Busy(k)' = {}
      BY <1>1, <2>1, <2>3 DEF RowTellsTheWorker
    <3>2. work[w].pc = "running" => ~jobs[j].won
      BY <1>1, <2>1, <2>3 DEF RowTellsTheWorker
    <3>3. jobs'[j].won => jobs'[j].status = "succeeded"
      BY <1>2, <2>1, <2>3, <3>2 DEF RowTellsTheWorker
    <3>4. jobs'[j].attempt <= MaxAttempts
      BY <1>2, <2>1, <2>3 DEF RowTellsTheWorker
    <3> QED BY <2>3, <3>1, <3>3, <3>4 DEF RowTellsTheWorker
  <2>4. CASE k # j
    <3>1. jobs'[k] = jobs[k] /\ Jobs!Busy(k)' \subseteq Jobs!Busy(k)
      BY <1>2, <1>6, <2>1, <2>4
    <3> QED BY <2>1, <2>2, <3>1 DEF RowTellsTheWorker
  <2> QED BY <2>3, <2>4
<1> QED BY <1>2, <1>3, <1>5, <1>6 DEF JobInv

\* A report says how the attempt ended; a worker that dies says nothing.
LEMMA ReportOrDieStep ==
  ASSUME JobInv, NEW w \in Workers, Jobs!Finish(w) \/ Jobs!Die(w) PROVE JobInv'
<1>1. PICK j \in DOMAIN jobs : j = work[w].job
  BY DEF Jobs!Finish, Jobs!Report, Jobs!Die, JobInv, JobTypes
<1>2. jobs[j] \in JobRows /\ jobTime + RetryDelay \in Nat
  BY DelayAssumption DEF JobInv, JobTypes
<1>3. CASE Jobs!Die(w)
  BY <1>1, <1>3, GiveUpStep DEF Jobs!Die
<1>4. CASE Jobs!Finish(w)
  <2> DEFINE done == [jobs[j] EXCEPT !.status = "succeeded", !.won = TRUE]
             again == [jobs[j] EXCEPT
                         !.status = IF Jobs!Retries(jobs[j]) THEN "pending" ELSE "failed",
                         !.available_at = jobTime + RetryDelay]
  <2>1. done \in JobRows /\ done.attempt = jobs[j].attempt /\ done.status = "succeeded"
    <3> DEFINE marked == [jobs[j] EXCEPT !.status = "succeeded"]
    <3>1. /\ marked \in JobRows /\ marked.attempt = jobs[j].attempt
          /\ marked.status = "succeeded"
      BY <1>2 DEF JobRows
    <3>2. done = [marked EXCEPT !.won = TRUE]
      OBVIOUS
    <3> HIDE DEF marked, done
    <3> QED BY <3>1, <3>2 DEF JobRows
  <2>2. /\ again \in JobRows /\ again.attempt = jobs[j].attempt /\ again.won = jobs[j].won
        /\ again.status = "pending" => again.attempt < MaxAttempts
    <3> DEFINE status == IF Jobs!Retries(jobs[j]) THEN "pending" ELSE "failed"
               marked == [jobs[j] EXCEPT !.status = status]
    <3>1. /\ status \in {"pending", "failed"}
          /\ status = "pending" => jobs[j].attempt < MaxAttempts
      BY DEF Jobs!Retries
    <3>2. again = [marked EXCEPT !.available_at = jobTime + RetryDelay]
      OBVIOUS
    <3> HIDE DEF status
    <3>3. /\ marked \in JobRows /\ marked.attempt = jobs[j].attempt
          /\ marked.won = jobs[j].won /\ marked.status = status
      BY <1>2, <3>1 DEF JobRows
    <3> HIDE DEF marked, again
    <3> QED BY <1>2, <3>1, <3>2, <3>3 DEF JobRows
  <2>3. /\ work[w].pc = "running" /\ work' = [work EXCEPT ![w] = Jobs!Resting]
        /\ UNCHANGED <<jobTime, overlapped>>
        /\ jobs' = [jobs EXCEPT ![j] = done] \/ jobs' = [jobs EXCEPT ![j] = again]
    BY <1>1, <1>4 DEF Jobs!Finish, Jobs!Report
  <2> HIDE DEF done, again
  <2>4. \E new \in JobRows :
          /\ jobs' = [jobs EXCEPT ![j] = new] /\ new.attempt = jobs[j].attempt
          /\ new.status = "pending" => new.attempt < MaxAttempts
          /\ IF new.status = "succeeded" THEN TRUE ELSE new.won = jobs[j].won
    BY <2>1, <2>2, <2>3
  <2> QED BY <1>1, <2>3, <2>4, GiveUpStep
<1> QED BY <1>3, <1>4

\* A row that is put back begins anew; whoever still works on it has crossed it.
LEMMA RequeueStep == ASSUME JobInv, NEW j \in Nat, Jobs!Requeue(j) PROVE JobInv'
<1> DEFINE new == [status |-> "pending", attempt |-> 0, available_at |-> jobTime, won |-> FALSE]
<1>1. /\ j \in DOMAIN jobs /\ jobs' = [jobs EXCEPT ![j] = new] /\ new \in JobRows
      /\ overlapped' = IF Jobs!Busy(j) = {} THEN overlapped \ {j} ELSE overlapped \union {j}
      /\ UNCHANGED <<work, jobTime>>
  BY DEF Jobs!Requeue, JobInv, JobTypes, JobRows
<1>2. /\ jobs' \in Seq(JobRows) /\ DOMAIN jobs' = DOMAIN jobs /\ jobs'[j] = new
      /\ \A k \in DOMAIN jobs \ {j} : jobs'[k] = jobs[k]
  BY <1>1 DEF JobInv, JobTypes
<1>3. JobTypes'
  BY <1>1, <1>2 DEF JobInv, JobTypes
<1>4. \A k : Jobs!Busy(k)' = Jobs!Busy(k) /\ Claiming(k)' = Claiming(k)
  BY <1>1 DEF Jobs!Busy, Claiming
<1>5. ClaimsFit(j)'
  BY <1>2, <1>4, ClaimsAreFew, AttemptsAssumption DEF ClaimsFit
<1>6. j \notin overlapped' => RowTellsTheWorker(j)'
  BY <1>1, <1>2, <1>4, AttemptsAssumption DEF RowTellsTheWorker
<1>7. ASSUME NEW k \in DOMAIN jobs, k # j
      PROVE  ClaimsFit(k)' /\ (k \notin overlapped' => RowTellsTheWorker(k)')
  BY <1>1, <1>2, <1>4, <1>7 DEF JobInv, ClaimsFit, RowTellsTheWorker
<1> QED BY <1>2, <1>3, <1>5, <1>6, <1>7 DEF JobInv

\* Every step of the workers and of the administrator keeps the invariant.
LEMMA JobStep == JobInv /\ [Jobs!Next]_(Jobs!vars) => JobInv'
<1> SUFFICES ASSUME JobInv, [Jobs!Next]_(Jobs!vars) PROVE JobInv'
  OBVIOUS
<1>1. CASE UNCHANGED <<jobs, work, overlapped>> /\ jobTime' \in Nat
  <2>1. JobTypes'
    BY <1>1 DEF JobInv, JobTypes
  <2>2. \A j \in DOMAIN jobs : ClaimsFit(j)' /\ (j \notin overlapped => RowTellsTheWorker(j)')
    BY <1>1 DEF JobInv, ClaimsFit, Claiming, RowTellsTheWorker, Jobs!Busy
  <2> QED BY <1>1, <2>1, <2>2 DEF JobInv
<1>2. Jobs!Tick \/ UNCHANGED Jobs!vars => UNCHANGED <<jobs, work, overlapped>> /\ jobTime' \in Nat
  BY DEF Jobs!Tick, Jobs!vars, JobInv, JobTypes
<1>3. \A j \in 1 .. MaxJobs : j \in Nat
  OBVIOUS
<1> QED BY <1>1, <1>2, <1>3, EnqueueStep, SelectStep, ClaimStep, ReportOrDieStep, RequeueStep
        DEF Jobs!Next

\* A job is run no more often than its row allows and each overlap of workers
\* adds, and one that nobody crossed is run by one at a time and once only after
\* it has succeeded, for any number of workers, jobs and requeues.
THEOREM RunsStayBounded == Spec => []RunsAreBounded
<1>1. Init => JobInv
  BY JobsStart DEF Init
<1>2. JobInv /\ [Next]_vars => JobInv'
  BY JobStep, StepsOfParts
<1>3. ASSUME JobInv, NEW j \in DOMAIN jobs
      PROVE  /\ jobs[j].attempt <= MaxAttempts + Cardinality(Workers) - 1
             /\ j \notin overlapped =>
                  /\ jobs[j].attempt <= MaxAttempts
                  /\ Cardinality(Jobs!Busy(j)) <= 1
                  /\ jobs[j].won => jobs[j].status = "succeeded"
  <2>1. jobs[j] \in JobRows
    BY <1>3 DEF JobInv, JobTypes
  <2>2. jobs[j].attempt <= MaxAttempts + Cardinality(Workers) - 1
    BY <1>3, <2>1, ClaimsAreFew, AttemptsAssumption DEF JobRows, JobInv, ClaimsFit
  <2>3. ASSUME j \notin overlapped PROVE Cardinality(Jobs!Busy(j)) <= 1
    <3>1. \A v, w \in Jobs!Busy(j) : v = w
      BY <1>3, <2>3 DEF JobInv, RowTellsTheWorker
    <3>2. CASE Jobs!Busy(j) = {}
      <4>1. Cardinality(Jobs!Busy(j)) = 0
        BY <3>2, FS_EmptySet
      <4> QED BY <4>1
    <3>3. ASSUME NEW w \in Jobs!Busy(j) PROVE Cardinality(Jobs!Busy(j)) <= 1
      <4>1. Jobs!Busy(j) = {w}
        BY <3>1, <3>3
      <4>2. Cardinality({w}) = 1
        BY FS_Singleton
      <4> QED BY <4>1, <4>2
    <3> QED BY <3>2, <3>3
  <2> QED BY <1>3, <2>2, <2>3 DEF JobInv, RowTellsTheWorker
<1>4. JobInv => RunsAreBounded
  <2>1. \A S : Jobs!Cardinality(S) = Cardinality(S)
    BY DEF Jobs!Cardinality, Cardinality
  <2> SUFFICES ASSUME JobInv PROVE Jobs!RunsAreBounded
    BY DEF RunsAreBounded
  <2> QED BY <1>3, <2>1 DEF Jobs!RunsAreBounded
<1> QED BY <1>1, <1>2, <1>4, PTL DEF Spec

-----------------------------------------------------------------------------
(* Who may change what through the admin API.                              *)

\* A permission that guards a change is held by the roles whose own it is.
LEMMA PermissionsAreHeld ==
  ASSUME NEW role
  PROVE  /\ \A p \in {"security.manage", "user.manage"} :
              p \in Access!Grants(role) => role = "super_admin"
         /\ \A p \in {"provider.write", "model.write", "virtual_model.write",
                      "application.write", "api_key.create", "kb.write", "agent.write",
                      "tool.register"} :
              p \in Access!Grants(role) => role \in {"super_admin", "ai_admin"}
         /\ \A p \in {"prompt.write", "eval.run"} :
              p \in Access!Grants(role) => role \in {"super_admin", "ai_admin", "developer"}
<1>1. Access!Roles = {"super_admin", "ai_admin", "security_auditor", "developer", "end_user"}
  BY DEF Access!Roles, Access!Permissions
<1>2. CASE role \notin Access!Roles
  BY <1>2 DEF Access!Grants
<1>3. CASE role \in Access!Roles
  BY <1>1, <1>3 DEF Access!Grants, Access!Permissions, Access!AllOf
<1> QED BY <1>2, <1>3

\* The changes of each route, by the resources that the permissions tell apart.
LEMMA ChangesOfRoutes ==
  ASSUME NEW route \in Access!Routes
  PROVE  \/ route.read /\ route.changes = {}
         \/ /\ ~route.read
            /\ route.resource \in {"jobs", "security", "mcp-servers", "users"}
            /\ route.changes \subseteq {"mcp_servers", "policies", "users", "jobs"}
         \/ /\ ~route.read
            /\ route.resource \in {"prompts", "prompt-versions", "evals", "playground"}
            /\ route.changes \subseteq {"prompts", "evals", "requests"}
         \/ /\ ~route.read
            /\ route.resource \in {"providers", "models", "virtual-models", "applications", "keys",
                                   "knowledge-bases", "documents", "agents", "agent-versions",
                                   "tools"}
            /\ route.changes \subseteq {"providers", "models", "virtual_models", "applications",
                                        "api_keys", "knowledge", "tools", "agents", "agent_runs",
                                        "requests"}
<1> USE DEF Access!Reads, Access!Writes
<1>1. CASE route \in Access!SystemRoutes
  BY <1>1 DEF Access!SystemRoutes
<1>2. CASE route \in Access!ProviderRoutes
  BY <1>2 DEF Access!ProviderRoutes
<1>3. CASE route \in Access!ModelRoutes \union Access!VirtualModelRoutes
  BY <1>3 DEF Access!ModelRoutes, Access!VirtualModelRoutes
<1>4. CASE route \in Access!ApplicationRoutes
  BY <1>4 DEF Access!ApplicationRoutes
<1>5. CASE route \in Access!UsageRoutes \union Access!PlaygroundRoutes
  BY <1>5 DEF Access!UsageRoutes, Access!PlaygroundRoutes
<1>6. CASE route \in Access!PromptRoutes
  BY <1>6 DEF Access!PromptRoutes
<1>7. CASE route \in Access!KnowledgeRoutes
  BY <1>7 DEF Access!KnowledgeRoutes
<1>8. CASE route \in Access!ToolRoutes
  BY <1>8 DEF Access!ToolRoutes
<1>9. CASE route \in Access!AgentRoutes
  BY <1>9 DEF Access!AgentRoutes
<1>10. CASE route \in Access!EvalRoutes
  BY <1>10 DEF Access!EvalRoutes
<1>11. CASE route \in Access!PolicyRoutes \union Access!UserRoutes
  BY <1>11 DEF Access!PolicyRoutes, Access!UserRoutes
<1> QED BY <1>1, <1>2, <1>3, <1>4, <1>5, <1>6, <1>7, <1>8, <1>9, <1>10, <1>11
        DEF Access!Routes

\* What a route changes is within what the roles that may call it are for.
LEMMA RoutesKeepToRoles ==
  ASSUME NEW route \in Access!Routes, NEW role,
         Access!Required(route) \in Access!Grants(role)
  PROVE  route.changes \subseteq Access!ItsOwn(role)
<1> USE DEF Access!Required, Access!Permission
<1>1. CASE route.changes = {}
  BY <1>1
<1>2. CASE /\ route.resource \in {"jobs", "security", "mcp-servers", "users"}
           /\ route.changes \subseteq {"mcp_servers", "policies", "users", "jobs"}
  <2>1. Access!Required(route) \in {"security.manage", "user.manage"}
    BY <1>2
  <2>2. role = "super_admin"
    BY <2>1, PermissionsAreHeld
  <2> QED BY <1>2, <2>2 DEF Access!ItsOwn
<1>3. CASE /\ route.resource \in {"prompts", "prompt-versions", "evals", "playground"}
           /\ route.changes \subseteq {"prompts", "evals", "requests"}
  <2>1. Access!Required(route) \in {"prompt.write", "eval.run"}
    BY <1>3
  <2>2. role \in {"super_admin", "ai_admin", "developer"}
    BY <2>1, PermissionsAreHeld
  <2> QED BY <1>3, <2>2 DEF Access!ItsOwn, Access!Administering, Access!Developing
<1>4. CASE /\ ~route.read
           /\ route.resource \in {"providers", "models", "virtual-models", "applications", "keys",
                                  "knowledge-bases", "documents", "agents", "agent-versions",
                                  "tools"}
           /\ route.changes \subseteq {"providers", "models", "virtual_models", "applications",
                                       "api_keys", "knowledge", "tools", "agents", "agent_runs",
                                       "requests"}
  <2>1. Access!Required(route) \in
          {"provider.write", "model.write", "virtual_model.write", "application.write",
           "api_key.create", "kb.write", "agent.write", "tool.register"}
    BY <1>4
  <2>2. role \in {"super_admin", "ai_admin"}
    BY <2>1, PermissionsAreHeld
  <2> QED BY <1>4, <2>2 DEF Access!ItsOwn, Access!Administering, Access!Developing
<1> QED BY <1>1, <1>2, <1>3, <1>4, ChangesOfRoutes

\* Every other step than a handler's start forgets the last one.
LEMMA OnlyHandlersAreKept ==
  ASSUME Access!Next
  PROVE  \/ last' = Access!NoHandler
         \/ last'.changes = {} /\ \E c \in Calls : Access!Admit(c)
         \/ \E c \in Calls, route \in Access!Routes : Access!Handle(c, route)
<1> USE DEF Access!Forget
<1>1. ASSUME NEW c \in Calls, Access!Admit(c) PROVE last'.changes = {}
  BY <1>1 DEF Access!Admit, Access!Started
<1>2. ASSUME NEW c \in Calls, NEW n, NEW by,
             \/ Access!Refuse(c) \/ Access!ReadSession(c) \/ Access!ReadAccount(c)
             \/ Access!VerifyPassword(c) \/ Access!Upgrade(c) \/ Access!IssueSession(c)
             \/ Access!FindSubject(c) \/ Access!CreateAccount(c) \/ Access!AssignRole(c)
             \/ Access!ReadKey(c) \/ Access!ArriveWithToken(c, n) \/ Access!Login(c, n)
             \/ Access!ArriveWithIdentity(c, n, by) \/ Access!ArriveWithKey(c, n)
             \/ Access!HandleAsRoot(c, n)
      PROVE  last' = Access!NoHandler
  BY <1>2 DEF Access!Refuse, Access!ReadSession, Access!ReadAccount, Access!VerifyPassword,
     Access!Upgrade, Access!IssueSession, Access!FindSubject, Access!CreateAccount,
     Access!AssignRole, Access!ReadKey, Access!ArriveWithToken, Access!Login,
     Access!ArriveWithIdentity, Access!ArriveWithKey, Access!HandleAsRoot
<1>3. ASSUME NEW n, \/ Access!Logout(n) \/ Access!Disable(n) \/ Access!RestoreLegacyHash(n)
                    \/ Access!Tick \/ Access!Restart
      PROVE  last' = Access!NoHandler
  BY <1>3 DEF Access!Logout, Access!Disable, Access!RestoreLegacyHash, Access!Tick, Access!Restart
<1> QED BY <1>1, <1>2, <1>3 DEF Access!Next

\* No handler changes an account in the step that starts it.
LEMMA HandlersStart ==
  ASSUME NEW c \in Calls, NEW route \in Access!Routes, Access!Handle(c, route)
  PROVE  /\ UNCHANGED <<accounts, sessions, now>>
         /\ last' = [who |-> call[c].who, changes |-> route.changes, stale |-> call[c].stale]
         /\ Access!Required(route) \in Access!Grants(accounts[call[c].who].role)
         /\ call[c].pc = "roles"
<1>1. Access!Effect(c, route.changes) => UNCHANGED <<accounts, sessions, now>>
  BY DEF Access!Effect, Access!CreateUser, Access!UpdateApplication, Access!CreateKey,
     Access!RevokeKey
<1> QED BY <1>1 DEF Access!Handle, Access!Started

\* An account changes only what its role is for, whatever accounts there are and
\* whatever they ask for: the table of the routes, the permissions and the roles
\* agree, and a handler starts in the step that has read the role.
THEOREM RolesAreKept == Spec => []RolesGovernChanges
<1> USE DEF RolesGovernChanges, Access!RolesGovernChanges, Access!NoHandler
<1>1. Init => RolesGovernChanges
  BY DEF Init, Access!Init
<1>2. RolesGovernChanges /\ [Next]_vars => RolesGovernChanges'
  <2> SUFFICES ASSUME RolesGovernChanges, [Access!Next]_(Access!vars)
               PROVE  RolesGovernChanges'
    BY StepsOfParts
  <2>1. CASE UNCHANGED Access!vars
    BY <2>1 DEF Access!vars
  <2>2. ASSUME NEW c \in Calls, NEW route \in Access!Routes, Access!Handle(c, route)
        PROVE  RolesGovernChanges'
    <3>1. route.changes \subseteq Access!ItsOwn(accounts[call[c].who].role)
      BY <2>2, HandlersStart, RoutesKeepToRoles
    <3>2. last'.who = call[c].who /\ last'.changes = route.changes /\ accounts' = accounts
      BY <2>2, HandlersStart
    <3> QED BY <3>1, <3>2 DEF Access!ItsOwn, Access!Administering, Access!Developing
  <2> QED BY <2>1, <2>2, OnlyHandlersAreKept
<1> QED BY <1>1, <1>2, PTL DEF Spec

-----------------------------------------------------------------------------
(* Credentials that have ended.                                            *)

AccountRows ==
  [by : {"none", "oidc", "trusted_header", "local"}, role : Access!Roles \union {"none"},
   hash : {"none", "argon2id", "legacy"}, active : BOOLEAN]
SessionRows == [who : Names, expires : Int, live : BOOLEAN]
KeyRows == [revoked : BOOLEAN, expires : Int]
CallRows ==
  [pc : {"idle", "session", "user", "roles", "login", "upgrade", "issue", "subject", "create",
         "assign", "key", "app"},
   who : Names \union {Access!Root}, by : {"none", "oidc", "trusted_header", "local"},
   role : Access!Roles \union {"none"}, then : {"idle", "issue", "roles"},
   token : Int, stale : BOOLEAN]

AccessTypes ==
  /\ accounts \in [Names -> AccountRows]
  /\ sessions \in Seq(SessionRows) /\ keys \in Seq(KeyRows)
  /\ app \in {"active", "disabled", "gone"} /\ now \in Int
  /\ call \in [Calls -> CallRows]

Known(n) == n \in Names /\ accounts[n].by # "none"

\* Only a name that somebody has vouched for can log in, and a session belongs
\* to one: no account begins to be active under a token that is already out.
NamesAreKnown ==
  /\ \A n \in Names : accounts[n].active => Known(n)
  /\ \A t \in DOMAIN sessions : Known(sessions[t].who)

\* Of whom a call speaks at each of its steps, and by what it knows them.
CallerKnown(l) ==
  /\ l.pc \in {"user", "upgrade", "issue", "assign"} => Known(l.who)
  /\ l.pc \in {"login", "subject", "create"} => l.who \in Names
  /\ l.pc \in {"subject", "create"} => l.by # "none"
  /\ l.pc = "session" => l.token \in DOMAIN sessions
  /\ l.pc = "key" => l.token \in DOMAIN keys \/ app = "gone"

\* What has ended for a call that came too late is still ended, wherever the
\* call has got to, and one of the look-ups ahead of it will find that out.
EndWillShow(l) == l.stale =>
  \/ l.pc = "idle"
  \/ l.pc = "session" /\ ~Access!Good(l.token)
  \/ l.pc = "user" /\ ~accounts[l.who].active
  \/ l.pc = "subject" /\ accounts[l.who].by = l.by /\ ~accounts[l.who].active
  \/ l.pc = "key" /\ ~(Access!GoodKey(l.token) /\ app = "active")
  \/ l.pc = "app" /\ app # "active"

AccessInv ==
  /\ AccessTypes /\ NamesAreKnown /\ ~last.stale
  /\ \A c \in Calls : CallerKnown(call[c]) /\ EndWillShow(call[c])

LEMMA AccessStarts == Access!Init => AccessInv
<1> SUFFICES ASSUME Access!Init PROVE AccessInv
  OBVIOUS
<1> USE DEF Access!Init
<1>1. sessions = <<>> /\ sessions \in Seq(SessionRows) /\ DOMAIN sessions = {}
  OBVIOUS
<1>2. keys = <<>> /\ keys \in Seq(KeyRows)
  OBVIOUS
<1>3. AccessTypes
  <2>1. Access!Absent \in AccountRows
    BY DEF Access!Absent, AccountRows
  <2>2. Access!Idle \in CallRows
    BY DEF Access!Idle, Access!Root, CallRows
  <2> QED BY <1>1, <1>2, <2>1, <2>2 DEF AccessTypes
<1>4. NamesAreKnown
  BY <1>1 DEF NamesAreKnown, Access!Absent
<1>5. \A c \in Calls : CallerKnown(call[c]) /\ EndWillShow(call[c])
  BY DEF CallerKnown, EndWillShow, Access!Idle
<1> QED BY <1>3, <1>4, <1>5 DEF AccessInv, Access!NoHandler

\* A call that turns to something else, while nothing but it changes.
LEMMA CallTurns ==
  ASSUME AccessInv, NEW c \in Calls, NEW l \in CallRows, call' = [call EXCEPT ![c] = l],
         CallerKnown(l), EndWillShow(l), ~last'.stale,
         UNCHANGED <<accounts, sessions, app, keys, now>>
  PROVE  AccessInv'
<1>1. call' \in [Calls -> CallRows] /\ \A d \in Calls : call'[d] = IF d = c THEN l ELSE call[d]
  BY DEF AccessInv, AccessTypes
<1>2. AccessTypes'
  BY <1>1 DEF AccessInv, AccessTypes
<1>3. NamesAreKnown'
  BY DEF AccessInv, NamesAreKnown, Known
<1>4. ASSUME NEW d \in Calls PROVE CallerKnown(call[d])' /\ EndWillShow(call[d])'
  <2>1. \/ call'[d] = l
        \/ call'[d] = call[d] /\ CallerKnown(call[d]) /\ EndWillShow(call[d])
    BY <1>1 DEF AccessInv
  <2> QED BY <2>1 DEF CallerKnown, EndWillShow, Known, Access!Good, Access!GoodKey
<1> QED BY <1>2, <1>3, <1>4 DEF AccessInv

\* A call that ends, for whatever reason.
LEMMA CallDone ==
  ASSUME AccessInv, NEW c \in Calls, call' = [call EXCEPT ![c] = Access!Idle], ~last'.stale,
         UNCHANGED <<accounts, sessions, app, keys, now>>
  PROVE  AccessInv'
<1>1. Access!Idle \in CallRows /\ CallerKnown(Access!Idle) /\ EndWillShow(Access!Idle)
  BY DEF Access!Idle, Access!Root, CallRows, CallerKnown, EndWillShow
<1> QED BY <1>1, CallTurns

\* A call arrives and notes whether what it shows has ended.
LEMMA ArrivalStep ==
  ASSUME AccessInv, NEW c \in Calls, NEW t, NEW n, NEW by,
         \/ t \in Int /\ Access!ArriveWithToken(c, t)
         \/ n \in Names /\ Access!Login(c, n)
         \/ n \in Names /\ by \in {"oidc", "trusted_header"} /\ Access!ArriveWithIdentity(c, n, by)
         \/ t \in Int /\ Access!ArriveWithKey(c, t)
  PROVE  AccessInv'
<1> USE DEF Access!Idle, Access!Root, Access!Start, Access!Forget, Access!NoHandler
<1> PICK l : l = call'[c]
  OBVIOUS
<1>1. call' = [call EXCEPT ![c] = l]
  BY DEF Access!ArriveWithToken, Access!Login, Access!ArriveWithIdentity, Access!ArriveWithKey,
     AccessInv, AccessTypes
<1>2. /\ l \in CallRows /\ CallerKnown(l) /\ EndWillShow(l)
  <2>1. CASE t \in Int /\ Access!ArriveWithToken(c, t)
    BY <2>1 DEF Access!ArriveWithToken, AccessInv, AccessTypes, CallRows, CallerKnown, EndWillShow
  <2>2. CASE n \in Names /\ Access!Login(c, n)
    <3>1. l = [pc |-> "login", who |-> n, by |-> "none", role |-> "none", then |-> "idle",
               token |-> 0, stale |-> FALSE]
      BY <2>2 DEF Access!Login, AccessInv, AccessTypes
    <3> QED BY <2>2, <3>1 DEF CallRows, CallerKnown, EndWillShow
  <2>3. CASE n \in Names /\ by \in {"oidc", "trusted_header"} /\ Access!ArriveWithIdentity(c, n, by)
    <3> DEFINE over == accounts[n].by = by /\ ~accounts[n].active
               then == IF by = "oidc" THEN "issue" ELSE "roles"
    <3>1. l = [pc |-> "subject", who |-> n, by |-> by, role |-> "end_user", then |-> then,
               token |-> 0, stale |-> over]
      BY <2>3 DEF Access!ArriveWithIdentity, AccessInv, AccessTypes
    <3>2. "end_user" \in Access!Roles
      BY DEF Access!Roles, Access!Permissions
    <3>3. /\ over \in BOOLEAN /\ then \in {"issue", "roles"}
          /\ over => accounts[n].by = by /\ ~accounts[n].active
      OBVIOUS
    <3> HIDE DEF over, then
    <3>4. l.pc = "subject" /\ l.who = n /\ l.by = by /\ l.stale = over
      BY <3>1
    <3>5. l \in CallRows
      BY <2>3, <3>1, <3>2, <3>3 DEF CallRows
    <3>6. l.stale => accounts[n].by = by /\ ~accounts[n].active
      BY <3>3, <3>4
    <3> QED BY <2>3, <3>4, <3>5, <3>6 DEF CallerKnown, EndWillShow
  <2>4. CASE t \in Int /\ Access!ArriveWithKey(c, t)
    BY <2>4 DEF Access!ArriveWithKey, AccessInv, AccessTypes, CallRows, CallerKnown, EndWillShow
  <2> QED BY <2>1, <2>2, <2>3, <2>4
<1>3. ~last'.stale /\ UNCHANGED <<accounts, sessions, app, keys, now>>
  BY DEF Access!ArriveWithToken, Access!Login, Access!ArriveWithIdentity, Access!ArriveWithKey
<1> QED BY <1>1, <1>2, <1>3, CallTurns

\* A look-up lets a call go on only if what it looked at had not ended.
LEMMA LookUpStep ==
  ASSUME AccessInv, NEW c \in Calls,
         \/ Access!ReadSession(c) \/ Access!ReadAccount(c) \/ Access!VerifyPassword(c)
         \/ Access!FindSubject(c) \/ Access!ReadKey(c)
  PROVE  AccessInv'
<1> USE DEF Access!Forget, Access!NoHandler, Access!Become
<1>1. call[c] \in CallRows /\ CallerKnown(call[c]) /\ EndWillShow(call[c])
  BY DEF AccessInv, AccessTypes
<1>2. ASSUME NEW pc \in {"idle", "roles", "issue", "upgrade", "create", "app"},
             Access!Become(c, pc),
             pc \in {"issue", "upgrade"} => Known(call[c].who),
             pc = "create" => call[c].who \in Names /\ call[c].by # "none",
             pc \notin {"idle", "app"} => ~call[c].stale,
             pc = "app" => (call[c].stale => app # "active"),
             ~last'.stale, UNCHANGED <<accounts, sessions, app, keys, now>>
      PROVE  AccessInv'
  <2> PICK l : l = [call[c] EXCEPT !.pc = pc]
    OBVIOUS
  <2>1. /\ l \in CallRows /\ l.pc = pc
        /\ l.who = call[c].who /\ l.by = call[c].by /\ l.stale = call[c].stale
    BY <1>1 DEF CallRows
  <2>2. call' = [call EXCEPT ![c] = l]
    BY <1>2
  <2>3. CallerKnown(l) /\ EndWillShow(l)
    BY <1>2, <2>1 DEF CallerKnown, EndWillShow
  <2> QED BY <1>2, <2>1, <2>2, <2>3, CallTurns
<1>3. CASE Access!ReadSession(c)
  <2> DEFINE t == call[c].token
  <2>1. t \in DOMAIN sessions /\ sessions[t].who \in Names /\ Known(sessions[t].who)
    BY <1>1, <1>3 DEF Access!ReadSession, CallerKnown, AccessInv, NamesAreKnown, Known
  <2>2. call[c].stale => ~accounts[sessions[t].who].active
    BY <1>1, <1>3 DEF EndWillShow, Access!ReadSession, Access!Unexpired, Access!Good
  <2> PICK m : m = [call[c] EXCEPT !.pc = "user"]
    OBVIOUS
  <2>3. m \in CallRows /\ m.pc = "user" /\ m.stale = call[c].stale
    BY <1>1 DEF CallRows
  <2> PICK k : k = [m EXCEPT !.who = sessions[t].who]
    OBVIOUS
  <2>4. k \in CallRows /\ k.pc = "user" /\ k.who = sessions[t].who /\ k.stale = m.stale
    BY <2>1, <2>3 DEF CallRows
  <2> PICK l : l = [k EXCEPT !.then = "roles"]
    OBVIOUS
  <2>5. l \in CallRows /\ l.pc = "user" /\ l.who = k.who /\ l.stale = k.stale
    BY <2>4 DEF CallRows
  <2>6. call' = [call EXCEPT ![c] = l]
    BY <1>3 DEF Access!ReadSession
  <2>7. CallerKnown(l) /\ EndWillShow(l)
    BY <2>1, <2>2, <2>3, <2>4, <2>5 DEF CallerKnown, EndWillShow
  <2> QED BY <1>3, <2>5, <2>6, <2>7, CallTurns DEF Access!ReadSession
<1>4. CASE Access!ReadAccount(c)
  <2>1. call[c].then \in {"idle", "roles", "issue"}
    BY <1>1 DEF CallRows
  <2> QED BY <1>1, <1>2, <1>4, <2>1 DEF Access!ReadAccount, CallerKnown, EndWillShow
<1>5. CASE Access!VerifyPassword(c)
  <2>1. Known(call[c].who) /\ ~call[c].stale
    BY <1>1, <1>5 DEF Access!VerifyPassword, CallerKnown, EndWillShow, AccessInv, NamesAreKnown
  <2> QED BY <1>2, <1>5, <2>1 DEF Access!VerifyPassword
<1>6. CASE Access!FindSubject(c)
  <2>1. /\ call[c].who \in Names /\ call[c].by # "none"
        /\ call[c].stale => accounts[call[c].who].by = call[c].by /\ ~accounts[call[c].who].active
        /\ call[c].then \in {"idle", "roles", "issue"}
    BY <1>1, <1>6 DEF Access!FindSubject, CallerKnown, EndWillShow, CallRows
  <2> QED BY <1>2, <1>6, <2>1 DEF Access!FindSubject, Known
<1>7. CASE Access!ReadKey(c)
  BY <1>1, <1>2, <1>7 DEF Access!ReadKey, CallerKnown, EndWillShow
<1> QED BY <1>3, <1>4, <1>5, <1>6, <1>7

\* The handler that creates a user goes on as a call without a caller.
LEMMA UserStep ==
  ASSUME AccessInv, NEW c \in Calls, NEW n \in Names, NEW role, ~last'.stale,
         Access!CreateUser(c, n, role)
  PROVE  AccessInv'
<1> PICK a : a = [Access!Idle EXCEPT !.pc = "create"]
  OBVIOUS
<1>1. a \in CallRows /\ a.pc = "create" /\ ~a.stale
  <2>1. Access!Idle \in CallRows /\ ~Access!Idle.stale
    BY DEF CallRows, Access!Idle, Access!Root
  <2> QED BY <2>1 DEF CallRows
<1> PICK b : b = [a EXCEPT !.who = n]
  OBVIOUS
<1>2. b \in CallRows /\ b.pc = "create" /\ b.who = n /\ ~b.stale
  BY <1>1 DEF CallRows
<1> PICK m : m = [b EXCEPT !.by = "local"]
  OBVIOUS
<1>3. m \in CallRows /\ m.pc = "create" /\ m.who = n /\ m.by = "local" /\ ~m.stale
  BY <1>2 DEF CallRows
<1> PICK l : l = [m EXCEPT !.role = role]
  OBVIOUS
<1>4. l \in CallRows /\ l.pc = "create" /\ l.who = n /\ l.by = "local" /\ ~l.stale
  <2>1. role \in Access!Roles
    BY DEF Access!CreateUser
  <2>2. l \in CallRows
    BY <1>3, <2>1 DEF CallRows
  <2>3. l.pc = m.pc /\ l.who = m.who /\ l.by = m.by /\ l.stale = m.stale
    BY <1>3 DEF CallRows
  <2> QED BY <1>3, <2>2, <2>3
<1>5. call' = [call EXCEPT ![c] = l] /\ UNCHANGED <<accounts, sessions, app, keys, now>>
  BY DEF Access!CreateUser
<1>6. CallerKnown(l) /\ EndWillShow(l)
  BY <1>4 DEF CallerKnown, EndWillShow
<1> QED BY <1>4, <1>5, <1>6, CallTurns

\* What the clock and the administrators of accounts and sessions do.
NothingReturns ==
  /\ \A n \in Names : Known(n) =>
       /\ accounts'[n].by = accounts[n].by
       /\ accounts'[n].active => accounts[n].active
  /\ \A t \in DOMAIN sessions :
       /\ t \in DOMAIN sessions' /\ sessions'[t].who = sessions[t].who
       /\ sessions'[t].live /\ sessions'[t].expires > now' =>
            sessions[t].live /\ sessions[t].expires > now
  /\ \A k \in DOMAIN keys :
       /\ k \in DOMAIN keys'
       /\ ~keys'[k].revoked /\ keys'[k].expires > now' => ~keys[k].revoked /\ keys[k].expires > now
  /\ app' = app

\* While the world goes on, calls wait, come to an end, or speak of somebody known.
LEMMA WorldGoesOn ==
  ASSUME AccessInv, NothingReturns, app = "gone" => DOMAIN keys' = DOMAIN keys, ~last'.stale,
         accounts' \in [Names -> AccountRows], sessions' \in Seq(SessionRows),
         keys' \in Seq(KeyRows), now' \in Int, call' \in [Calls -> CallRows],
         \A n \in Names :
           accounts'[n].active \/ accounts[n].by # "none" => accounts'[n].by # "none",
         \A t \in DOMAIN sessions' : sessions'[t].who \in Names
                                      /\ accounts'[sessions'[t].who].by # "none",
         \A d \in Calls :
           \/ call'[d] = call[d] \/ call'[d].pc = "idle"
           \/ /\ call'[d].pc \in {"issue", "assign", "roles"} /\ ~call'[d].stale
              /\ call'[d].who \in Names /\ accounts'[call'[d].who].by # "none"
  PROVE  AccessInv'
<1>1. AccessTypes'
  BY DEF AccessInv, AccessTypes, NothingReturns
<1>2. NamesAreKnown'
  BY DEF NamesAreKnown, Known
<1>3. ASSUME NEW d \in Calls PROVE CallerKnown(call[d])' /\ EndWillShow(call[d])'
  <2>1. CASE call'[d].pc = "idle"
    BY <2>1 DEF CallerKnown, EndWillShow
  <2>2. CASE /\ call'[d].pc \in {"issue", "assign", "roles"} /\ ~call'[d].stale
             /\ call'[d].who \in Names /\ accounts'[call'[d].who].by # "none"
    BY <2>2 DEF CallerKnown, EndWillShow, Known
  <2>3. CASE call'[d] = call[d]
    <3>1. CallerKnown(call[d]) /\ EndWillShow(call[d])
      BY DEF AccessInv
    <3>2. CallerKnown(call[d])'
      BY <2>3, <3>1 DEF NothingReturns, CallerKnown, Known
    <3>3. EndWillShow(call[d])'
      BY <2>3, <3>1 DEF NothingReturns, CallerKnown, EndWillShow, AccessInv, NamesAreKnown, Known,
         Access!Good, Access!GoodKey
    <3> QED BY <3>2, <3>3
  <2> QED BY <2>1, <2>2, <2>3
<1> QED BY <1>1, <1>2, <1>3 DEF AccessInv

\* The row of an account is written: it is vouched for and does not begin to be
\* active again, and the call that has written it, if any, goes on or ends.
LEMMA AccountWritten ==
  ASSUME AccessInv, NEW m \in Names, NEW acc \in AccountRows,
         accounts' = [accounts EXCEPT ![m] = acc],
         acc.active => acc.by # "none", Known(m) => acc.by = accounts[m].by,
         Known(m) /\ acc.active => accounts[m].active,
         UNCHANGED <<sessions, app, keys, now>>, ~last'.stale,
         call' \in [Calls -> CallRows],
         \A d \in Calls :
           \/ call'[d] = call[d] \/ call'[d].pc = "idle"
           \/ /\ call'[d].pc \in {"issue", "assign", "roles"} /\ ~call'[d].stale
              /\ call'[d].who = m /\ acc.by # "none"
  PROVE  AccessInv'
<1>1. /\ accounts' \in [Names -> AccountRows]
      /\ \A k \in Names : accounts'[k] = IF k = m THEN acc ELSE accounts[k]
  BY DEF AccessInv, AccessTypes
<1>2. /\ NothingReturns
      /\ \A k \in Names : accounts'[k].active \/ accounts[k].by # "none" => accounts'[k].by # "none"
  BY <1>1 DEF AccessInv, NamesAreKnown, Known, NothingReturns
<1>3. \A t \in DOMAIN sessions' : sessions'[t].who \in Names
                                   /\ accounts'[sessions'[t].who].by # "none"
  BY <1>2 DEF AccessInv, NamesAreKnown, Known
<1>4. sessions' \in Seq(SessionRows) /\ keys' \in Seq(KeyRows) /\ now' \in Int
  BY DEF AccessInv, AccessTypes
<1> QED BY <1>1, <1>2, <1>3, <1>4, WorldGoesOn

\* A call takes its next step and no other call does.
LEMMA CallGoesOn ==
  ASSUME AccessInv, NEW c \in Calls,
         NEW pc \in {"idle", "issue", "assign", "roles"}, call' = [call EXCEPT ![c].pc = pc]
  PROVE  /\ call' \in [Calls -> CallRows] /\ \A d \in Calls \ {c} : call'[d] = call[d]
         /\ call'[c].pc = pc /\ call'[c].who = call[c].who /\ call'[c].stale = call[c].stale
<1>1. call[c] \in CallRows
  BY DEF AccessInv, AccessTypes
<1> PICK l : l = [call[c] EXCEPT !.pc = pc]
  OBVIOUS
<1>2. l \in CallRows /\ l.pc = pc /\ l.who = call[c].who /\ l.stale = call[c].stale
  BY <1>1 DEF CallRows
<1>3. call' = [call EXCEPT ![c] = l]
  OBVIOUS
<1> QED BY <1>2, <1>3 DEF AccessInv, AccessTypes

LEMMA CallEnds ==
  ASSUME AccessInv, NEW c \in Calls, call' = [call EXCEPT ![c] = Access!Idle]
  PROVE  /\ call' \in [Calls -> CallRows] /\ \A d \in Calls \ {c} : call'[d] = call[d]
         /\ call'[c].pc = "idle"
<1>1. Access!Idle \in CallRows /\ Access!Idle.pc = "idle"
  BY DEF Access!Idle, Access!Root, CallRows
<1> QED BY <1>1 DEF AccessInv, AccessTypes

\* Accounts are written by the calls that create and upgrade them and by the
\* administration.
LEMMA AccountStep ==
  ASSUME AccessInv, NEW c, NEW n,
         \/ /\ c \in Calls
            /\ Access!Upgrade(c) \/ Access!CreateAccount(c) \/ Access!AssignRole(c)
         \/ n \in Names /\ (Access!Disable(n) \/ Access!RestoreLegacyHash(n))
  PROVE  AccessInv'
<1> USE DEF Access!Forget, Access!NoHandler, Access!Become
<1>1. c \in Calls => call[c] \in CallRows /\ CallerKnown(call[c]) /\ EndWillShow(call[c])
  BY DEF AccessInv, AccessTypes
<1>2. \A m \in Names : accounts[m] \in AccountRows /\ (accounts[m].active => Known(m))
  BY DEF AccessInv, AccessTypes, NamesAreKnown
<1>3. CASE c \in Calls /\ Access!Upgrade(c)
  <2> DEFINE m == call[c].who
  <2> PICK acc : acc = [accounts[m] EXCEPT !.hash = "argon2id"]
    OBVIOUS
  <2>1. Known(m) /\ m \in Names /\ ~call[c].stale
    BY <1>1, <1>3 DEF Access!Upgrade, CallerKnown, EndWillShow, Known
  <2>2. acc \in AccountRows /\ acc.by = accounts[m].by /\ acc.active = accounts[m].active
    BY <1>2, <2>1 DEF AccountRows
  <2>3. accounts' = [accounts EXCEPT ![m] = acc]
    BY <1>3 DEF Access!Upgrade
  <2>4. call' = [call EXCEPT ![c].pc = "issue"]
    BY <1>3 DEF Access!Upgrade
  <2>5. ~last'.stale /\ UNCHANGED <<sessions, app, keys, now>>
    BY <1>3 DEF Access!Upgrade
  <2>6. /\ call' \in [Calls -> CallRows]
        /\ \A d \in Calls :
             \/ call'[d] = call[d]
             \/ call'[d].pc \in {"issue", "assign"} /\ ~call'[d].stale /\ call'[d].who = m
    BY <1>3, <2>1, <2>4, CallGoesOn
  <2> HIDE DEF m
  <2> QED BY <2>1, <2>2, <2>3, <2>5, <2>6, AccountWritten DEF Known
<1>4. CASE c \in Calls /\ Access!CreateAccount(c)
  <2> DEFINE m == call[c].who
  <2>1. /\ m \in Names /\ ~Known(m) /\ call[c].by # "none"
        /\ call[c].by \in {"oidc", "trusted_header", "local"}
          /\ ~call[c].stale
    BY <1>1, <1>4 DEF Access!CreateAccount, CallerKnown, EndWillShow, Known, CallRows
  <2>2. PICK acc \in AccountRows : accounts' = [accounts EXCEPT ![m] = acc] /\ acc.by = call[c].by
    <3>1. PICK hash \in {"none", "argon2id"} :
            accounts' = [accounts EXCEPT ![m] =
              [by |-> call[c].by, role |-> "none", hash |-> hash, active |-> TRUE]]
      BY <1>4 DEF Access!CreateAccount
    <3> DEFINE acc == [by |-> call[c].by, role |-> "none", hash |-> hash, active |-> TRUE]
    <3>2. acc \in AccountRows /\ acc.by = call[c].by
      BY <2>1 DEF AccountRows
    <3> QED BY <3>1, <3>2
  <2>4. call' = [call EXCEPT ![c].pc = "assign"]
    BY <1>4 DEF Access!CreateAccount
  <2>5. ~last'.stale /\ UNCHANGED <<sessions, app, keys, now>>
    BY <1>4 DEF Access!CreateAccount
  <2>6. /\ call' \in [Calls -> CallRows]
        /\ \A d \in Calls :
             \/ call'[d] = call[d]
             \/ call'[d].pc \in {"issue", "assign"} /\ ~call'[d].stale /\ call'[d].who = m
    BY <1>4, <2>1, <2>4, CallGoesOn
  <2> HIDE DEF m
  <2> QED BY <2>1, <2>2, <2>5, <2>6, AccountWritten DEF Known
<1>5. CASE c \in Calls /\ Access!AssignRole(c)
  <2> DEFINE m == call[c].who
  <2> PICK acc : acc = [accounts[m] EXCEPT !.role = call[c].role]
    OBVIOUS
  <2>1. Known(m) /\ m \in Names /\ ~call[c].stale /\ call[c].role \in Access!Roles \union {"none"}
          /\ call[c].then \in {"idle", "issue", "roles"}
    BY <1>1, <1>5 DEF Access!AssignRole, CallerKnown, EndWillShow, Known, CallRows
  <2>2. acc \in AccountRows /\ acc.by = accounts[m].by /\ acc.active = accounts[m].active
    BY <1>2, <2>1 DEF AccountRows
  <2>3. accounts' = [accounts EXCEPT ![m] = acc]
    BY <1>5 DEF Access!AssignRole
  <2>4. ~last'.stale /\ UNCHANGED <<sessions, app, keys, now>>
    BY <1>5 DEF Access!AssignRole
  <2>5. CASE call' = [call EXCEPT ![c] = Access!Idle]
    BY <1>5, <2>1, <2>2, <2>3, <2>4, <2>5, CallEnds, AccountWritten DEF Known
  <2>6. CASE call' = [call EXCEPT ![c].pc = call[c].then]
    <3>1. /\ call' \in [Calls -> CallRows]
          /\ \A d \in Calls :
               \/ call'[d] = call[d] \/ call'[d].pc = "idle"
               \/ call'[d].pc \in {"issue", "roles"} /\ ~call'[d].stale /\ call'[d].who = m
      BY <1>5, <2>1, <2>6, CallGoesOn
    <3> HIDE DEF m
    <3> QED BY <2>1, <2>2, <2>3, <2>4, <3>1, AccountWritten DEF Known
  <2> QED BY <1>5, <2>5, <2>6 DEF Access!AssignRole
<1>6. CASE n \in Names /\ Access!Disable(n)
  <2> PICK acc : acc = [accounts[n] EXCEPT !.active = FALSE]
    OBVIOUS
  <2>1. acc \in AccountRows /\ acc.by = accounts[n].by /\ ~acc.active
    BY <1>2, <1>6 DEF AccountRows
  <2>2. accounts' = [accounts EXCEPT ![n] = acc] /\ Known(n)
    BY <1>2, <1>6 DEF Access!Disable
  <2>3. ~last'.stale /\ UNCHANGED <<sessions, app, keys, now, call>>
    BY <1>6 DEF Access!Disable
  <2> QED BY <1>6, <2>1, <2>2, <2>3, AccountWritten DEF Known, AccessInv, AccessTypes
<1>7. CASE n \in Names /\ Access!RestoreLegacyHash(n)
  <2> PICK acc : acc = [accounts[n] EXCEPT !.hash = "legacy"]
    OBVIOUS
  <2>1. acc \in AccountRows /\ acc.by = accounts[n].by /\ acc.active = accounts[n].active
    BY <1>2, <1>7 DEF AccountRows
  <2>2. accounts' = [accounts EXCEPT ![n] = acc]
    BY <1>7 DEF Access!RestoreLegacyHash
  <2>3. ~last'.stale /\ UNCHANGED <<sessions, app, keys, now, call>>
    BY <1>7 DEF Access!RestoreLegacyHash
  <2> QED BY <1>2, <1>7, <2>1, <2>2, <2>3, AccountWritten DEF Known, AccessInv, AccessTypes
<1> QED BY <1>3, <1>4, <1>5, <1>6, <1>7

\* Time passes, sessions are issued, logged out and lost.
LEMMA SessionStep ==
  ASSUME AccessInv, NEW c, NEW t,
         \/ c \in Calls /\ Access!IssueSession(c)
         \/ Access!Logout(t) \/ Access!Restart \/ Access!Tick
  PROVE  AccessInv'
<1> USE DEF Access!Forget, Access!NoHandler
<1>1. /\ call \in [Calls -> CallRows]
      /\ c \in Calls => call[c] \in CallRows /\ CallerKnown(call[c])
  BY DEF AccessInv, AccessTypes
<1>2. /\ sessions \in Seq(SessionRows) /\ keys \in Seq(KeyRows) /\ now \in Int
      /\ \A i \in DOMAIN sessions : sessions[i] \in SessionRows
      /\ \A i \in DOMAIN keys : keys[i] \in KeyRows
  BY DEF AccessInv, AccessTypes
<1>3. CASE c \in Calls /\ Access!IssueSession(c)
  <2> PICK s : s = [who |-> call[c].who, expires |-> now + SessionTtl, live |-> TRUE]
    OBVIOUS
  <2>1. Known(call[c].who) /\ sessions' = Append(sessions, s)
    BY <1>1, <1>3 DEF Access!IssueSession, CallerKnown
  <2>2. s \in SessionRows /\ s.who = call[c].who
    BY <1>2, <2>1, TtlAssumption DEF SessionRows, Known
  <2>3. /\ sessions' \in Seq(SessionRows) /\ DOMAIN sessions \subseteq DOMAIN sessions'
        /\ \A i \in DOMAIN sessions' : IF i \in DOMAIN sessions THEN sessions'[i] = sessions[i]
                                       ELSE sessions'[i] = s
    BY <1>2, <2>1, <2>2
  <2>4. UNCHANGED <<accounts, app, keys, now>> /\ ~last'.stale
    BY <1>3 DEF Access!IssueSession
  <2>5. call' = [call EXCEPT ![c] = Access!Idle]
    BY <1>3 DEF Access!IssueSession
  <2>6. NothingReturns
    BY <2>3, <2>4 DEF NothingReturns
  <2>7. \A i \in DOMAIN sessions' : sessions'[i].who \in Names
                                     /\ accounts'[sessions'[i].who].by # "none"
    BY <2>1, <2>2, <2>3, <2>4 DEF AccessInv, NamesAreKnown, Known
  <2>8. call' \in [Calls -> CallRows] /\ \A d \in Calls : call'[d] = call[d] \/ call'[d].pc = "idle"
    BY <1>3, <2>5, CallEnds
  <2>9. accounts' \in [Names -> AccountRows]
          /\ \A n \in Names : accounts'[n].active \/ accounts[n].by # "none"
               => accounts'[n].by # "none"
    BY <2>4 DEF AccessInv, AccessTypes, NamesAreKnown, Known
  <2> QED BY <1>2, <2>3, <2>4, <2>6, <2>7, <2>8, <2>9, WorldGoesOn
<1>4. CASE Access!Logout(t) \/ Access!Restart
  <2>1. UNCHANGED <<accounts, app, keys, now>> /\ ~last'.stale
    BY <1>4 DEF Access!Logout, Access!Restart
  <2>2. /\ sessions' \in Seq(SessionRows) /\ DOMAIN sessions = DOMAIN sessions'
        /\ \A i \in DOMAIN sessions' :
             /\ sessions'[i].who = sessions[i].who /\ sessions'[i].expires = sessions[i].expires
             /\ sessions'[i].live => sessions[i].live
    <3>1. \A i \in DOMAIN sessions :
            /\ [sessions[i] EXCEPT !.live = FALSE] \in SessionRows
            /\ [sessions[i] EXCEPT !.live = FALSE].who = sessions[i].who
            /\ [sessions[i] EXCEPT !.live = FALSE].expires = sessions[i].expires
            /\ ~[sessions[i] EXCEPT !.live = FALSE].live
      BY <1>2 DEF SessionRows
    <3>2. CASE Access!Logout(t)
      <4>1. /\ sessions' = [sessions EXCEPT ![t] = [sessions[t] EXCEPT !.live = FALSE]]
            /\ t \in DOMAIN sessions
        BY <3>2 DEF Access!Logout
      <4> PICK s : s = [sessions[t] EXCEPT !.live = FALSE]
        OBVIOUS
      <4>2. /\ s \in SessionRows /\ s.who = sessions[t].who /\ ~s.live
            /\ s.expires = sessions[t].expires
        BY <3>1, <4>1
      <4>3. sessions' = [sessions EXCEPT ![t] = s]
        BY <4>1
      <4> QED BY <1>2, <4>1, <4>2, <4>3
    <3>3. CASE Access!Restart
      <4>1. sessions' = [i \in DOMAIN sessions |-> [sessions[i] EXCEPT !.live = FALSE]]
        BY <3>3 DEF Access!Restart
      <4>2. DOMAIN sessions = 1 .. Len(sessions) /\ Len(sessions) \in Nat
        BY <1>2
      <4>3. sessions' \in [1 .. Len(sessions) -> SessionRows]
        BY <3>1, <4>1, <4>2
      <4>4. sessions' \in Seq(SessionRows)
        BY <4>2, <4>3
      <4>5. \A i \in DOMAIN sessions : sessions'[i] = [sessions[i] EXCEPT !.live = FALSE]
        BY <4>1
      <4>6. DOMAIN sessions' = DOMAIN sessions
        BY <4>1
      <4> QED BY <3>1, <4>4, <4>5, <4>6
    <3> QED BY <1>4, <3>2, <3>3
  <2>3. NothingReturns
    BY <2>1, <2>2 DEF NothingReturns
  <2>4. \A i \in DOMAIN sessions' : sessions'[i].who \in Names
                                     /\ accounts'[sessions'[i].who].by # "none"
    BY <2>1, <2>2 DEF AccessInv, NamesAreKnown, Known
  <2>5. call' \in [Calls -> CallRows] /\ \A d \in Calls : call'[d] = call[d] \/ call'[d].pc = "idle"
    <3>1. CASE Access!Logout(t)
      BY <1>1, <3>1 DEF Access!Logout
    <3>2. CASE Access!Restart
      <4>1. Access!Idle \in CallRows /\ Access!Idle.pc = "idle"
        BY DEF Access!Idle, Access!Root, CallRows
      <4>2. call' = [d \in Calls |-> Access!Idle]
        BY <3>2 DEF Access!Restart
      <4> QED BY <4>1, <4>2
    <3> QED BY <1>4, <3>1, <3>2
  <2>6. accounts' \in [Names -> AccountRows]
          /\ \A n \in Names : accounts'[n].active \/ accounts[n].by # "none"
               => accounts'[n].by # "none"
    BY <2>1 DEF AccessInv, AccessTypes, NamesAreKnown, Known
  <2> QED BY <1>2, <2>1, <2>2, <2>3, <2>4, <2>5, <2>6, WorldGoesOn
<1>5. CASE Access!Tick
  <2>1. UNCHANGED <<accounts, sessions, app, keys, call>> /\ ~last'.stale /\ now' = now + 1
    BY <1>5 DEF Access!Tick
  <2>2. NothingReturns
    <3>1. \A i \in DOMAIN sessions : sessions[i].expires \in Int
      BY <1>2 DEF SessionRows
    <3>2. \A i \in DOMAIN keys : keys[i].expires \in Int
      BY <1>2 DEF KeyRows
    <3> QED BY <1>2, <2>1, <3>1, <3>2 DEF NothingReturns
  <2>3. \A i \in DOMAIN sessions' : sessions'[i].who \in Names
                                     /\ accounts'[sessions'[i].who].by # "none"
    BY <2>1 DEF AccessInv, NamesAreKnown, Known
  <2>4. accounts' \in [Names -> AccountRows]
          /\ \A n \in Names : accounts'[n].active \/ accounts[n].by # "none"
               => accounts'[n].by # "none"
    BY <2>1 DEF AccessInv, AccessTypes, NamesAreKnown, Known
  <2> QED BY <1>1, <1>2, <2>1, <2>2, <2>3, <2>4, WorldGoesOn
<1> QED BY <1>3, <1>4, <1>5

\* Keys are created and revoked.
LEMMA KeyStep ==
  ASSUME AccessInv, NEW c \in Calls, NEW k, NEW e \in Int, ~last'.stale,
         Access!CreateKey(c, e) \/ Access!RevokeKey(c, k)
  PROVE  AccessInv'
<1>1. /\ sessions \in Seq(SessionRows) /\ keys \in Seq(KeyRows) /\ now \in Int
      /\ \A i \in DOMAIN keys : keys[i] \in KeyRows
  BY DEF AccessInv, AccessTypes
<1>2. UNCHANGED <<accounts, sessions, app, now>> /\ call' = [call EXCEPT ![c] = Access!Idle]
  BY DEF Access!CreateKey, Access!RevokeKey
<1>3. /\ keys' \in Seq(KeyRows) /\ (app = "gone" => DOMAIN keys' = DOMAIN keys)
      /\ \A i \in DOMAIN keys :
           /\ i \in DOMAIN keys' /\ keys'[i].expires = keys[i].expires
           /\ ~keys'[i].revoked => ~keys[i].revoked
  <2>1. CASE Access!CreateKey(c, e)
    <3> PICK acc : acc = [revoked |-> FALSE, expires |-> e]
      OBVIOUS
    <3>1. acc \in KeyRows
      BY DEF KeyRows
    <3>2. keys' = Append(keys, acc) /\ app # "gone"
      BY <2>1 DEF Access!CreateKey
    <3> QED BY <1>1, <3>1, <3>2
  <2>2. CASE Access!RevokeKey(c, k)
    <3>1. k \in DOMAIN keys
      BY <2>2 DEF Access!RevokeKey
    <3> PICK acc : acc = [keys[k] EXCEPT !.revoked = TRUE]
      OBVIOUS
    <3>2. acc \in KeyRows /\ acc.expires = keys[k].expires /\ acc.revoked
      BY <1>1, <3>1 DEF KeyRows
    <3>3. keys' = [keys EXCEPT ![k] = acc]
      BY <2>2 DEF Access!RevokeKey
    <3> QED BY <1>1, <3>1, <3>2, <3>3
  <2> QED BY <2>1, <2>2
<1>4. NothingReturns
  BY <1>2, <1>3 DEF NothingReturns
<1>5. call' \in [Calls -> CallRows] /\ \A d \in Calls : call'[d] = call[d] \/ call'[d].pc = "idle"
  BY <1>2, CallEnds
<1>6. \A t \in DOMAIN sessions' : sessions'[t].who \in Names
                                   /\ accounts'[sessions'[t].who].by # "none"
  BY <1>2 DEF AccessInv, NamesAreKnown, Known
<1>7. accounts' \in [Names -> AccountRows]
        /\ \A n \in Names : accounts'[n].active \/ accounts[n].by # "none"
             => accounts'[n].by # "none"
  BY <1>2 DEF AccessInv, AccessTypes, NamesAreKnown, Known
<1> QED BY <1>1, <1>2, <1>3, <1>4, <1>5, <1>6, <1>7, WorldGoesOn

\* An application that is stopped or deleted stops every key of it; one that is
\* started again is back for the calls that nothing else has ended for.
LEMMA ApplicationStep ==
  ASSUME AccessInv, NEW c \in Calls, NEW s \in {"active", "disabled", "gone"}, ~last'.stale,
         Access!UpdateApplication(c, s)
  PROVE  AccessInv'
<1>1. /\ UNCHANGED <<accounts, sessions, now>> /\ app' = s /\ app # "gone"
      /\ keys' = IF s = "gone" THEN <<>> ELSE keys
  BY DEF Access!UpdateApplication
<1>2. \A d \in Calls : call[d] \in CallRows /\ CallerKnown(call[d]) /\ EndWillShow(call[d])
  BY DEF AccessInv, AccessTypes
<1>3. ASSUME NEW d \in Calls
      PROVE  /\ call'[d] \in CallRows
             /\ \/ call'[d].pc = "idle"
                \/ /\ call'[d].pc = call[d].pc /\ call'[d].who = call[d].who
                   /\ call'[d].by = call[d].by /\ call'[d].token = call[d].token
                   /\ call'[d].stale => call[d].stale
                   /\ s = "active" => ~call'[d].stale \/ ~Access!OnlyStopped(d)
  <2>1. CASE d = c
    <3>1. call'[d] = Access!Idle
      BY <2>1 DEF Access!UpdateApplication
    <3> QED BY <3>1 DEF Access!Idle, Access!Root, CallRows
  <2>2. CASE d # c
    <3> DEFINE still == call[d].stale /\ ~(s = "active" /\ Access!OnlyStopped(d))
    <3>1. call'[d] = [call[d] EXCEPT !.stale = still]
      BY <2>2 DEF Access!UpdateApplication
    <3>2. /\ still \in BOOLEAN /\ (still => call[d].stale)
          /\ s = "active" => ~still \/ ~Access!OnlyStopped(d)
      OBVIOUS
    <3> HIDE DEF still
    <3>3. /\ call'[d] \in CallRows
          /\ call'[d].pc = call[d].pc /\ call'[d].who = call[d].who /\ call'[d].by = call[d].by
          /\ call'[d].token = call[d].token /\ call'[d].stale = still
      BY <1>2, <3>1, <3>2 DEF CallRows
    <3> QED BY <3>2, <3>3
  <2> QED BY <2>1, <2>2
<1>4. AccessTypes'
  <2>1. call' = [d \in Calls |-> call'[d]]
    BY DEF Access!UpdateApplication
  <2>2. call' \in [Calls -> CallRows]
    BY <1>3, <2>1
  <2>3. keys' \in Seq(KeyRows)
    BY <1>1 DEF AccessInv, AccessTypes
  <2> QED BY <1>1, <2>2, <2>3 DEF AccessInv, AccessTypes
<1>5. NamesAreKnown'
  BY <1>1 DEF AccessInv, NamesAreKnown, Known
<1>6. ASSUME NEW d \in Calls PROVE CallerKnown(call[d])' /\ EndWillShow(call[d])'
  <2>1. CASE call'[d].pc = "idle"
    BY <2>1 DEF CallerKnown, EndWillShow
  <2>2. CASE /\ call'[d].pc = call[d].pc /\ call'[d].who = call[d].who
             /\ call'[d].by = call[d].by /\ call'[d].token = call[d].token
             /\ call'[d].stale => call[d].stale
             /\ s = "active" => ~call'[d].stale \/ ~Access!OnlyStopped(d)
    <3>1. CallerKnown(call[d])'
      BY <1>1, <1>2, <2>2 DEF CallerKnown, Known
    <3>2. EndWillShow(call[d])'
      BY <1>1, <1>2, <2>2 DEF EndWillShow, Access!Good, Access!GoodKey, Access!OnlyStopped
    <3> QED BY <3>1, <3>2
  <2> QED BY <1>3, <2>1, <2>2
<1> QED BY <1>4, <1>5, <1>6 DEF AccessInv

\* What a handler does to accounts, applications, keys and calls, for whoever
\* called it.
LEMMA EffectStep ==
  ASSUME AccessInv, NEW c \in Calls, NEW changes, Access!Effect(c, changes), ~last'.stale
  PROVE  AccessInv'
<1>1. ASSUME NEW n \in Names, NEW role \in Access!Roles, Access!CreateUser(c, n, role)
      PROVE  AccessInv'
  BY <1>1, UserStep
<1>2. ASSUME NEW s \in {"active", "disabled", "gone"}, Access!UpdateApplication(c, s)
      PROVE  AccessInv'
  BY <1>2, ApplicationStep
<1>3. ASSUME NEW e \in 1 .. MaxTime + 1, Access!CreateKey(c, e) PROVE AccessInv'
  BY <1>3, KeyStep
<1>4. ASSUME NEW k \in 1 .. MaxKeys, Access!RevokeKey(c, k) PROVE AccessInv'
  BY <1>4, KeyStep
<1>5. CASE /\ call' = [call EXCEPT ![c] = Access!Idle]
           /\ UNCHANGED <<accounts, sessions, app, keys, now>>
  BY <1>5, CallDone
<1> QED BY <1>1, <1>2, <1>3, <1>4, <1>5 DEF Access!Effect

\* A handler starts, and the gateway lets a call in, only after the look-ups.
LEMMA StartedInTime ==
  ASSUME AccessInv, NEW c \in Calls, NEW route,
         \/ route \in Access!Routes /\ Access!Handle(c, route)
         \/ Access!HandleAsRoot(c, route) \/ Access!Admit(c)
  PROVE  AccessInv'
<1>1. EndWillShow(call[c]) /\ call[c] \in CallRows
  BY DEF AccessInv, AccessTypes
<1>2. CASE route \in Access!Routes /\ Access!Handle(c, route)
  <2>1. ~call[c].stale
    BY <1>1, <1>2, HandlersStart DEF EndWillShow
  <2>2. ~last'.stale
    BY <1>2, <2>1, HandlersStart
  <2> QED BY <1>2, <2>2, EffectStep DEF Access!Handle
<1>3. CASE Access!HandleAsRoot(c, route)
  BY <1>3, EffectStep DEF Access!HandleAsRoot, Access!Forget, Access!NoHandler
<1>4. CASE Access!Admit(c)
  <2>1. ~call[c].stale
    BY <1>1, <1>4 DEF EndWillShow, Access!Admit
  <2>2. ~last'.stale
    BY <1>4, <2>1 DEF Access!Admit, Access!Started
  <2>3. UNCHANGED <<accounts, sessions, app, keys, now>> /\ call' = [call EXCEPT ![c] = Access!Idle]
    BY <1>4 DEF Access!Admit
  <2> QED BY <2>2, <2>3, CallDone
<1> QED BY <1>2, <1>3, <1>4

LEMMA AccessStep == AccessInv /\ [Access!Next]_(Access!vars) => AccessInv'
<1> SUFFICES ASSUME AccessInv, [Access!Next]_(Access!vars) PROVE AccessInv'
  OBVIOUS
<1>1. CASE UNCHANGED Access!vars
  <2>1. UNCHANGED <<accounts, sessions, app, keys, now, call, last>>
    BY <1>1 DEF Access!vars
  <2> QED BY <2>1 DEF AccessInv, AccessTypes, NamesAreKnown, Known, CallerKnown, EndWillShow,
       Access!Good, Access!GoodKey
<1>2. ASSUME NEW c \in Calls, Access!Refuse(c) PROVE AccessInv'
  BY <1>2, CallDone DEF Access!Refuse, Access!Forget, Access!NoHandler
<1>3. ASSUME NEW c \in Calls,
             \/ Access!ReadSession(c) \/ Access!ReadAccount(c) \/ Access!VerifyPassword(c)
             \/ Access!FindSubject(c) \/ Access!ReadKey(c)
      PROVE  AccessInv'
  BY <1>3, LookUpStep
<1>4. ASSUME NEW c \in Calls, Access!Upgrade(c) \/ Access!CreateAccount(c) \/ Access!AssignRole(c)
      PROVE  AccessInv'
  BY <1>4, AccountStep
<1>5. ASSUME NEW n \in Names, Access!Disable(n) \/ Access!RestoreLegacyHash(n) PROVE AccessInv'
  BY <1>5, AccountStep
<1>6. ASSUME NEW c \in Calls, NEW t \in Int,
             Access!ArriveWithToken(c, t) \/ Access!ArriveWithKey(c, t)
      PROVE  AccessInv'
  BY <1>6, ArrivalStep
<1>7. ASSUME NEW c \in Calls, NEW n \in Names, Access!Login(c, n) PROVE AccessInv'
  BY <1>7, ArrivalStep
<1>8. ASSUME NEW c \in Calls, NEW n \in Names, NEW by \in {"oidc", "trusted_header"},
             Access!ArriveWithIdentity(c, n, by)
      PROVE  AccessInv'
  BY <1>8, ArrivalStep
<1>9. ASSUME NEW c \in Calls, NEW route \in Access!Routes,
             Access!Handle(c, route) \/ Access!HandleAsRoot(c, route)
      PROVE  AccessInv'
  BY <1>9, StartedInTime
<1>10. ASSUME NEW c \in Calls, Access!Admit(c) PROVE AccessInv'
  BY <1>10, StartedInTime
<1>11. ASSUME NEW c \in Calls, Access!IssueSession(c) PROVE AccessInv'
  BY <1>11, SessionStep
<1>12. ASSUME NEW t, Access!Logout(t) \/ Access!Tick \/ Access!Restart PROVE AccessInv'
  BY <1>12, SessionStep
<1>13. /\ \A t \in 1 .. MaxTokens : t \in Int
       /\ \A k \in 1 .. MaxKeys : k \in Int
  OBVIOUS
<1> QED BY <1>1, <1>2, <1>3, <1>4, <1>5, <1>6, <1>7, <1>8, <1>9, <1>10, <1>11, <1>12, <1>13
        DEF Access!Next

\* A call whose credential had ended when it arrived is not served, for any
\* number of calls, accounts, sessions and keys and in whatever order the
\* look-ups, the logouts, the restarts and the administration come.
THEOREM EndedMeansEnded == Spec => []CredentialsEnd
<1>1. Init => AccessInv
  BY AccessStarts DEF Init
<1>2. AccessInv /\ [Next]_vars => AccessInv'
  BY AccessStep, StepsOfParts
<1>3. AccessInv => CredentialsEnd
  BY DEF AccessInv, CredentialsEnd, Access!CredentialsEnd
<1> QED BY <1>1, <1>2, <1>3, PTL DEF Spec

-----------------------------------------------------------------------------
(* What a fold over a sequence comes to: induction over numbers, and the   *)
(* one function that a recursive definition chooses.                       *)

\* What holds of no number and goes on from each to the next holds of all.
LEMMA Counting ==
  ASSUME NEW G, 0 \in G, \A n \in Nat : n \in G => n + 1 \in G
  PROVE  Nat \subseteq G
<1> DEFINE T == Nat \ G
           Before == OpToRel(<, Nat)
<1> SUFFICES ASSUME T # {} PROVE FALSE
  OBVIOUS
<1>1. IsWellFoundedOn(Before, Nat)
  BY NatLessThanWellFounded
<1>2. Before = {ss \in Nat \X Nat : ss[1] < ss[2]}
  BY DEF OpToRel
<1> HIDE DEF Before
<1>3. PICK x \in T : \A y \in T : ~(<<y, x>> \in Before)
  <2>1. T \subseteq Nat
    OBVIOUS
  <2> HIDE DEF T
  <2> QED BY <1>1, <2>1, WFMin
<1>4. x # 0 /\ x \in Nat
  OBVIOUS
<1>5. x - 1 \in Nat /\ x - 1 < x /\ (x - 1) + 1 = x
  BY <1>4
<1>6. x - 1 \notin T
  <2>1. <<x - 1, x>> \in Before
    <3>1. <<x - 1, x>> \in Nat \X Nat /\ <<x - 1, x>>[1] = x - 1 /\ <<x - 1, x>>[2] = x
      BY <1>4, <1>5
    <3> QED BY <1>2, <1>5, <3>1
  <2> QED BY <1>3, <2>1
<1>7. (x - 1) + 1 \in G
  BY <1>5, <1>6
<1> QED BY <1>5, <1>7

\* What holds first, and of each if of the one before, holds up to the last.
LEMMA UpTo ==
  ASSUME NEW n \in Nat, NEW G, 0 \in G, \A k \in 1 .. n : k - 1 \in G => k \in G
  PROVE  0 .. n \subseteq G
<1> DEFINE H == {k \in Nat : k \in 0 .. n => k \in G}
<1>1. 0 \in H
  OBVIOUS
<1>2. ASSUME NEW k \in Nat, k \in H PROVE k + 1 \in H
  <2> SUFFICES ASSUME k + 1 \in 0 .. n PROVE k + 1 \in G
    OBVIOUS
  <2>1. k + 1 \in 1 .. n /\ (k + 1) - 1 = k /\ k \in 0 .. n
    OBVIOUS
  <2> QED BY <1>2, <2>1
<1> HIDE DEF H
<1>3. Nat \subseteq H
  BY <1>1, <1>2, Counting
<1> QED BY <1>3 DEF H

Follows(f, step, start, s, n) ==
  f[0] = start /\ \A k \in 1 .. n : f[k] = step[f[k - 1]][s[k]]

LEMMA FoldExists ==
  ASSUME NEW X, NEW P, NEW start \in X, NEW step \in [X -> [P -> X]], NEW s \in Seq(P)
  PROVE  \E f \in [0 .. Len(s) -> X] : Follows(f, step, start, s, Len(s))
<1> DEFINE n == Len(s)
           Fold(m) == \E f \in [0 .. m -> X] : Follows(f, step, start, s, m)
           G == {m \in Nat : Fold(m)}
<1>1. n \in Nat /\ \A k \in 1 .. n : s[k] \in P
  OBVIOUS
<1> HIDE DEF n
<1>2. 0 \in G
  <2>1. Follows([k \in 0 .. 0 |-> start], step, start, s, 0)
    BY DEF Follows
  <2> QED BY <2>1
<1>3. ASSUME NEW k \in 1 .. n, k - 1 \in G PROVE k \in G
  <2>1. PICK f \in [0 .. k - 1 -> X] : Follows(f, step, start, s, k - 1)
    BY <1>3
  <2> DEFINE next == step[f[k - 1]][s[k]]
             g == [i \in 0 .. k |-> IF i = k THEN next ELSE f[i]]
  <2>2. f[k - 1] \in X /\ s[k] \in P
    BY <1>1
  <2>3. next \in X
    BY <2>2
  <2> HIDE DEF next
  <2>4. g \in [0 .. k -> X] /\ g[k] = next /\ \A i \in 0 .. k - 1 : g[i] = f[i]
    BY <1>1, <2>3
  <2> HIDE DEF g
  <2>5. g[0] = start
    BY <1>1, <2>1, <2>4 DEF Follows
  <2>6. ASSUME NEW i \in 1 .. k PROVE g[i] = step[g[i - 1]][s[i]]
    <3>1. CASE i = k
      <4>1. g[i - 1] = f[k - 1]
        BY <1>1, <2>4, <3>1
      <4> QED BY <2>4, <3>1, <4>1 DEF next
    <3>2. CASE i # k
      <4>1. i \in 1 .. k - 1 /\ i - 1 \in 0 .. k - 1 /\ i \in 0 .. k - 1
        BY <1>1, <3>2
      <4>2. g[i] = f[i] /\ g[i - 1] = f[i - 1]
        BY <2>4, <4>1
      <4>3. f[i] = step[f[i - 1]][s[i]]
        BY <2>1, <4>1 DEF Follows
      <4> QED BY <4>2, <4>3
    <3> QED BY <3>1, <3>2
  <2>7. Follows(g, step, start, s, k)
    BY <2>5, <2>6 DEF Follows
  <2> QED BY <1>1, <2>4, <2>7
<1> HIDE DEF G
<1>4. 0 .. n \subseteq G
  BY <1>1, <1>2, <1>3, UpTo
<1>5. n \in G
  BY <1>1, <1>4
<1> QED BY <1>5 DEF G, n

\* Two functions that begin alike and go on alike end alike.
GoAlike(f, g, n) ==
  f[0] = g[0] /\ \A k \in 1 .. n : f[k - 1] = g[k - 1] => f[k] = g[k]

LEMMA Alike ==
  ASSUME NEW n \in Nat, NEW f, NEW g, GoAlike(f, g, n)
  PROVE  f[n] = g[n]
<1> DEFINE G == {k \in 0 .. n : f[k] = g[k]}
<1>1. 0 \in G
  BY DEF GoAlike
<1>2. \A k \in 1 .. n : k - 1 \in G => k \in G
  BY DEF GoAlike
<1> HIDE DEF G
<1>3. 0 .. n \subseteq G
  BY <1>1, <1>2, UpTo
<1>4. n \in G
  BY <1>3
<1> QED BY <1>4 DEF G

-----------------------------------------------------------------------------
(* The sequences of a sequence, one after the other.                       *)

Flat(ss) == Knowledge!FlattenSeq(ss)

JoinsTo(f, ss, n) == f[0] = <<>> /\ \A k \in 1 .. n : f[k] = f[k - 1] \o ss[k]

\* They come to what joining them one by one comes to.
LEMMA FlatJoins ==
  ASSUME NEW S, NEW ss \in Seq(Seq(S))
  PROVE  \E f \in [0 .. Len(ss) -> Seq(S)] : JoinsTo(f, ss, Len(ss)) /\ Flat(ss) = f[Len(ss)]
<1> DEFINE n == Len(ss)
           step == [s \in Seq(S) |-> [t \in Seq(S) |-> s \o t]]
           Next1(g) == [i \in 1 .. Len(ss) |-> IF i = 1 THEN ss[i] ELSE g[i - 1] \o ss[i]]
           h == CHOOSE g : g = Next1(g)
<1>1. n \in Nat /\ \A k \in 1 .. n : ss[k] \in Seq(S)
  OBVIOUS
<1>2. step \in [Seq(S) -> [Seq(S) -> Seq(S)]] /\ <<>> \in Seq(S)
  OBVIOUS
<1>3. PICK f \in [0 .. n -> Seq(S)] : Follows(f, step, <<>>, ss, n)
  <2> HIDE DEF step
  <2> QED BY <1>2, FoldExists
<1>4. f[0] = <<>> /\ \A k \in 1 .. n : f[k] = f[k - 1] \o ss[k]
  <2> HIDE DEF n
  <2>1. \A k \in 1 .. n : k - 1 \in 0 .. n
    BY <1>1
  <2>2. \A k \in 1 .. n : f[k - 1] \in Seq(S)
    BY <1>3, <2>1
  <2> QED BY <1>1, <1>3, <2>2 DEF Follows
<1>5. CASE n = 0
  <2>1. ss = <<>>
    BY <1>5
  <2>2. Flat(ss) = <<>>
    BY <1>5, <2>1 DEF Flat, Knowledge!FlattenSeq
  <2> HIDE DEF n
  <2>3. f[n] = <<>>
    BY <1>4, <1>5
  <2> QED BY <1>4, <2>2, <2>3 DEF JoinsTo, n
<1>6. CASE n # 0
  <2> DEFINE e == [k \in 1 .. n |-> f[k]]
  <2>1. e = Next1(e)
    <3>1. ASSUME NEW k \in 1 .. n PROVE e[k] = IF k = 1 THEN ss[k] ELSE e[k - 1] \o ss[k]
      <4> HIDE DEF n
      <4>1. CASE k = 1
        <5>1. k - 1 = 0 /\ ss[k] \in Seq(S)
          BY <1>1, <4>1
        <5>2. f[k] = <<>> \o ss[k]
          BY <1>4, <5>1
        <5> QED BY <4>1, <5>1, <5>2
      <4>2. CASE k # 1
        <5>1. k - 1 \in 1 .. n
          BY <1>1, <4>2
        <5> QED BY <1>4, <4>2, <5>1
      <4> QED BY <4>1, <4>2
    <3> HIDE DEF n
    <3> QED BY <3>1 DEF n
  <2>2. h = Next1(h)
    BY <2>1
  <2>3. \A k \in 1 .. n : h[k] = IF k = 1 THEN ss[k] ELSE h[k - 1] \o ss[k]
    <3> HIDE DEF h
    <3> QED BY <2>2
  <2>4. Flat(ss) = h[n]
    BY <1>6 DEF Flat, Knowledge!FlattenSeq
  <2> HIDE DEF h, n, Next1, e
  <2> DEFINE g == [k \in 0 .. n |-> IF k = 0 THEN <<>> ELSE h[k]]
  <2>5. g[0] = <<>> /\ \A k \in 1 .. n : g[k] = h[k]
    BY <1>1
  <2>6. n \in 1 .. n /\ n \in 0 .. n
    BY <1>1, <1>6
  <2> HIDE DEF g
  <2>7. ASSUME NEW k \in 1 .. n, f[k - 1] = g[k - 1] PROVE f[k] = g[k]
    <3>1. ss[k] \in Seq(S) /\ (k = 1 => k - 1 = 0) /\ (k # 1 => k - 1 \in 1 .. n)
      BY <1>1
    <3>2. CASE k = 1
      <4>1. g[k] = ss[k] /\ f[k] = <<>> \o ss[k]
        BY <1>4, <2>3, <2>5, <3>1, <3>2
      <4> QED BY <3>1, <4>1
    <3>3. CASE k # 1
      <4>1. f[k] = f[k - 1] \o ss[k] /\ g[k] = h[k]
        BY <1>4, <2>5
      <4>2. h[k] = h[k - 1] \o ss[k] /\ g[k - 1] = h[k - 1]
        BY <2>3, <2>5, <3>1, <3>3
      <4> QED BY <2>7, <4>1, <4>2
    <3> QED BY <3>2, <3>3
  <2>8. f[n] = g[n]
    <3>1. n \in Nat /\ GoAlike(f, g, n)
      BY <1>1, <1>4, <2>5, <2>7 DEF GoAlike
    <3> QED BY <3>1, Alike
  <2>9. Flat(ss) = f[n]
    BY <2>4, <2>5, <2>6, <2>8
  <2> QED BY <1>4, <2>9 DEF JoinsTo, n
<1> QED BY <1>5, <1>6

\* A sequence more is one more at the end.
LEMMA FlatMore ==
  ASSUME NEW S, NEW ss \in Seq(Seq(S)), NEW s \in Seq(S)
  PROVE  /\ Flat(ss) \in Seq(S)
         /\ Flat(Append(ss, s)) = Flat(ss) \o s
<1> DEFINE n == Len(ss)
           tt == Append(ss, s)
<1>1. /\ n \in Nat /\ tt \in Seq(Seq(S)) /\ Len(tt) = n + 1 /\ tt[n + 1] = s
      /\ \A k \in 1 .. n : tt[k] = ss[k]
  OBVIOUS
<1>2. PICK f \in [0 .. n -> Seq(S)] : JoinsTo(f, ss, n) /\ Flat(ss) = f[n]
  BY FlatJoins
<1> HIDE DEF tt
<1>3. PICK g \in [0 .. n + 1 -> Seq(S)] : JoinsTo(g, tt, n + 1) /\ Flat(tt) = g[n + 1]
  <2>1. \E g \in [0 .. Len(tt) -> Seq(S)] : JoinsTo(g, tt, Len(tt)) /\ Flat(tt) = g[Len(tt)]
    BY <1>1, FlatJoins
  <2> HIDE DEF n
  <2> QED BY <1>1, <2>1
<1> HIDE DEF n
<1>4. ASSUME NEW k \in 1 .. n, f[k - 1] = g[k - 1] PROVE f[k] = g[k]
  <2>1. k \in 1 .. n + 1
    BY <1>1
  <2> QED BY <1>1, <1>2, <1>3, <1>4, <2>1 DEF JoinsTo
<1>5. f[n] = g[n]
  <2>1. f[0] = g[0]
    BY <1>2, <1>3 DEF JoinsTo
  <2>2. n \in Nat /\ GoAlike(f, g, n)
    BY <1>1, <1>4, <2>1 DEF GoAlike
  <2> QED BY <2>2, Alike
<1>6. g[n + 1] = g[n] \o s
  <2>1. n + 1 \in 1 .. n + 1 /\ (n + 1) - 1 = n
    BY <1>1
  <2>2. g[n + 1] = g[(n + 1) - 1] \o tt[n + 1]
    BY <1>3, <2>1 DEF JoinsTo
  <2> QED BY <1>1, <2>1, <2>2
<1>7. f[n] \in Seq(S)
  BY <1>1, <1>2
<1> QED BY <1>2, <1>3, <1>5, <1>6, <1>7 DEF tt

-----------------------------------------------------------------------------
(* chunk_text(), for every text.                                           *)

\* What has been gathered; an open chunk that is empty has no characters.
Gathered ==
  {done \in [rows : Seq(Knowledge!ChunkRows), open : [len : 0 .. Target + 3, chars : Seq(Knowledge!Width)]] :
     done.open.len = 0 => done.open.chars = <<>>}
Held(done) == Knowledge!TextOf(done.rows) \o done.open.chars

LEMMA TextMore ==
  ASSUME NEW rows \in Seq(Knowledge!ChunkRows), NEW chunk \in Knowledge!ChunkRows
  PROVE  /\ Knowledge!TextOf(rows) \in Seq(Knowledge!Width)
         /\ Append(rows, chunk) \in Seq(Knowledge!ChunkRows)
         /\ Knowledge!TextOf(Append(rows, chunk)) = Knowledge!TextOf(rows) \o chunk.chars
<1> DEFINE W == Knowledge!Width
           ss == [i \in DOMAIN rows |-> rows[i].chars]
           more == Append(rows, chunk)
           tt == [i \in DOMAIN more |-> more[i].chars]
<1>1. /\ more \in Seq(Knowledge!ChunkRows) /\ Len(more) = Len(rows) + 1 /\ Len(rows) \in Nat
      /\ DOMAIN more = 1 .. Len(rows) + 1 /\ DOMAIN rows = 1 .. Len(rows)
      /\ more[Len(rows) + 1] = chunk /\ \A i \in 1 .. Len(rows) : more[i] = rows[i]
  OBVIOUS
<1>2. chunk.chars \in Seq(W) /\ \A i \in 1 .. Len(rows) : rows[i].chars \in Seq(W)
  <2>1. \A c \in Knowledge!ChunkRows : c.chars \in Seq(W)
    BY DEF Knowledge!ChunkRows
  <2>2. \A i \in 1 .. Len(rows) : rows[i] \in Knowledge!ChunkRows
    OBVIOUS
  <2> HIDE DEF W
  <2> QED BY <2>1, <2>2
<1> HIDE DEF W, more
<1>3. ss \in Seq(Seq(W)) /\ Len(ss) = Len(rows) /\ \A i \in 1 .. Len(rows) : ss[i] = rows[i].chars
  BY <1>1, <1>2
<1>4. tt = Append(ss, chunk.chars)
  BY <1>1, <1>2, <1>3
<1> HIDE DEF ss, tt
<1>5. Flat(ss) \in Seq(W) /\ Flat(tt) = Flat(ss) \o chunk.chars
  BY <1>2, <1>3, <1>4, FlatMore
<1>6. Knowledge!TextOf(rows) = Flat(ss) /\ Knowledge!TextOf(more) = Flat(tt)
  BY DEF Knowledge!TextOf, Flat, ss, tt
<1> QED BY <1>1, <1>5, <1>6 DEF W, more

\* What is gathered is all there when the open chunk is closed...
LEMMA ClosedKeeps ==
  ASSUME NEW done \in Gathered
  PROVE  /\ Knowledge!Closed(done) \in Seq(Knowledge!ChunkRows)
         /\ Knowledge!TextOf(Knowledge!Closed(done)) = Held(done)
         /\ Held(done) \in Seq(Knowledge!Width)
<1>1. /\ done.rows \in Seq(Knowledge!ChunkRows) /\ done.open.chars \in Seq(Knowledge!Width)
      /\ done.open.len \in 0 .. Target + 3 /\ (done.open.len = 0 => done.open.chars = <<>>)
      /\ done.open \in [len : 0 .. Target + 3, chars : Seq(Knowledge!Width)]
  BY DEF Gathered
<1>2. Knowledge!TextOf(done.rows) \in Seq(Knowledge!Width)
  <2>1. [len |-> 1, chars |-> <<>>] \in Knowledge!ChunkRows
    BY TargetAssumption DEF Knowledge!ChunkRows
  <2> QED BY <1>1, <2>1, TextMore
<1>3. Held(done) \in Seq(Knowledge!Width)
  BY <1>1, <1>2 DEF Held
<1>4. CASE done.open.len = 0
  <2>1. Knowledge!Closed(done) = done.rows /\ done.open.chars = <<>>
    BY <1>1, <1>4 DEF Knowledge!Closed
  <2>2. Knowledge!TextOf(done.rows) \o <<>> = Knowledge!TextOf(done.rows)
    <3> DEFINE s == Knowledge!TextOf(done.rows)
               W == Knowledge!Width
    <3>1. s \in Seq(W)
      BY <1>2
    <3> HIDE DEF s, W
    <3>2. s \o <<>> = s
      BY <3>1
    <3> QED BY <3>2 DEF s
  <2>3. Held(done) = Knowledge!TextOf(done.rows)
    BY <2>1, <2>2 DEF Held
  <2> QED BY <1>1, <1>3, <2>1, <2>3
<1>5. CASE done.open.len # 0
  <2>1. done.open \in Knowledge!ChunkRows
    BY <1>1, <1>5, TargetAssumption DEF Knowledge!ChunkRows
  <2>2. Knowledge!Closed(done) = Append(done.rows, done.open)
    BY <1>5 DEF Knowledge!Closed
  <2> QED BY <1>1, <1>3, <2>1, <2>2, TextMore DEF Held
<1> QED BY <1>4, <1>5

\* ...and a character placed is one more.
LEMMA PlaceKeeps ==
  ASSUME NEW done \in Gathered, NEW width \in Knowledge!Width
  PROVE  /\ Knowledge!Place(done, width) \in Gathered
         /\ Held(Knowledge!Place(done, width)) = Append(Held(done), width)
<1> DEFINE new == Knowledge!Place(done, width)
           W == Knowledge!Width
<1>1. /\ done.rows \in Seq(Knowledge!ChunkRows) /\ done.open.chars \in Seq(W)
      /\ done.open.len \in 0 .. Target + 3 /\ (done.open.len = 0 => done.open.chars = <<>>)
      /\ done = [rows |-> done.rows, open |-> done.open]
  BY DEF Gathered
<1>2. width \in 1 .. 4 /\ Target \in Nat /\ Target # 0
  BY TargetAssumption DEF Knowledge!Width
<1>3. /\ Knowledge!Closed(done) \in Seq(Knowledge!ChunkRows)
      /\ Knowledge!TextOf(Knowledge!Closed(done)) = Held(done) /\ Held(done) \in Seq(W)
  BY ClosedKeeps
<1>4. Knowledge!TextOf(done.rows) \in Seq(W)
  <2>1. [len |-> 1, chars |-> <<>>] \in Knowledge!ChunkRows
    BY TargetAssumption DEF Knowledge!ChunkRows
  <2> QED BY <1>1, <2>1, TextMore
<1>5. CASE done.open.len >= Target
  <2>1. new = [rows |-> Knowledge!Closed(done), open |-> [len |-> width, chars |-> <<width>>]]
    BY <1>5 DEF Knowledge!Place
  <2>2. <<width>> \in Seq(W) /\ width \in 0 .. Target + 3 /\ width # 0
    BY <1>2
  <2> HIDE DEF new, W
  <2>3. new \in Gathered
    BY <1>3, <2>1, <2>2 DEF Gathered, W
  <2>4. Held(new) = Held(done) \o <<width>>
    BY <1>3, <2>1 DEF Held
  <2>5. Held(done) \o <<width>> = Append(Held(done), width)
    BY <1>3, width \in W DEF W
  <2> QED BY <2>3, <2>4, <2>5 DEF new
<1>6. CASE ~(done.open.len >= Target)
  <2> DEFINE len == done.open.len + width
             chars == Append(done.open.chars, width)
  <2>1. new = [rows |-> done.rows, open |-> [len |-> len, chars |-> chars]]
    BY <1>1, <1>6 DEF Knowledge!Place
  <2>2. chars \in Seq(W) /\ len \in 0 .. Target + 3 /\ len # 0
    BY <1>1, <1>2, <1>6
  <2>3. Knowledge!TextOf(done.rows) \o chars
          = Append(Knowledge!TextOf(done.rows) \o done.open.chars, width)
    <3> DEFINE s == Knowledge!TextOf(done.rows)
               t == done.open.chars
    <3>1. s \in Seq(W) /\ t \in Seq(W) /\ width \in W
      BY <1>1, <1>4
    <3> HIDE DEF s, t, W
    <3>2. s \o Append(t, width) = Append(s \o t, width)
      BY <3>1
    <3> QED BY <3>2 DEF s, t
  <2> HIDE DEF new, W, len, chars
  <2>4. new \in Gathered
    BY <1>1, <2>1, <2>2 DEF Gathered, W
  <2>5. Held(new) = Knowledge!TextOf(done.rows) \o chars
    BY <2>1 DEF Held
  <2>6. Held(new) = Append(Held(done), width)
    BY <2>3, <2>5 DEF Held, chars
  <2> QED BY <2>4, <2>6 DEF new
<1> QED BY <1>5, <1>6

\* An element more at the end of what is joined.
LEMMA AppendAfter ==
  ASSUME NEW S, NEW s \in Seq(S), NEW t \in Seq(S), NEW x \in S
  PROVE  s \o Append(t, x) = Append(s \o t, x)
OBVIOUS

\* The size of a paragraph is a number, and zero only of an empty one.
LEMMA SizeCounts ==
  ASSUME NEW p \in Seq(Knowledge!Width)
  PROVE  /\ Knowledge!Size(p) \in Nat
         /\ Knowledge!Size(p) = 0 <=> p = <<>>
<1> DEFINE n == Len(p)
           W == Knowledge!Width
           step == [x \in Nat |-> [w \in W |-> x + w]]
           Next1(g) == [i \in 0 .. Len(p) |-> IF i = 0 THEN 0 ELSE g[i - 1] + p[i]]
           h == CHOOSE g : g = Next1(g)
<1>1. n \in Nat /\ \A k \in 1 .. n : p[k] \in W
  OBVIOUS
<1>2. step \in [Nat -> [W -> Nat]] /\ \A w \in W : w \in Nat /\ w > 0
  BY DEF Knowledge!Width
<1>3. PICK f \in [0 .. n -> Nat] : Follows(f, step, 0, p, n)
  <2> HIDE DEF step, W
  <2> QED BY <1>2, FoldExists DEF W
<1>4. f[0] = 0 /\ \A k \in 1 .. n : f[k] = f[k - 1] + p[k] /\ f[k - 1] \in Nat
  <2> HIDE DEF n
  <2>1. \A k \in 1 .. n : k - 1 \in 0 .. n
    BY <1>1
  <2>2. \A k \in 1 .. n : f[k - 1] \in Nat
    BY <1>3, <2>1
  <2> HIDE DEF W
  <2>3. \A k \in 1 .. n : step[f[k - 1]][p[k]] = f[k - 1] + p[k]
    BY <1>1, <2>2
  <2> HIDE DEF step
  <2> QED BY <1>3, <2>2, <2>3 DEF Follows
<1>5. f = Next1(f)
  <2> HIDE DEF n
  <2>1. \A i \in 0 .. n : i = 0 \/ i \in 1 .. n
    BY <1>1
  <2>2. \A i \in 0 .. n : f[i] = IF i = 0 THEN 0 ELSE f[i - 1] + p[i]
    BY <1>4, <2>1
  <2> QED BY <1>3, <2>2 DEF n
<1>6. h = Next1(h)
  BY <1>5
<1>7. \A i \in 0 .. n : h[i] = IF i = 0 THEN 0 ELSE h[i - 1] + p[i]
  <2> HIDE DEF h
  <2> QED BY <1>6
<1>8. Knowledge!Size(p) = h[n]
  BY DEF Knowledge!Size
<1> HIDE DEF h, n, Next1, step, W
<1>9. f[n] = h[n]
  <2>1. 0 \in 0 .. n /\ \A k \in 1 .. n : k \in 0 .. n /\ k # 0
    BY <1>1
  <2>2. h[0] = 0 /\ \A k \in 1 .. n : h[k] = h[k - 1] + p[k]
    BY <1>7, <2>1
  <2>3. GoAlike(f, h, n)
    BY <1>4, <2>2 DEF GoAlike
  <2> QED BY <1>1, <2>3, Alike
<1>10. n \in 0 .. n /\ f[n] \in Nat
  BY <1>1, <1>3
<1>11. CASE n = 0
  <2>1. p = <<>>
    BY <1>11 DEF n
  <2> QED BY <1>4, <1>8, <1>9, <1>11, <2>1
<1>12. CASE n # 0
  <2>1. n \in 1 .. n /\ p # <<>>
    BY <1>1, <1>12 DEF n
  <2>2. f[n] = f[n - 1] + p[n] /\ f[n - 1] \in Nat /\ p[n] \in Nat /\ p[n] > 0
    BY <1>1, <1>2, <1>4, <2>1
  <2>3. f[n] # 0
    <3> DEFINE a == f[n - 1]
               b == p[n]
    <3>1. a \in Nat /\ b \in Nat /\ b > 0 /\ f[n] = a + b
      BY <2>2
    <3> HIDE DEF a, b
    <3> QED BY <3>1
  <2> QED BY <1>8, <1>9, <1>10, <2>1, <2>3
<1> QED BY <1>11, <1>12

\* One element more of what has been read.
LEMMA Further ==
  ASSUME NEW S, NEW s \in Seq(S), NEW k \in 1 .. Len(s)
  PROVE  /\ SubSeq(s, 1, k - 1) \in Seq(S) /\ s[k] \in S
         /\ SubSeq(s, 1, k) = Append(SubSeq(s, 1, k - 1), s[k])
<1>1. /\ SubSeq(s, 1, k - 1) \in Seq(S) /\ Len(SubSeq(s, 1, k - 1)) = k - 1
      /\ \A i \in 1 .. k - 1 : SubSeq(s, 1, k - 1)[i] = s[i]
  OBVIOUS
<1>2. /\ SubSeq(s, 1, k) \in Seq(S) /\ Len(SubSeq(s, 1, k)) = k
      /\ \A i \in 1 .. k : SubSeq(s, 1, k)[i] = s[i]
  OBVIOUS
<1> QED BY <1>1, <1>2

\* A paragraph that is cut is all there after what was there before it.
LEMMA CutKeeps ==
  ASSUME NEW rows \in Seq(Knowledge!ChunkRows), NEW p \in Seq(Knowledge!Width)
  PROVE  /\ Knowledge!CutUp(rows, p) \in Seq(Knowledge!ChunkRows)
         /\ Knowledge!TextOf(Knowledge!CutUp(rows, p)) = Knowledge!TextOf(rows) \o p
<1> DEFINE n == Len(p)
           W == Knowledge!Width
           first == [rows |-> rows, open |-> Knowledge!Empty]
           step == [x \in Gathered |-> [w \in W |-> Knowledge!Place(x, w)]]
           Next1(g) == [i \in 0 .. Len(p) |-> IF i = 0 THEN first ELSE Knowledge!Place(g[i - 1], p[i])]
           h == CHOOSE g : g = Next1(g)
<1>1. n \in Nat /\ \A k \in 1 .. n : p[k] \in W
  OBVIOUS
<1>2. first \in Gathered /\ Held(first) = Knowledge!TextOf(rows) \o <<>>
  <2>1. Knowledge!Empty = [len |-> 0, chars |-> <<>>] /\ <<>> \in Seq(W)
    BY DEF Knowledge!Empty
  <2>2. 0 \in 0 .. Target + 3
    BY TargetAssumption
  <2> HIDE DEF W
  <2>3. first \in Gathered
    BY <2>1, <2>2 DEF Gathered, W
  <2>4. first.rows = rows /\ first.open.chars = <<>>
    BY <2>1
  <2> HIDE DEF first
  <2> QED BY <2>3, <2>4 DEF Held
<1>3. step \in [Gathered -> [W -> Gathered]]
  BY PlaceKeeps
<1>4. PICK f \in [0 .. n -> Gathered] : Follows(f, step, first, p, n)
  <2> HIDE DEF step, W, first
  <2> QED BY <1>2, <1>3, FoldExists DEF W
<1> HIDE DEF first
<1>5. f[0] = first /\ \A k \in 1 .. n : f[k] = Knowledge!Place(f[k - 1], p[k]) /\ f[k - 1] \in Gathered
  <2> HIDE DEF n
  <2>1. \A k \in 1 .. n : k - 1 \in 0 .. n
    BY <1>1
  <2>2. \A k \in 1 .. n : f[k - 1] \in Gathered
    BY <1>4, <2>1
  <2> HIDE DEF W
  <2>3. \A k \in 1 .. n : step[f[k - 1]][p[k]] = Knowledge!Place(f[k - 1], p[k])
    BY <1>1, <2>2
  <2> HIDE DEF step
  <2> QED BY <1>4, <2>2, <2>3 DEF Follows
<1>6. f = Next1(f)
  <2> HIDE DEF n
  <2>1. \A i \in 0 .. n : i = 0 \/ i \in 1 .. n
    BY <1>1
  <2>2. \A i \in 0 .. n : f[i] = IF i = 0 THEN first ELSE Knowledge!Place(f[i - 1], p[i])
    BY <1>5, <2>1
  <2> QED BY <1>4, <2>2 DEF n
<1>7. h = Next1(h)
  BY <1>6
<1>8. \A i \in 0 .. n : h[i] = IF i = 0 THEN first ELSE Knowledge!Place(h[i - 1], p[i])
  <2> HIDE DEF h
  <2> QED BY <1>7
<1>9. Knowledge!CutUp(rows, p) = Knowledge!Closed(h[n])
  BY DEF Knowledge!CutUp, first
<1> HIDE DEF h, Next1, step, n, W
<1>10. f[n] = h[n]
  <2>1. 0 \in 0 .. n /\ \A k \in 1 .. n : k \in 0 .. n /\ k # 0
    BY <1>1
  <2>2. h[0] = first /\ \A k \in 1 .. n : h[k] = Knowledge!Place(h[k - 1], p[k])
    BY <1>8, <2>1
  <2>3. GoAlike(f, h, n)
    BY <1>5, <2>2 DEF GoAlike
  <2> QED BY <1>1, <2>3, Alike
<1> DEFINE before == Knowledge!TextOf(rows)
           G == {k \in 0 .. n : Held(f[k]) = before \o SubSeq(p, 1, k)}
<1>11. before \in Seq(W)
  <2>1. [len |-> 1, chars |-> <<>>] \in Knowledge!ChunkRows
    BY TargetAssumption DEF Knowledge!ChunkRows
  <2> QED BY <2>1, TextMore DEF W
<1> HIDE DEF before
<1>12. 0 \in G
  <2>1. SubSeq(p, 1, 0) = <<>> /\ 0 \in 0 .. n
    BY <1>1
  <2> QED BY <1>2, <1>5, <2>1 DEF before
<1>13. ASSUME NEW k \in 1 .. n, k - 1 \in G PROVE k \in G
  <2> DEFINE s == SubSeq(p, 1, k - 1)
  <2>1. s \in Seq(W) /\ p[k] \in W /\ SubSeq(p, 1, k) = Append(s, p[k])
    BY Further DEF n, W
  <2>2. Held(f[k]) = Append(Held(f[k - 1]), p[k])
    BY <1>1, <1>5, PlaceKeeps DEF W
  <2>3. Held(f[k - 1]) = before \o s
    BY <1>13
  <2> HIDE DEF s
  <2>4. Append(before \o s, p[k]) = before \o Append(s, p[k])
    <3> DEFINE x == p[k]
    <3>1. before \in Seq(W) /\ s \in Seq(W) /\ x \in W
      BY <1>11, <2>1
    <3> HIDE DEF x
    <3>2. before \o Append(s, x) = Append(before \o s, x)
      BY <3>1, AppendAfter
    <3> QED BY <3>2 DEF x
  <2>5. k \in 0 .. n
    BY <1>1
  <2> QED BY <2>1, <2>2, <2>3, <2>4, <2>5
<1> HIDE DEF G
<1>14. n \in G
  <2>1. 0 .. n \subseteq G
    BY <1>1, <1>12, <1>13, UpTo
  <2> QED BY <1>1, <2>1
<1>15. SubSeq(p, 1, n) = p
  BY DEF n
<1>16. f[n] \in Gathered
  BY <1>1, <1>4
<1>17. Held(f[n]) = before \o p
  BY <1>14, <1>15 DEF G
<1> QED BY <1>9, <1>10, <1>16, <1>17, ClosedKeeps DEF before

\* So is one that is gathered...
LEMMA GatherKeeps ==
  ASSUME NEW done \in Gathered, NEW p \in Seq(Knowledge!Width)
  PROVE  /\ Knowledge!Gather(done, p) \in Gathered
         /\ Held(Knowledge!Gather(done, p)) = Held(done) \o p
<1> DEFINE new == Knowledge!Gather(done, p)
           W == Knowledge!Width
           C == Knowledge!ChunkRows
           size == Knowledge!Size(p)
           closed == Knowledge!Closed(done)
<1>1. /\ done.rows \in Seq(C) /\ done.open.chars \in Seq(W)
      /\ done.open.len \in 0 .. Target + 3 /\ (done.open.len = 0 => done.open.chars = <<>>)
      /\ done = [rows |-> done.rows, open |-> done.open]
  BY DEF Gathered
<1>2. size \in Nat /\ (size = 0 <=> p = <<>>)
  BY SizeCounts
<1>3. closed \in Seq(C) /\ Knowledge!TextOf(closed) = Held(done) /\ Held(done) \in Seq(W)
  BY ClosedKeeps
<1>4. Target \in Nat /\ Target # 0
  BY TargetAssumption
<1>5. Knowledge!TextOf(done.rows) \in Seq(W)
  <2>1. [len |-> 1, chars |-> <<>>] \in C
    BY TargetAssumption DEF Knowledge!ChunkRows
  <2> QED BY <1>1, <2>1, TextMore
<1>6. p \in Seq(W)
  OBVIOUS
<1> HIDE DEF W, C, size, closed
<1>7. CASE size = 0
  <2>1. new = done
    BY <1>7 DEF Knowledge!Gather, size
  <2>2. Held(done) \o <<>> = Held(done)
    BY <1>3
  <2> QED BY <1>2, <1>7, <2>1, <2>2
<1>8. CASE size > Target
  <2> DEFINE cut == Knowledge!CutUp(closed, p)
  <2>1. new = [rows |-> cut, open |-> Knowledge!Empty]
    BY <1>2, <1>4, <1>8 DEF Knowledge!Gather, size, closed
  <2>2. cut \in Seq(C) /\ Knowledge!TextOf(cut) = Held(done) \o p
    BY <1>3, <1>6, CutKeeps DEF W, C
  <2>3. Held(done) \o p \in Seq(W)
    BY <1>3, <1>6
  <2>4. Knowledge!Empty = [len |-> 0, chars |-> <<>>] /\ <<>> \in Seq(W) /\ 0 \in 0 .. Target + 3
    BY <1>4 DEF Knowledge!Empty
  <2> HIDE DEF new, cut
  <2>5. new \in Gathered
    BY <2>1, <2>2, <2>4 DEF Gathered, W, C
  <2>6. Held(new) = Knowledge!TextOf(cut) \o <<>>
    BY <2>1, <2>4 DEF Held
  <2> DEFINE all == Held(done) \o p
  <2> HIDE DEF all
  <2>7. all \o <<>> = all
    BY <2>3 DEF all
  <2> QED BY <2>2, <2>5, <2>6, <2>7 DEF new, all
<1>9. CASE /\ size # 0 /\ ~(size > Target)
           /\ done.open.len = 0 \/ done.open.len + size + 2 > Target
  <2>1. new = [rows |-> closed, open |-> [len |-> size, chars |-> p]]
    BY <1>9 DEF Knowledge!Gather, size, closed
  <2>2. size \in 0 .. Target + 3
    BY <1>2, <1>4, <1>9
  <2> HIDE DEF new
  <2>3. new \in Gathered
    BY <1>3, <1>6, <1>9, <2>1, <2>2 DEF Gathered, W, C
  <2>4. Held(new) = Held(done) \o p
    BY <1>3, <2>1 DEF Held
  <2> QED BY <2>3, <2>4 DEF new
<1>10. CASE /\ size # 0 /\ ~(size > Target)
            /\ done.open.len # 0 /\ ~(done.open.len + size + 2 > Target)
  <2> DEFINE len == done.open.len + 2 + size
             chars == done.open.chars \o p
  <2>1. new = [rows |-> done.rows, open |-> [len |-> len, chars |-> chars]]
    BY <1>1, <1>10 DEF Knowledge!Gather, size
  <2>2. len \in 0 .. Target + 3 /\ len # 0
    BY <1>1, <1>2, <1>4, <1>10
  <2>3. chars \in Seq(W)
    BY <1>1, <1>6
  <2>4. Knowledge!TextOf(done.rows) \o chars = Held(done) \o p
    <3> DEFINE s == Knowledge!TextOf(done.rows)
               t == done.open.chars
    <3>1. s \in Seq(W) /\ t \in Seq(W)
      BY <1>1, <1>5
    <3> HIDE DEF s, t
    <3>2. s \o (t \o p) = (s \o t) \o p
      BY <1>6, <3>1
    <3> QED BY <3>2 DEF s, t, Held
  <2> HIDE DEF new, len, chars
  <2>5. new \in Gathered
    BY <1>1, <2>1, <2>2, <2>3 DEF Gathered, W, C
  <2>6. Held(new) = Knowledge!TextOf(done.rows) \o chars
    BY <2>1 DEF Held
  <2> QED BY <2>4, <2>5, <2>6 DEF new
<1> QED BY <1>1, <1>2, <1>4, <1>7, <1>8, <1>9, <1>10

\* ...and so the chunks of a text are chunks, and hold all of it.
LEMMA ChunksHoldText ==
  ASSUME NEW text \in Seq(Seq(Knowledge!Width))
  PROVE  /\ Knowledge!ChunkText(text) \in Seq(Knowledge!ChunkRows)
         /\ Knowledge!TextOf(Knowledge!ChunkText(text)) = Knowledge!FlattenSeq(text)
<1> DEFINE n == Len(text)
           W == Knowledge!Width
           P == Seq(W)
           first == [rows |-> <<>>, open |-> Knowledge!Empty]
           step == [x \in Gathered |-> [p \in P |-> Knowledge!Gather(x, p)]]
           Next1(g) == [i \in 0 .. Len(text) |-> IF i = 0 THEN first ELSE Knowledge!Gather(g[i - 1], text[i])]
           h == CHOOSE g : g = Next1(g)
<1>1. n \in Nat /\ \A k \in 1 .. n : text[k] \in P
  OBVIOUS
<1>2. first \in Gathered /\ Held(first) = <<>>
  <2>1. Knowledge!Empty = [len |-> 0, chars |-> <<>>] /\ <<>> \in Seq(W)
    BY DEF Knowledge!Empty
  <2>2. 0 \in 0 .. Target + 3 /\ <<>> \in Seq(Knowledge!ChunkRows)
    BY TargetAssumption
  <2> HIDE DEF W
  <2>3. first \in Gathered
    BY <2>1, <2>2 DEF Gathered, W
  <2>4. first.rows = <<>> /\ first.open.chars = <<>>
    BY <2>1
  <2>5. Knowledge!TextOf(<<>>) = <<>>
    BY DEF Knowledge!TextOf, Knowledge!FlattenSeq
  <2> HIDE DEF first
  <2>6. Held(first) = <<>> \o <<>>
    BY <2>4, <2>5 DEF Held
  <2> QED BY <2>3, <2>6
<1>3. step \in [Gathered -> [P -> Gathered]]
  BY GatherKeeps
<1>4. PICK f \in [0 .. n -> Gathered] : Follows(f, step, first, text, n)
  <2> HIDE DEF step, first
  <2>1. text \in Seq(P)
    OBVIOUS
  <2> HIDE DEF P
  <2> QED BY <1>2, <1>3, <2>1, FoldExists
<1> HIDE DEF first
<1>5. f[0] = first /\ \A k \in 1 .. n : f[k] = Knowledge!Gather(f[k - 1], text[k]) /\ f[k - 1] \in Gathered
  <2> HIDE DEF n
  <2>1. \A k \in 1 .. n : k - 1 \in 0 .. n
    BY <1>1
  <2>2. \A k \in 1 .. n : f[k - 1] \in Gathered
    BY <1>4, <2>1
  <2> HIDE DEF P
  <2>3. \A k \in 1 .. n : step[f[k - 1]][text[k]] = Knowledge!Gather(f[k - 1], text[k])
    BY <1>1, <2>2
  <2> HIDE DEF step
  <2> QED BY <1>4, <2>2, <2>3 DEF Follows
<1>6. f = Next1(f)
  <2> HIDE DEF n
  <2>1. \A i \in 0 .. n : i = 0 \/ i \in 1 .. n
    BY <1>1
  <2>2. \A i \in 0 .. n : f[i] = IF i = 0 THEN first ELSE Knowledge!Gather(f[i - 1], text[i])
    BY <1>5, <2>1
  <2> QED BY <1>4, <2>2 DEF n
<1>7. h = Next1(h)
  BY <1>6
<1>8. \A i \in 0 .. n : h[i] = IF i = 0 THEN first ELSE Knowledge!Gather(h[i - 1], text[i])
  <2> HIDE DEF h
  <2> QED BY <1>7
<1>9. Knowledge!ChunkText(text) = Knowledge!Closed(h[n])
  BY DEF Knowledge!ChunkText, first
<1>10. text \in Seq(Seq(W))
  OBVIOUS
<1> HIDE DEF h, Next1, step, n, P
<1>11. f[n] = h[n]
  <2>1. 0 \in 0 .. n /\ \A k \in 1 .. n : k \in 0 .. n /\ k # 0
    BY <1>1
  <2>2. h[0] = first /\ \A k \in 1 .. n : h[k] = Knowledge!Gather(h[k - 1], text[k])
    BY <1>8, <2>1
  <2>3. GoAlike(f, h, n)
    BY <1>5, <2>2 DEF GoAlike
  <2> QED BY <1>1, <2>3, Alike
<1>12. PICK j \in [0 .. n -> Seq(W)] : JoinsTo(j, text, n) /\ Flat(text) = j[n]
  <2> HIDE DEF W
  <2> QED BY <1>10, FlatJoins DEF n
<1> DEFINE G == {k \in 0 .. n : Held(f[k]) = j[k]}
<1>13. 0 \in G
  <2>1. 0 \in 0 .. n
    BY <1>1
  <2> QED BY <1>2, <1>5, <1>12, <2>1 DEF JoinsTo
<1>14. ASSUME NEW k \in 1 .. n, k - 1 \in G PROVE k \in G
  <2>1. Held(f[k]) = Held(f[k - 1]) \o text[k]
    BY <1>1, <1>5, GatherKeeps DEF P
  <2>2. j[k] = j[k - 1] \o text[k]
    BY <1>12 DEF JoinsTo
  <2>3. k \in 0 .. n
    BY <1>1
  <2> QED BY <1>14, <2>1, <2>2, <2>3
<1> HIDE DEF G
<1>15. n \in G
  <2>1. 0 .. n \subseteq G
    BY <1>1, <1>13, <1>14, UpTo
  <2> QED BY <1>1, <2>1
<1>16. f[n] \in Gathered
  BY <1>1, <1>4
<1>17. Held(f[n]) = Flat(text)
  BY <1>12, <1>15 DEF G
<1> QED BY <1>9, <1>11, <1>16, <1>17, ClosedKeeps DEF Flat

\* In particular, those of a file that is uploaded.
LEMMA FilesAreChunked ==
  ASSUME NEW f \in Files
  PROVE  /\ Knowledge!ChunkText(f.text) \in Seq(Knowledge!ChunkRows)
         /\ Knowledge!TextOf(Knowledge!ChunkText(f.text)) = Knowledge!FlattenSeq(f.text)
<1>1. f.text \in Seq(Seq(Knowledge!Width))
  BY TextsAssumption
<1> QED BY <1>1, ChunksHoldText

-----------------------------------------------------------------------------
(* The knowledge base.                                                     *)

VectorModels == Models \union {Knowledge!Unbound}
StoredRows == [of : Knowledge!ChunkRows, vector : VectorModels]
UploadRows ==
  [pc : {"idle", "put", "create", "parse", "chunk", "insert", "embed", "vector", "done", "failed"},
   file : Files \union {Knowledge!NoUpload.file}, model : VectorModels, at : Nat]
DocRows ==
  [status : {"none", "parsing", "chunking", "embedding", "ready", "parse_failed", "index_failed"},
   hash : {f.hash : f \in Files} \union {"none"}]
HitRows == [doc : Uploads, chunk : Nat, vector : VectorModels]
QueryRows ==
  [pc : {"idle", "embed", "scan"}, model : VectorModels, ready : SUBSET Uploads,
   todo : SUBSET Uploads, hits : SUBSET HitRows]

KnowledgeTypes ==
  /\ kb \in [exists : BOOLEAN, model : VectorModels]
  /\ upload \in [Uploads -> UploadRows]
  /\ docs \in [Uploads -> DocRows]
  /\ chunks \in [Uploads -> Seq(StoredRows)]
  /\ query \in QueryRows
  /\ deletion \in [pc : {"idle", "row", "object"}, doc : Uploads \union {"none"}]

\* The chunks of an upload follow the text as far as it has got...
Indexed(l, s) ==
  l.pc \in {"insert", "embed", "vector", "done"} =>
    LET rows == Knowledge!ChunkText(l.file.text) IN
    /\ rows # <<>>
    /\ Len(s) = IF l.pc = "insert" THEN l.at ELSE Len(rows)
    /\ Len(s) <= Len(rows)
    /\ \A i \in 1 .. Len(s) : s[i].of = rows[i]

\* ...and the vectors are written from the last to the first.
Embedded(l, s) ==
  /\ l.pc \in {"vector", "done"} => l.model # Knowledge!Unbound
  /\ l.pc \in {"vector", "done"} =>
       \A i \in 1 .. Len(s) : l.pc = "done" \/ i > l.at => s[i].vector = l.model

\* A document is ready when its upload is over; nobody but a deletion has
\* touched its chunks since.
UploadFits(u, l, doc, s) ==
  /\ l.pc \notin {"idle", "failed"} => l.file \in Files
  /\ l.pc \in {"put", "create", "parse", "chunk"} => l.at = 0
  /\ doc.status = "ready" => l.pc = "done"
  /\ doc.status # "none" /\ u \notin stripped => Indexed(l, s)
  /\ Embedded(l, s)
  /\ l.pc \notin {"idle", "failed"} /\ u \notin rebound => l.model = kb.model

UploadsFit == \A u \in Uploads : UploadFits(u, upload[u], docs[u], chunks[u])

\* What a query has seen is what is there: a document it may still count on is
\* ready yet, and either to be read or read as it is.
QuerySees ==
  /\ kb.exists => query.ready \ stripped \subseteq Knowledge!Ready
  /\ query.pc # "scan" => query.hits = {}
  /\ query.todo \subseteq {u \in Uploads : upload[u].pc = "done"}
  /\ \A h \in query.hits :
       h.doc \notin query.todo /\ upload[h.doc].pc = "done" /\ h.vector = upload[h.doc].model
  /\ query.pc = "scan" /\ kb.exists =>
       \A u \in query.ready \ (stripped \union query.todo) :
         {h.chunk : h \in {g \in query.hits : g.doc = u}} = DOMAIN chunks[u]

IngestInv ==
  /\ KnowledgeTypes /\ UploadsFit /\ QuerySees
  /\ deletion.pc = "row" => deletion.doc \in stripped

LEMMA IngestStarts == Knowledge!Init => IngestInv
<1> SUFFICES ASSUME Knowledge!Init PROVE IngestInv
  OBVIOUS
<1> USE DEF Knowledge!Init
<1>1. /\ Knowledge!NoUpload \in UploadRows /\ Knowledge!NoUpload.pc = "idle"
      /\ Knowledge!NoDoc \in DocRows /\ Knowledge!NoDoc.status = "none"
      /\ Knowledge!NoQuery \in QueryRows /\ Knowledge!NoQuery.pc = "idle"
      /\ Knowledge!NoQuery.ready = {} /\ Knowledge!NoQuery.todo = {} /\ Knowledge!NoQuery.hits = {}
      /\ <<>> \in Seq(StoredRows)
  BY DEF Knowledge!NoUpload, Knowledge!NoDoc, Knowledge!NoQuery, UploadRows, DocRows, QueryRows,
     VectorModels
<1>2. KnowledgeTypes
  BY <1>1 DEF KnowledgeTypes, VectorModels
<1>3. UploadsFit
  BY <1>1 DEF UploadsFit, UploadFits, Indexed, Embedded
<1>4. QuerySees
  BY <1>1 DEF QuerySees
<1> QED BY <1>2, <1>3, <1>4 DEF IngestInv

\* A step of one upload, from one of its rows to the next.
LEMMA UploadMoves ==
  ASSUME IngestInv, NEW u \in Uploads, upload[u].pc # "done",
         NEW l \in UploadRows, upload' = [upload EXCEPT ![u] = l],
         NEW doc \in DocRows, docs' = [docs EXCEPT ![u] = doc],
         NEW s \in Seq(StoredRows), chunks' = [chunks EXCEPT ![u] = s],
         UploadFits(u, l, doc, s),
         UNCHANGED <<kb, deletion, query, stripped, rebound>>
  PROVE  IngestInv'
<1>1. /\ upload' \in [Uploads -> UploadRows] /\ docs' \in [Uploads -> DocRows]
      /\ chunks' \in [Uploads -> Seq(StoredRows)]
      /\ upload'[u] = l /\ docs'[u] = doc /\ chunks'[u] = s
      /\ \A v \in Uploads \ {u} :
           upload'[v] = upload[v] /\ docs'[v] = docs[v] /\ chunks'[v] = chunks[v]
  BY DEF IngestInv, KnowledgeTypes
<1>2. KnowledgeTypes'
  BY <1>1 DEF IngestInv, KnowledgeTypes
<1>3. UploadsFit'
  <2> SUFFICES ASSUME NEW v \in Uploads PROVE UploadFits(v, upload[v], docs[v], chunks[v])'
    BY DEF UploadsFit
  <2>1. CASE v = u
    BY <1>1, <2>1 DEF UploadFits, Indexed, Embedded
  <2>2. CASE v # u
    BY <1>1, <2>2 DEF IngestInv, UploadsFit, UploadFits, Indexed, Embedded
  <2> QED BY <2>1, <2>2
<1>4. docs[u].status # "ready"
  BY DEF IngestInv, UploadsFit, UploadFits
<1>5. Knowledge!Ready \subseteq Knowledge!Ready'
  BY <1>1, <1>4 DEF Knowledge!Ready
<1>6. query \in QueryRows
  BY DEF IngestInv, KnowledgeTypes
<1>7. QuerySees'
  <2>1. kb'.exists => query'.ready \ stripped' \subseteq Knowledge!Ready'
    BY <1>5 DEF IngestInv, QuerySees
  <2>2. query'.todo \subseteq {v \in Uploads : upload'[v].pc = "done"}
    BY <1>1 DEF IngestInv, QuerySees
  <2>3. \A h \in query'.hits :
          h.doc \notin query'.todo /\ upload'[h.doc].pc = "done" /\ h.vector = upload'[h.doc].model
    BY <1>1, <1>6 DEF IngestInv, QuerySees, QueryRows, HitRows
  <2>4. ASSUME query.pc = "scan", kb.exists, NEW v \in query.ready \ (stripped \union query.todo)
        PROVE  {h.chunk : h \in {g \in query.hits : g.doc = v}} = DOMAIN chunks'[v]
    <3>1. v \in Knowledge!Ready /\ v # u
      BY <1>4, <2>4 DEF IngestInv, QuerySees, Knowledge!Ready
    <3>2. v \in Uploads /\ chunks'[v] = chunks[v]
      BY <1>1, <3>1 DEF Knowledge!Ready
    <3> QED BY <2>4, <3>2 DEF IngestInv, QuerySees
  <2> QED BY <2>1, <2>2, <2>3, <2>4 DEF IngestInv, QuerySees
<1> QED BY <1>2, <1>3, <1>7 DEF IngestInv

\* What an upload writes: its place, the end, the status of its document.
LEMMA UploadTypes ==
  ASSUME IngestInv, NEW u \in Uploads
  PROVE  /\ upload[u] \in UploadRows /\ docs[u] \in DocRows /\ chunks[u] \in Seq(StoredRows)
         /\ UploadFits(u, upload[u], docs[u], chunks[u])
         /\ docs = [docs EXCEPT ![u] = docs[u]] /\ chunks = [chunks EXCEPT ![u] = chunks[u]]
  BY DEF IngestInv, KnowledgeTypes, UploadsFit

LEMMA PlaceWritten ==
  ASSUME IngestInv, NEW u \in Uploads,
         NEW pc \in {"create", "parse", "chunk", "insert", "embed", "done"}, Knowledge!Step(u, pc)
  PROVE  \E l \in UploadRows :
           /\ upload' = [upload EXCEPT ![u] = l]
           /\ l.pc = pc /\ l.file = upload[u].file /\ l.model = upload[u].model
           /\ l.at = upload[u].at
<1> DEFINE l == [upload[u] EXCEPT !.pc = pc]
<1>1. /\ l \in UploadRows
      /\ l.pc = pc /\ l.file = upload[u].file /\ l.model = upload[u].model /\ l.at = upload[u].at
  BY UploadTypes DEF UploadRows
<1>2. upload' = [upload EXCEPT ![u] = l]
  BY DEF Knowledge!Step
<1> HIDE DEF l
<1> QED BY <1>1, <1>2

LEMMA EndWritten ==
  ASSUME IngestInv, NEW u \in Uploads, Knowledge!End(u)
  PROVE  \E l \in UploadRows : upload' = [upload EXCEPT ![u] = l] /\ l.pc = "failed"
<1> DEFINE l == [Knowledge!NoUpload EXCEPT !.pc = "failed"]
<1>1. l \in UploadRows /\ l.pc = "failed"
  BY DEF Knowledge!NoUpload, UploadRows, VectorModels
<1>2. upload' = [upload EXCEPT ![u] = l]
  BY DEF Knowledge!End
<1> HIDE DEF l
<1> QED BY <1>1, <1>2

LEMMA StatusWritten ==
  ASSUME IngestInv, NEW u \in Uploads,
         NEW status \in {"chunking", "embedding", "ready", "parse_failed", "index_failed"},
         Knowledge!SetStatus(u, status)
  PROVE  \E doc \in DocRows :
           /\ docs' = [docs EXCEPT ![u] = doc]
           /\ doc.status = (IF docs[u].status = "none" THEN "none" ELSE status)
           /\ doc.hash = docs[u].hash
<1>1. CASE Knowledge!Exists(u)
  <2> DEFINE doc == [docs[u] EXCEPT !.status = status]
  <2>1. doc \in DocRows /\ doc.status = status /\ doc.hash = docs[u].hash
    BY UploadTypes DEF DocRows
  <2>2. docs' = [docs EXCEPT ![u] = doc]
    BY <1>1 DEF Knowledge!SetStatus
  <2> HIDE DEF doc
  <2> QED BY <1>1, <2>1, <2>2 DEF Knowledge!Exists
<1>2. CASE ~Knowledge!Exists(u)
  BY <1>2, UploadTypes DEF Knowledge!SetStatus, Knowledge!Exists
<1> QED BY <1>1, <1>2

\* An upload that ends leaves behind what it has written, and no document of it is ready.
LEMMA UploadEnds ==
  ASSUME IngestInv, NEW u \in Uploads, upload[u].pc # "done", Knowledge!End(u),
         NEW doc \in DocRows, docs' = [docs EXCEPT ![u] = doc], doc.status # "ready",
         UNCHANGED <<kb, chunks, deletion, query, stripped, rebound>>
  PROVE  IngestInv'
<1>1. PICK l \in UploadRows : upload' = [upload EXCEPT ![u] = l] /\ l.pc = "failed"
  BY EndWritten
<1>2. UploadFits(u, l, doc, chunks[u])
  BY <1>1 DEF UploadFits, Indexed, Embedded
<1>3. chunks[u] \in Seq(StoredRows) /\ chunks' = [chunks EXCEPT ![u] = chunks[u]]
  BY UploadTypes
<1> QED BY <1>1, <1>2, <1>3, UploadMoves

LEMMA BeginStep ==
  ASSUME IngestInv, NEW u \in Uploads, NEW f \in Files, Knowledge!Begin(u, f)
  PROVE  IngestInv'
<1>1. upload[u].pc = "idle" /\ UNCHANGED <<kb, docs, chunks, deletion, query, stripped, rebound>>
  BY DEF Knowledge!Begin
<1>2. docs[u].status # "ready"
  BY <1>1, UploadTypes DEF UploadFits
<1>3. CASE Knowledge!End(u)
  BY <1>1, <1>2, <1>3, UploadTypes, UploadEnds
<1>4. CASE upload' = [upload EXCEPT ![u] =
             [pc |-> "put", file |-> f, model |-> kb.model, at |-> 0]]
  <2> DEFINE l == [pc |-> "put", file |-> f, model |-> kb.model, at |-> 0]
  <2>1. l \in UploadRows
    BY DEF IngestInv, KnowledgeTypes, UploadRows
  <2>2. UploadFits(u, l, docs[u], chunks[u])
    BY <1>2 DEF UploadFits, Indexed, Embedded
  <2> HIDE DEF l
  <2> QED BY <1>1, <1>4, <2>1, <2>2, UploadTypes, UploadMoves DEF l
<1> QED BY <1>3, <1>4 DEF Knowledge!Begin

\* The steps before the first chunk, and those that only end an upload.
LEMMA EarlyStep ==
  ASSUME IngestInv, NEW u \in Uploads,
         \/ Knowledge!Put(u) \/ Knowledge!CreateDocument(u) \/ Knowledge!Parse(u)
         \/ Knowledge!Chunk(u) \/ Knowledge!EmbedFails(u) \/ Knowledge!Stop(u)
  PROVE  IngestInv'
<1>1. /\ UNCHANGED <<kb, deletion, query, stripped, rebound>>
      /\ upload[u].pc \notin {"idle", "done", "failed"} /\ upload[u].file \in Files
      /\ docs[u].status # "ready"
  BY UploadTypes DEF Knowledge!Put, Knowledge!CreateDocument, Knowledge!Parse, Knowledge!Chunk,
     Knowledge!EmbedFails, Knowledge!Stop, UploadFits
<1>2. CASE Knowledge!Put(u)
  <2>1. Knowledge!Step(u, "create") /\ UNCHANGED <<docs, chunks>>
    BY <1>2 DEF Knowledge!Put
  <2>2. PICK l \in UploadRows :
          /\ upload' = [upload EXCEPT ![u] = l]
          /\ l.pc = "create" /\ l.file = upload[u].file /\ l.model = upload[u].model
          /\ l.at = upload[u].at
    BY <2>1, PlaceWritten
  <2>3. UploadFits(u, l, docs[u], chunks[u])
    BY <1>1, <1>2, <2>2, UploadTypes DEF UploadFits, Indexed, Embedded, Knowledge!Put
  <2> QED BY <1>1, <2>1, <2>2, <2>3, UploadTypes, UploadMoves
<1>3. CASE Knowledge!CreateDocument(u)
  <2>1. UNCHANGED chunks
    BY <1>3 DEF Knowledge!CreateDocument
  <2>2. CASE Knowledge!End(u) /\ UNCHANGED docs
    BY <1>1, <2>1, <2>2, UploadTypes, UploadEnds
  <2>3. CASE /\ docs' = [docs EXCEPT ![u] = [status |-> "parsing", hash |-> upload[u].file.hash]]
             /\ Knowledge!Step(u, "parse")
    <3> DEFINE doc == [status |-> "parsing", hash |-> upload[u].file.hash]
    <3>1. doc \in DocRows /\ doc.status = "parsing"
      BY <1>1 DEF DocRows
    <3>2. PICK l \in UploadRows :
            /\ upload' = [upload EXCEPT ![u] = l]
            /\ l.pc = "parse" /\ l.file = upload[u].file /\ l.model = upload[u].model
            /\ l.at = upload[u].at
      BY <2>3, PlaceWritten
    <3>3. docs' = [docs EXCEPT ![u] = doc]
      BY <2>3
    <3> HIDE DEF doc
    <3>4. UploadFits(u, l, doc, chunks[u])
      <4>1. upload[u].at = 0
        BY <1>3, UploadTypes DEF UploadFits, Knowledge!CreateDocument
      <4> QED BY <1>1, <3>1, <3>2, <4>1, UploadTypes DEF UploadFits, Indexed, Embedded
    <3> QED BY <1>1, <2>1, <3>1, <3>2, <3>3, <3>4, UploadTypes, UploadMoves
  <2> QED BY <1>3, <2>2, <2>3 DEF Knowledge!CreateDocument
<1>4. ASSUME NEW status \in {"parse_failed", "index_failed"}, Knowledge!SetStatus(u, status),
             Knowledge!End(u), UNCHANGED chunks
      PROVE  IngestInv'
  <2>1. PICK doc \in DocRows : docs' = [docs EXCEPT ![u] = doc] /\ doc.status # "ready"
    BY <1>4, StatusWritten
  <2> QED BY <1>1, <1>4, <2>1, UploadEnds
<1>5. CASE Knowledge!Parse(u)
  <2>1. UNCHANGED chunks
    BY <1>5 DEF Knowledge!Parse
  <2>2. CASE Knowledge!SetStatus(u, "chunking") /\ Knowledge!Step(u, "chunk")
    <3>1. PICK doc \in DocRows : docs' = [docs EXCEPT ![u] = doc] /\ doc.status # "ready"
      BY <2>2, StatusWritten
    <3>2. PICK l \in UploadRows :
            /\ upload' = [upload EXCEPT ![u] = l]
            /\ l.pc = "chunk" /\ l.file = upload[u].file /\ l.model = upload[u].model
            /\ l.at = upload[u].at
      BY <2>2, PlaceWritten
    <3>3. UploadFits(u, l, doc, chunks[u])
      <4>1. upload[u].at = 0
        BY <1>5, UploadTypes DEF UploadFits, Knowledge!Parse
      <4> QED BY <1>1, <3>1, <3>2, <4>1, UploadTypes DEF UploadFits, Indexed, Embedded
    <3> QED BY <1>1, <2>1, <3>1, <3>2, <3>3, UploadTypes, UploadMoves
  <2> QED BY <1>4, <1>5, <2>1, <2>2 DEF Knowledge!Parse
<1>6. CASE Knowledge!Chunk(u)
  <2>1. CASE /\ Knowledge!ChunkText(upload[u].file.text) # <<>>
             /\ chunks' = [chunks EXCEPT ![u] = <<>>] /\ UNCHANGED docs
             /\ Knowledge!Step(u, "insert")
    <3>1. PICK l \in UploadRows :
            /\ upload' = [upload EXCEPT ![u] = l]
            /\ l.pc = "insert" /\ l.file = upload[u].file /\ l.model = upload[u].model
            /\ l.at = upload[u].at
      BY <2>1, PlaceWritten
    <3>2. upload[u].at = 0 /\ <<>> \in Seq(StoredRows)
      BY <1>6, UploadTypes DEF Knowledge!Chunk, UploadFits
    <3>3. Knowledge!ChunkText(l.file.text) \in Seq(Knowledge!ChunkRows)
      BY <1>1, <3>1, FilesAreChunked
    <3>4. Indexed(l, <<>>)
      BY <2>1, <3>1, <3>2, <3>3 DEF Indexed
    <3>5. UploadFits(u, l, docs[u], <<>>)
      BY <1>1, <3>1, <3>4, UploadTypes DEF UploadFits, Embedded
    <3> QED BY <1>1, <2>1, <3>1, <3>2, <3>5, UploadTypes, UploadMoves
  <2> QED BY <1>4, <1>6, <2>1 DEF Knowledge!Chunk
<1>7. CASE Knowledge!EmbedFails(u)
  BY <1>4, <1>7 DEF Knowledge!EmbedFails
<1>8. CASE Knowledge!Stop(u)
  <2>1. Knowledge!End(u) /\ UNCHANGED <<docs, chunks>>
    BY <1>8 DEF Knowledge!Stop
  <2> QED BY <1>1, <2>1, UploadTypes, UploadEnds
<1> QED BY <1>2, <1>3, <1>5, <1>6, <1>7, <1>8

\* A chunk is inserted, or the chunks are all there.
LEMMA InsertStep ==
  ASSUME IngestInv, NEW u \in Uploads, Knowledge!InsertChunk(u)
  PROVE  IngestInv'
<1> DEFINE rows == Knowledge!ChunkText(upload[u].file.text)
           pos == upload[u].at
<1>1. /\ UNCHANGED <<kb, deletion, query, stripped, rebound>>
      /\ upload[u].pc = "insert" /\ upload[u].file \in Files
      /\ docs[u].status # "ready" /\ upload[u] \in UploadRows /\ docs[u] \in DocRows
      /\ chunks[u] \in Seq(StoredRows)
      /\ docs[u].status # "none" /\ u \notin stripped => Indexed(upload[u], chunks[u])
      /\ u \notin rebound => upload[u].model = kb.model
  BY UploadTypes DEF Knowledge!InsertChunk, UploadFits
<1>2. rows \in Seq(Knowledge!ChunkRows) /\ pos \in Nat
  BY <1>1, FilesAreChunked DEF UploadRows
<1>3. CASE ~Knowledge!Exists(u)
  <2>1. Knowledge!End(u) /\ UNCHANGED <<docs, chunks>>
    BY <1>3 DEF Knowledge!InsertChunk
  <2> QED BY <1>1, <2>1, UploadTypes, UploadEnds
<1>4. CASE Knowledge!Exists(u) /\ pos < Len(rows)
  <2> DEFINE new == [of |-> rows[pos + 1], vector |-> Knowledge!Unbound]
             s == Append(chunks[u], new)
             l == [upload[u] EXCEPT !.at = pos + 1]
  <2>1. new \in StoredRows /\ new.of = rows[pos + 1]
    BY <1>2, <1>4 DEF StoredRows, VectorModels
  <2>2. /\ chunks' = [chunks EXCEPT ![u] = s] /\ UNCHANGED docs
        /\ upload' = [upload EXCEPT ![u] = l]
    BY <1>4 DEF Knowledge!InsertChunk
  <2>3. /\ l \in UploadRows /\ l.pc = "insert" /\ l.at = pos + 1
        /\ l.file = upload[u].file /\ l.model = upload[u].model
    BY <1>1, <1>2 DEF UploadRows
  <2> HIDE DEF new, l, rows, pos
  <2>4. /\ s \in Seq(StoredRows) /\ Len(s) = Len(chunks[u]) + 1 /\ Len(chunks[u]) \in Nat
        /\ \A i \in 1 .. Len(s) : s[i] = IF i = Len(chunks[u]) + 1 THEN new ELSE chunks[u][i]
    BY <1>1, <2>1
  <2> HIDE DEF s
  <2>5. ASSUME u \notin stripped PROVE Indexed(l, s)
    <3>1. /\ rows # <<>> /\ Len(chunks[u]) = pos
          /\ \A i \in 1 .. Len(chunks[u]) : chunks[u][i].of = rows[i]
      BY <1>1, <1>4, <2>5 DEF Indexed, Knowledge!Exists, rows, pos
    <3>2. rows = Knowledge!ChunkText(l.file.text)
      BY <2>3 DEF rows
    <3>3. Len(s) = l.at /\ Len(s) <= Len(rows)
      BY <1>2, <1>4, <2>3, <2>4, <3>1
    <3>4. \A i \in 1 .. Len(s) : s[i].of = rows[i]
      BY <2>1, <2>4, <3>1
    <3> QED BY <2>3, <3>1, <3>2, <3>3, <3>4 DEF Indexed
  <2>6. UploadFits(u, l, docs[u], s)
    BY <1>1, <2>3, <2>5 DEF UploadFits, Embedded
  <2> QED BY <1>1, <2>2, <2>3, <2>4, <2>6, UploadTypes, UploadMoves
<1>5. CASE Knowledge!Exists(u) /\ ~(pos < Len(rows))
  <2>1. Knowledge!SetStatus(u, "embedding") /\ Knowledge!Step(u, "embed") /\ UNCHANGED chunks
    BY <1>5 DEF Knowledge!InsertChunk
  <2>2. PICK doc \in DocRows : docs' = [docs EXCEPT ![u] = doc] /\ doc.status # "ready"
    BY <2>1, StatusWritten
  <2>3. PICK l \in UploadRows :
          /\ upload' = [upload EXCEPT ![u] = l]
          /\ l.pc = "embed" /\ l.file = upload[u].file /\ l.model = upload[u].model
    BY <2>1, PlaceWritten
  <2>4. ASSUME u \notin stripped PROVE Indexed(l, chunks[u])
    <3>1. Indexed(upload[u], chunks[u])
      BY <1>1, <1>5, <2>4 DEF Knowledge!Exists
    <3>2. rows = Knowledge!ChunkText(l.file.text)
      BY <2>3
    <3>3. rows # <<>> /\ Len(chunks[u]) = pos /\ pos <= Len(rows)
            /\ \A i \in 1 .. Len(chunks[u]) : chunks[u][i].of = rows[i]
      BY <1>1, <3>1 DEF Indexed
    <3>4. Len(chunks[u]) = Len(rows)
      BY <1>2, <1>5, <3>3
    <3> QED BY <2>3, <3>2, <3>3, <3>4 DEF Indexed
  <2>5. UploadFits(u, l, doc, chunks[u])
    BY <1>1, <2>2, <2>3, <2>4 DEF UploadFits, Embedded
  <2> QED BY <1>1, <2>1, <2>2, <2>3, <2>5, UploadTypes, UploadMoves
<1> QED BY <1>3, <1>4, <1>5

\* The vectors come, and are written.
LEMMA VectorStep ==
  ASSUME IngestInv, NEW u \in Uploads, Knowledge!Embed(u) \/ Knowledge!WriteVector(u)
  PROVE  IngestInv'
<1> DEFINE pos == upload[u].at
           model == upload[u].model
<1>1. /\ UNCHANGED <<kb, deletion, query, stripped, rebound>>
      /\ upload[u].pc \in {"embed", "vector"} /\ upload[u].file \in Files
      /\ docs[u].status # "ready" /\ upload[u] \in UploadRows /\ docs[u] \in DocRows
      /\ chunks[u] \in Seq(StoredRows)
      /\ docs[u].status # "none" /\ u \notin stripped => Indexed(upload[u], chunks[u])
      /\ u \notin rebound => upload[u].model = kb.model
      /\ Embedded(upload[u], chunks[u])
  BY UploadTypes DEF Knowledge!Embed, Knowledge!WriteVector, UploadFits
<1>2. pos \in Nat /\ model \in VectorModels
  BY <1>1 DEF UploadRows
<1>3. CASE Knowledge!Embed(u)
  <2>1. UNCHANGED <<docs, chunks>> /\ upload[u].pc = "embed" /\ model # Knowledge!Unbound
    BY <1>3 DEF Knowledge!Embed
  <2> DEFINE m == [upload[u] EXCEPT !.pc = "vector"]
             l == [m EXCEPT !.at = Len(chunks[u])]
  <2>2. m \in UploadRows /\ m.pc = "vector" /\ m.file = upload[u].file /\ m.model = model
    BY <1>1 DEF UploadRows
  <2>3. upload' = [upload EXCEPT ![u] = l]
    BY <1>3 DEF Knowledge!Embed
  <2> HIDE DEF m, pos, model
  <2>4. /\ l \in UploadRows /\ l.pc = "vector" /\ l.file = upload[u].file /\ l.model = model
        /\ l.at = Len(chunks[u])
    <3>1. Len(chunks[u]) \in Nat
      BY <1>1
    <3> QED BY <2>2, <3>1 DEF UploadRows
  <2> HIDE DEF l
  <2>5. Embedded(l, chunks[u])
    BY <2>1, <2>4, <1>1 DEF Embedded
  <2>6. Indexed(upload[u], chunks[u]) => Indexed(l, chunks[u])
    BY <2>1, <2>4 DEF Indexed
  <2>7. UploadFits(u, l, docs[u], chunks[u])
    BY <1>1, <2>4, <2>5, <2>6 DEF UploadFits, model
  <2> QED BY <1>1, <2>1, <2>3, <2>4, <2>7, UploadTypes, UploadMoves
<1>4. CASE Knowledge!WriteVector(u) /\ pos > 0
  <2> DEFINE l == [upload[u] EXCEPT !.at = pos - 1]
             new == [chunks[u][pos] EXCEPT !.vector = model]
             s == IF pos \in DOMAIN chunks[u] THEN [chunks[u] EXCEPT ![pos] = new] ELSE chunks[u]
  <2>1. /\ UNCHANGED docs /\ upload' = [upload EXCEPT ![u] = l]
        /\ chunks' = [chunks EXCEPT ![u] = s] /\ upload[u].pc = "vector"
    BY <1>4, UploadTypes DEF Knowledge!WriteVector
  <2>2. /\ l \in UploadRows /\ l.pc = "vector" /\ l.file = upload[u].file /\ l.model = model
        /\ l.at = pos - 1
    BY <1>1, <1>2, <1>4, <2>1 DEF UploadRows
  <2>3. pos \in DOMAIN chunks[u] =>
          new \in StoredRows /\ new.of = chunks[u][pos].of /\ new.vector = model
    <3>1. pos \in DOMAIN chunks[u] => chunks[u][pos] \in StoredRows
      BY <1>1
    <3> HIDE DEF pos, model
    <3> QED BY <1>2, <3>1 DEF StoredRows
  <2> HIDE DEF l, new, pos, model
  <2>4. /\ s \in Seq(StoredRows) /\ Len(s) = Len(chunks[u])
        /\ \A i \in 1 .. Len(s) :
             s[i] = IF i = pos THEN new ELSE chunks[u][i]
    BY <1>1, <2>3
  <2> HIDE DEF s
  <2>5. Len(s) \in Nat /\ DOMAIN chunks[u] = 1 .. Len(s)
    BY <1>1, <2>4
  <2>6. \A i \in 1 .. Len(s) : s[i].of = chunks[u][i].of
    BY <2>3, <2>4, <2>5
  <2>7. Embedded(l, s)
    BY <1>1, <1>2, <2>1, <2>2, <2>3, <2>4, <2>5 DEF Embedded, pos, model
  <2>8. Indexed(upload[u], chunks[u]) => Indexed(l, s)
    BY <2>1, <2>2, <2>4, <2>6 DEF Indexed
  <2>9. UploadFits(u, l, docs[u], s)
    BY <1>1, <2>2, <2>7, <2>8 DEF UploadFits, model
  <2> QED BY <1>1, <2>1, <2>2, <2>4, <2>9, UploadTypes, UploadMoves
<1>5. CASE Knowledge!WriteVector(u) /\ ~(pos > 0)
  <2>1. /\ Knowledge!SetStatus(u, "ready") /\ Knowledge!Step(u, "done") /\ UNCHANGED chunks
        /\ upload[u].pc = "vector"
    BY <1>5 DEF Knowledge!WriteVector
  <2>2. PICK doc \in DocRows :
          docs' = [docs EXCEPT ![u] = doc] /\ (docs[u].status = "none" => doc.status = "none")
    BY <2>1, StatusWritten
  <2>3. PICK l \in UploadRows :
          /\ upload' = [upload EXCEPT ![u] = l]
          /\ l.pc = "done" /\ l.file = upload[u].file /\ l.model = upload[u].model
    BY <2>1, PlaceWritten
  <2>4. pos = 0
    BY <1>2, <1>5
  <2>5. Embedded(l, chunks[u])
    BY <1>1, <2>1, <2>3, <2>4 DEF Embedded
  <2>6. Indexed(upload[u], chunks[u]) => Indexed(l, chunks[u])
    BY <2>1, <2>3 DEF Indexed
  <2>7. UploadFits(u, l, doc, chunks[u])
    BY <1>1, <2>2, <2>3, <2>5, <2>6 DEF UploadFits
  <2> QED BY <1>1, <2>1, <2>2, <2>3, <2>7, UploadTypes, UploadMoves
<1> QED BY <1>3, <1>4, <1>5

\* A deletion and a new binding leave the uploads where they are.
LEMMA DeletionStep ==
  ASSUME IngestInv, NEW d,
         \/ d \in Uploads /\ Knowledge!DeleteChunks(d)
         \/ Knowledge!DeleteRow \/ Knowledge!DeleteObject \/ Knowledge!DeleteFails
         \/ Knowledge!WipeObjects \/ Knowledge!DeleteKb
  PROVE  IngestInv'
<1>1. UNCHANGED <<upload, query, rebound>>
  BY DEF Knowledge!DeleteChunks, Knowledge!DeleteRow, Knowledge!DeleteObject,
     Knowledge!DeleteFails, Knowledge!WipeObjects, Knowledge!DeleteKb
<1>2. /\ Knowledge!NoDoc \in DocRows /\ Knowledge!NoDoc.status = "none"
      /\ <<>> \in Seq(StoredRows) /\ Len(<<>>) = 0
  BY DEF Knowledge!NoDoc, DocRows
<1>3. /\ kb' \in [exists : BOOLEAN, model : VectorModels] /\ kb'.model = kb.model
      /\ kb'.exists => kb.exists
      /\ docs' \in [Uploads -> DocRows] /\ chunks' \in [Uploads -> Seq(StoredRows)]
      /\ stripped \subseteq stripped'
      /\ deletion'.pc = "row" => deletion'.doc \in stripped'
      /\ deletion' \in [pc : {"idle", "row", "object"}, doc : Uploads \union {"none"}]
      /\ \A u \in Uploads :
           \/ docs'[u] = docs[u] /\ chunks'[u] = chunks[u]
           \/ /\ docs'[u] \in {docs[u], Knowledge!NoDoc} /\ chunks'[u] = <<>>
              /\ u \in stripped' \/ (~kb'.exists /\ docs'[u] = Knowledge!NoDoc)
  <2>1. /\ kb \in [exists : BOOLEAN, model : VectorModels]
        /\ docs \in [Uploads -> DocRows] /\ chunks \in [Uploads -> Seq(StoredRows)]
        /\ deletion \in [pc : {"idle", "row", "object"}, doc : Uploads \union {"none"}]
        /\ deletion.pc = "row" => deletion.doc \in stripped
    BY DEF IngestInv, KnowledgeTypes
  <2>2. CASE d \in Uploads /\ Knowledge!DeleteChunks(d)
    <3>1. /\ chunks' = [chunks EXCEPT ![d] = <<>>] /\ UNCHANGED <<kb, docs>>
          /\ stripped' = stripped \union {d} /\ deletion' = [pc |-> "row", doc |-> d]
      BY <2>2 DEF Knowledge!DeleteChunks
    <3>2. /\ chunks' \in [Uploads -> Seq(StoredRows)]
          /\ \A u \in Uploads : chunks'[u] = IF u = d THEN <<>> ELSE chunks[u]
      BY <1>2, <2>1, <2>2, <3>1
    <3>3. /\ deletion' \in [pc : {"idle", "row", "object"}, doc : Uploads \union {"none"}]
          /\ deletion'.pc = "row" => deletion'.doc \in stripped'
      BY <2>2, <3>1
    <3>4. \A u \in Uploads : docs'[u] = docs[u]
      BY <3>1
    <3>5. \A u \in Uploads : docs'[u] = docs[u]
                            /\ (chunks'[u] = chunks[u] \/ (chunks'[u] = <<>> /\ u \in stripped'))
      BY <3>1, <3>2, <3>4
    <3>6. kb' = kb /\ docs' = docs /\ stripped \subseteq stripped'
      BY <3>1
    <3>7. \A u \in Uploads :
            \/ docs'[u] = docs[u] /\ chunks'[u] = chunks[u]
            \/ /\ docs'[u] \in {docs[u], Knowledge!NoDoc} /\ chunks'[u] = <<>>
               /\ u \in stripped'
      BY <3>5
    <3> QED BY <2>1, <3>2, <3>3, <3>6, <3>7
  <2>3. CASE Knowledge!DeleteRow
    <3> PICK doc : doc = deletion.doc
      OBVIOUS
    <3>1. /\ chunks' = [chunks EXCEPT ![doc] = <<>>]
          /\ docs' = [docs EXCEPT ![doc] = Knowledge!NoDoc]
          /\ deletion' = [deletion EXCEPT !.pc = "object"]
          /\ UNCHANGED <<kb, stripped>> /\ doc \in stripped
      BY <2>1, <2>3 DEF Knowledge!DeleteRow
    <3>2. /\ chunks' \in [Uploads -> Seq(StoredRows)] /\ docs' \in [Uploads -> DocRows]
          /\ \A u \in Uploads : /\ chunks'[u] = IF u = doc THEN <<>> ELSE chunks[u]
                                /\ docs'[u] = IF u = doc THEN Knowledge!NoDoc ELSE docs[u]
      BY <1>2, <2>1, <3>1
    <3>3. /\ deletion' \in [pc : {"idle", "row", "object"}, doc : Uploads \union {"none"}]
          /\ deletion'.pc # "row"
      BY <2>1, <3>1
    <3> QED BY <2>1, <3>1, <3>2, <3>3
  <2>4. CASE Knowledge!DeleteObject \/ Knowledge!DeleteFails \/ Knowledge!WipeObjects
    BY <2>1, <2>4 DEF Knowledge!DeleteObject, Knowledge!DeleteFails, Knowledge!WipeObjects
  <2>5. CASE Knowledge!DeleteKb
    BY <1>2, <2>1, <2>5 DEF Knowledge!DeleteKb
  <2> QED BY <2>2, <2>3, <2>4, <2>5
<1>4. KnowledgeTypes'
  BY <1>1, <1>3 DEF IngestInv, KnowledgeTypes
<1>5. UploadsFit'
  <2> SUFFICES ASSUME NEW u \in Uploads PROVE UploadFits(u, upload[u], docs[u], chunks[u])'
    BY DEF UploadsFit
  <2>1. UploadFits(u, upload[u], docs[u], chunks[u])
    BY UploadTypes
  <2>2. CASE docs'[u] = docs[u] /\ chunks'[u] = chunks[u]
    BY <1>1, <1>3, <2>1, <2>2 DEF UploadFits, Indexed, Embedded
  <2>3. CASE docs'[u] = Knowledge!NoDoc /\ chunks'[u] = <<>>
    BY <1>1, <1>2, <1>3, <2>1, <2>3 DEF UploadFits, Embedded
  <2>4. CASE u \in stripped' /\ docs'[u] = docs[u] /\ chunks'[u] = <<>>
    BY <1>1, <1>2, <1>3, <2>1, <2>4 DEF UploadFits, Embedded
  <2> QED BY <1>3, <2>2, <2>3, <2>4
<1>6. QuerySees'
  <2>1. ASSUME kb'.exists, NEW u \in query.ready \ stripped'
        PROVE  u \in Knowledge!Ready /\ docs'[u] = docs[u] /\ chunks'[u] = chunks[u]
    <3>1. u \in Knowledge!Ready
      BY <1>3, <2>1 DEF IngestInv, QuerySees
    <3> QED BY <1>3, <2>1, <3>1 DEF Knowledge!Ready
  <2>2. kb'.exists => query'.ready \ stripped' \subseteq Knowledge!Ready'
    BY <1>1, <2>1 DEF Knowledge!Ready
  <2> QED BY <1>1, <1>3, <2>1, <2>2 DEF IngestInv, QuerySees
<1> QED BY <1>3, <1>4, <1>5, <1>6 DEF IngestInv

LEMMA BindStep ==
  ASSUME IngestInv, NEW m \in Models, Knowledge!BindModel(m)
  PROVE  IngestInv'
<1>1. /\ UNCHANGED <<docs, chunks, upload, deletion, query, stripped>>
      /\ kb' = [kb EXCEPT !.model = m] /\ kb.exists
      /\ rebound' = {u \in Uploads : upload[u].pc # "idle"}
  BY DEF Knowledge!BindModel
<1>2. kb' \in [exists : BOOLEAN, model : VectorModels] /\ (kb'.exists = kb.exists)
  BY <1>1 DEF IngestInv, KnowledgeTypes, VectorModels
<1>3. KnowledgeTypes'
  BY <1>1, <1>2 DEF IngestInv, KnowledgeTypes
<1>4. UploadsFit'
  BY <1>1 DEF IngestInv, UploadsFit, UploadFits, Indexed, Embedded
<1>5. QuerySees'
  BY <1>1, <1>2 DEF IngestInv, QuerySees, Knowledge!Ready
<1> QED BY <1>1, <1>3, <1>4, <1>5 DEF IngestInv

\* A query: the documents it will read are those that were ready when it listed
\* them, and it reads each as it is.
LEMMA QueryMoves ==
  ASSUME IngestInv, NEW q \in QueryRows, query' = q,
         UNCHANGED <<kb, docs, chunks, upload, deletion, stripped, rebound>>,
         kb.exists => q.ready \ stripped \subseteq Knowledge!Ready,
         q.pc # "scan" => q.hits = {},
         q.todo \subseteq {u \in Uploads : upload[u].pc = "done"},
         \A h \in q.hits :
           h.doc \notin q.todo /\ upload[h.doc].pc = "done" /\ h.vector = upload[h.doc].model,
         q.pc = "scan" /\ kb.exists =>
           \A u \in q.ready \ (stripped \union q.todo) :
             {h.chunk : h \in {g \in q.hits : g.doc = u}} = DOMAIN chunks[u]
  PROVE  IngestInv'
<1>1. KnowledgeTypes'
  BY DEF IngestInv, KnowledgeTypes
<1>2. UploadsFit'
  BY DEF IngestInv, UploadsFit, UploadFits, Indexed, Embedded
<1>3. Knowledge!Ready' = Knowledge!Ready
  BY DEF Knowledge!Ready
<1>4. QuerySees'
  BY <1>3 DEF QuerySees
<1> QED BY <1>1, <1>2, <1>4 DEF IngestInv

LEMMA QueryTypes ==
  ASSUME IngestInv
  PROVE  /\ query \in QueryRows /\ QuerySees
         /\ kb.model \in VectorModels
         /\ Knowledge!NoQuery \in QueryRows /\ Knowledge!NoQuery.pc = "idle"
         /\ Knowledge!NoQuery.ready = {} /\ Knowledge!NoQuery.todo = {}
         /\ Knowledge!NoQuery.hits = {}
         /\ Knowledge!Ready \subseteq Uploads
         /\ Knowledge!Ready \subseteq {u \in Uploads : upload[u].pc = "done"}
<1>1. Knowledge!Ready \subseteq {u \in Uploads : upload[u].pc = "done"}
  BY DEF IngestInv, UploadsFit, UploadFits, Knowledge!Ready
<1> QED BY <1>1 DEF IngestInv, KnowledgeTypes, Knowledge!Ready, Knowledge!NoQuery, QueryRows,
        VectorModels

LEMMA AskStep ==
  ASSUME IngestInv, Knowledge!Ask \/ Knowledge!ListDocuments \/ Knowledge!Answer
  PROVE  IngestInv'
<1>1. UNCHANGED <<kb, docs, chunks, upload, deletion, stripped, rebound>>
  BY DEF Knowledge!Ask, Knowledge!ListDocuments, Knowledge!Answer
<1>2. CASE Knowledge!Ask
  <2> DEFINE q == [Knowledge!NoQuery EXCEPT !.pc = "embed", !.model = kb.model,
                                            !.ready = Knowledge!Ready]
  <2>1. query' = q
    BY <1>2 DEF Knowledge!Ask
  <2>2. q \in QueryRows /\ q.pc = "embed" /\ q.ready = Knowledge!Ready /\ q.todo = {} /\ q.hits = {}
    BY QueryTypes DEF QueryRows
  <2> HIDE DEF q
  <2> QED BY <1>1, <2>1, <2>2, QueryMoves
<1>3. CASE Knowledge!ListDocuments
  <2> DEFINE q == [query EXCEPT !.pc = "scan", !.todo = Knowledge!Ready]
  <2>1. query' = q /\ query.pc = "embed"
    BY <1>3 DEF Knowledge!ListDocuments
  <2>2. /\ q \in QueryRows /\ q.pc = "scan" /\ q.ready = query.ready
        /\ q.todo = Knowledge!Ready /\ q.hits = query.hits
    BY QueryTypes DEF QueryRows
  <2> HIDE DEF q
  <2>3. q.hits = {} /\ (kb.exists => q.ready \ stripped \subseteq q.todo)
    BY <2>1, <2>2, QueryTypes DEF QuerySees
  <2> QED BY <1>1, <2>1, <2>2, <2>3, QueryTypes, QueryMoves
<1>4. CASE Knowledge!Answer
  <2>1. query' = Knowledge!NoQuery
    BY <1>4 DEF Knowledge!Answer
  <2> QED BY <1>1, <2>1, QueryTypes, QueryMoves
<1> QED BY <1>2, <1>3, <1>4

LEMMA ScanStep ==
  ASSUME IngestInv, NEW d \in Uploads, Knowledge!Scan(d)
  PROVE  IngestInv'
<1> DEFINE seen == {[doc |-> d, chunk |-> i, vector |-> chunks[d][i].vector] :
                      i \in {j \in DOMAIN chunks[d] : chunks[d][j].vector # Knowledge!Unbound}}
           some == [query EXCEPT !.todo = query.todo \ {d}]
           q == [some EXCEPT !.hits = query.hits \union seen]
<1>1. UNCHANGED <<kb, docs, chunks, upload, deletion, stripped, rebound>>
  BY DEF Knowledge!Scan
<1>2. query.pc = "scan" /\ d \in query.todo /\ query' = q
  <2>1. query \in QueryRows
    BY QueryTypes
  <2> QED BY <2>1 DEF Knowledge!Scan, QueryRows
<1>3. /\ chunks[d] \in Seq(StoredRows) /\ upload[d].pc = "done"
      /\ DOMAIN chunks[d] = 1 .. Len(chunks[d])
  BY <1>2, UploadTypes, QueryTypes DEF QuerySees
<1>4. \A i \in DOMAIN chunks[d] : chunks[d][i].vector = upload[d].model
                                  /\ chunks[d][i].vector # Knowledge!Unbound
                                  /\ chunks[d][i].vector \in VectorModels
  <2>1. Embedded(upload[d], chunks[d])
    BY UploadTypes DEF UploadFits
  <2>2. \A i \in DOMAIN chunks[d] : chunks[d][i] \in StoredRows
    BY <1>3
  <2> QED BY <1>3, <2>1, <2>2 DEF Embedded, StoredRows
<1>5. seen = {[doc |-> d, chunk |-> i, vector |-> chunks[d][i].vector] : i \in DOMAIN chunks[d]}
  BY <1>4
<1>6. /\ \A h \in seen : h \in HitRows /\ h.doc = d /\ h.vector = upload[d].model
      /\ {h.chunk : h \in seen} = DOMAIN chunks[d]
  <2>1. \A i \in DOMAIN chunks[d] : i \in Nat
    BY <1>3
  <2>2. \A i \in DOMAIN chunks[d] :
          /\ [doc |-> d, chunk |-> i, vector |-> chunks[d][i].vector] \in HitRows
          /\ chunks[d][i].vector = upload[d].model
    BY <1>4, <2>1 DEF HitRows
  <2>3. {h.chunk : h \in seen} = DOMAIN chunks[d]
    <3> DEFINE hit(i) == [doc |-> d, chunk |-> i, vector |-> chunks[d][i].vector]
    <3>1. seen = {hit(i) : i \in DOMAIN chunks[d]} /\ \A i : hit(i).chunk = i
      BY <1>5
    <3> HIDE DEF hit, seen
    <3> QED BY <3>1
  <2> QED
    <3> SUFFICES ASSUME NEW h \in seen
                 PROVE  h \in HitRows /\ h.doc = d /\ h.vector = upload[d].model
      BY <2>3
    <3>1. PICK i \in DOMAIN chunks[d] : h = [doc |-> d, chunk |-> i, vector |-> chunks[d][i].vector]
      BY <1>5
    <3> QED BY <2>2, <3>1
<1> HIDE DEF seen
<1>7. /\ q \in QueryRows /\ q.pc = "scan" /\ q.ready = query.ready
      /\ q.todo = query.todo \ {d} /\ q.hits = query.hits \union seen
  <2>1. some \in QueryRows /\ some.pc = query.pc /\ some.ready = query.ready
        /\ some.todo = query.todo \ {d} /\ some.hits = query.hits
    BY QueryTypes DEF QueryRows
  <2> HIDE DEF some
  <2>2. query.hits \union seen \subseteq HitRows
    BY <1>6, QueryTypes DEF QueryRows
  <2> QED BY <1>2, <2>1, <2>2 DEF QueryRows
<1> HIDE DEF q
<1>8. \A h \in q.hits :
        h.doc \notin q.todo /\ upload[h.doc].pc = "done" /\ h.vector = upload[h.doc].model
  BY <1>3, <1>6, <1>7, QueryTypes DEF QuerySees
<1>9. ASSUME kb.exists, NEW u \in q.ready \ (stripped \union q.todo)
      PROVE  {h.chunk : h \in {g \in q.hits : g.doc = u}} = DOMAIN chunks[u]
  <2>1. \A h \in query.hits : h.doc \notin query.todo
    BY QueryTypes DEF QuerySees
  <2>2. CASE u = d
    <3>1. {g \in q.hits : g.doc = u} = seen
      BY <1>2, <1>6, <1>7, <2>1, <2>2
    <3> QED BY <1>6, <2>2, <3>1
  <2>3. CASE u # d
    <3>1. {g \in q.hits : g.doc = u} = {g \in query.hits : g.doc = u}
      BY <1>6, <1>7, <2>3
    <3>2. u \in query.ready \ (stripped \union query.todo)
      BY <1>7, <1>9, <2>3
    <3> QED BY <1>2, <1>9, <3>1, <3>2, QueryTypes DEF QuerySees
  <2> QED BY <2>2, <2>3
<1> QED BY <1>1, <1>2, <1>7, <1>8, <1>9, QueryTypes, QueryMoves DEF QuerySees

LEMMA IngestStep == IngestInv /\ [Knowledge!Next]_(Knowledge!vars) => IngestInv'
<1> SUFFICES ASSUME IngestInv, [Knowledge!Next]_(Knowledge!vars) PROVE IngestInv'
  OBVIOUS
<1>1. CASE UNCHANGED Knowledge!vars
  <2>1. UNCHANGED <<kb, docs, chunks, upload, deletion, query, stripped, rebound>>
    BY <1>1 DEF Knowledge!vars
  <2> QED BY <2>1, QueryTypes, QueryMoves DEF QuerySees
<1>2. ASSUME NEW u \in Uploads, NEW f \in Files, Knowledge!Begin(u, f) PROVE IngestInv'
  BY <1>2, BeginStep
<1>3. ASSUME NEW u \in Uploads,
             \/ Knowledge!Put(u) \/ Knowledge!CreateDocument(u) \/ Knowledge!Parse(u)
             \/ Knowledge!Chunk(u) \/ Knowledge!EmbedFails(u) \/ Knowledge!Stop(u)
      PROVE  IngestInv'
  BY <1>3, EarlyStep
<1>4. ASSUME NEW u \in Uploads, Knowledge!InsertChunk(u) PROVE IngestInv'
  BY <1>4, InsertStep
<1>5. ASSUME NEW u \in Uploads, Knowledge!Embed(u) \/ Knowledge!WriteVector(u) PROVE IngestInv'
  BY <1>5, VectorStep
<1>6. ASSUME NEW u \in Uploads, Knowledge!DeleteChunks(u) PROVE IngestInv'
  BY <1>6, DeletionStep
<1>7. ASSUME \/ Knowledge!DeleteRow \/ Knowledge!DeleteObject \/ Knowledge!DeleteFails
             \/ Knowledge!WipeObjects \/ Knowledge!DeleteKb
      PROVE  IngestInv'
  BY <1>7, DeletionStep
<1>8. ASSUME NEW m \in Models, Knowledge!BindModel(m) PROVE IngestInv'
  BY <1>8, BindStep
<1>9. CASE Knowledge!Ask \/ Knowledge!ListDocuments \/ Knowledge!Answer
  BY <1>9, AskStep
<1>10. ASSUME NEW u \in Uploads, Knowledge!Scan(u) PROVE IngestInv'
  BY <1>10, ScanStep
<1> QED BY <1>1, <1>2, <1>3, <1>4, <1>5, <1>6, <1>7, <1>8, <1>9, <1>10 DEF Knowledge!Next

\* Whatever uploads, deletions, wipes and bindings do while a query runs, it
\* reads every chunk of each document it may count on, none of an upload under
\* way, and compares vectors of one model.
THEOREM QueriesSeeWhatIsReady == Spec => []QueryFindsReady
<1>1. Init => IngestInv
  BY IngestStarts DEF Init
<1>2. IngestInv /\ [Next]_vars => IngestInv'
  BY IngestStep, StepsOfParts
<1>3. IngestInv => QueryFindsReady
  <2> SUFFICES ASSUME IngestInv, query.pc = "scan" PROVE Knowledge!QueryFindsReady
    BY DEF QueryFindsReady, Knowledge!QueryFindsReady
  <2>1. \A h \in query.hits :
          h.vector = query.model \/ h.doc \in rebound \/ query.model # kb.model
    <3> SUFFICES ASSUME NEW h \in query.hits, h.doc \notin rebound, query.model = kb.model
                 PROVE  h.vector = query.model
      OBVIOUS
    <3>1. h.doc \in Uploads /\ upload[h.doc].pc = "done" /\ h.vector = upload[h.doc].model
      BY QueryTypes DEF QuerySees, QueryRows, HitRows
    <3> QED BY <3>1, UploadTypes DEF UploadFits
  <2> QED BY <2>1, QueryTypes DEF QuerySees, Knowledge!QueryFindsReady
<1> QED BY <1>1, <1>2, <1>3, PTL DEF Spec

\* A document that is ready is the whole of its file, cut as the file is cut and
\* embedded by one model, for any number of uploads of any files and in whatever
\* order their writes, the deletions and the bindings come.
THEOREM ReadyMeansIndexed == Spec => []ReadyIsIndexed
<1>1. Init => IngestInv
  BY IngestStarts DEF Init
<1>2. IngestInv /\ [Next]_vars => IngestInv'
  BY IngestStep, StepsOfParts
<1>3. IngestInv => ReadyIsIndexed
  <2> SUFFICES ASSUME IngestInv, NEW u \in Knowledge!Ready \ stripped
               PROVE  /\ Knowledge!TextOf([i \in DOMAIN chunks[u] |-> chunks[u][i].of])
                           = Knowledge!FlattenSeq(upload[u].file.text)
                      /\ \A i \in DOMAIN chunks[u] :
                           /\ chunks[u][i].of.len \in 1 .. Target + 3
                           /\ chunks[u][i].vector = upload[u].model
                      /\ chunks[u] # <<>> /\ upload[u].model # Knowledge!Unbound
    BY DEF ReadyIsIndexed, Knowledge!ReadyIsIndexed
  <2>1. /\ u \in Uploads /\ docs[u].status = "ready" /\ chunks[u] \in Seq(StoredRows)
        /\ upload[u].pc = "done" /\ upload[u].file \in Files
        /\ Indexed(upload[u], chunks[u]) /\ Embedded(upload[u], chunks[u])
    BY UploadTypes DEF UploadFits, Knowledge!Ready
  <2> DEFINE rows == Knowledge!ChunkText(upload[u].file.text)
  <2>2. /\ rows \in Seq(Knowledge!ChunkRows)
        /\ Knowledge!TextOf(rows) = Knowledge!FlattenSeq(upload[u].file.text)
    BY <2>1, FilesAreChunked
  <2>3. /\ rows # <<>> /\ Len(chunks[u]) = Len(rows)
        /\ \A i \in 1 .. Len(chunks[u]) : chunks[u][i].of = rows[i]
    BY <2>1 DEF Indexed
  <2> HIDE DEF rows
  <2>4. DOMAIN chunks[u] = DOMAIN rows /\ DOMAIN rows = 1 .. Len(rows) /\ chunks[u] # <<>>
    BY <2>1, <2>2, <2>3
  <2>5. [i \in DOMAIN chunks[u] |-> chunks[u][i].of] = rows
    BY <2>2, <2>3, <2>4
  <2>6. \A i \in DOMAIN chunks[u] :
          chunks[u][i].of.len \in 1 .. Target + 3 /\ chunks[u][i].vector = upload[u].model
    <3> SUFFICES ASSUME NEW i \in DOMAIN chunks[u]
                 PROVE  /\ chunks[u][i].of.len \in 1 .. Target + 3
                        /\ chunks[u][i].vector = upload[u].model
      OBVIOUS
    <3>1. rows[i] \in Knowledge!ChunkRows /\ i \in 1 .. Len(chunks[u])
      BY <2>2, <2>3, <2>4
    <3> QED BY <2>1, <2>3, <3>1 DEF Embedded, Knowledge!ChunkRows
  <2> QED BY <2>1, <2>2, <2>4, <2>5, <2>6 DEF Embedded
<1> QED BY <1>1, <1>2, <1>3, PTL DEF Spec

\* An upload that looks for a hash, or has made a row with it, claims it: two
\* claim the same only when they looked for it at the same time.
Claims(l, doc, h) ==
  \/ l.pc \in {"put", "create"} /\ l.file.hash = h
  \/ doc.status # "none" /\ doc.hash = h

OneClaim ==
  \A u, v \in Uploads : \A h :
    u # v /\ Claims(upload[u], docs[u], h) /\ Claims(upload[v], docs[v], h) => h \in raced

OwnersInv == IngestInv /\ OneClaim

\* Only the first step of an upload makes a claim.
LEMMA ClaimsKept ==
  ASSUME IngestInv, IngestInv', [Knowledge!Next]_(Knowledge!vars),
         \A u \in Uploads : \A f \in Files : ~Knowledge!Begin(u, f),
         NEW v \in Uploads, NEW h, Claims(upload'[v], docs'[v], h)
  PROVE  Claims(upload[v], docs[v], h) /\ UNCHANGED raced
<1>1. upload \in [Uploads -> UploadRows] /\ docs \in [Uploads -> DocRows]
  BY DEF IngestInv, KnowledgeTypes
<1>2. Knowledge!NoUpload.pc = "idle" /\ Knowledge!NoDoc.status = "none"
  BY DEF Knowledge!NoUpload, Knowledge!NoDoc
<1>3. ASSUME NEW u \in Uploads, NEW doc \in DocRows, docs' = [docs EXCEPT ![u] = doc],
             doc.status # "none" => docs[u].status # "none" /\ doc.hash = docs[u].hash,
             NEW l \in UploadRows, upload' = [upload EXCEPT ![u] = l],
             l.pc = "put" => FALSE,
             l.pc = "create" => upload[u].pc = "put" /\ l.file = upload[u].file
      PROVE  Claims(upload[v], docs[v], h)
  BY <1>1, <1>3 DEF Claims
<1>4. ASSUME UNCHANGED upload,
             docs' = docs \/ \E u : docs' = [docs EXCEPT ![u] = Knowledge!NoDoc]
             \/ docs' = [w \in Uploads |-> Knowledge!NoDoc]
      PROVE  Claims(upload[v], docs[v], h)
  BY <1>1, <1>2, <1>4 DEF Claims
<1>5. ASSUME NEW u \in Uploads, Knowledge!CreateDocument(u)
      PROVE  Claims(upload[v], docs[v], h) /\ UNCHANGED raced
  <2>1. upload[u].pc = "create" /\ UNCHANGED raced
    BY <1>5 DEF Knowledge!CreateDocument
  <2>2. CASE Knowledge!End(u) /\ UNCHANGED docs
    <3>1. PICK l \in UploadRows : upload' = [upload EXCEPT ![u] = l] /\ l.pc = "failed"
      BY <2>2, EndWritten
    <3> QED BY <2>1, <2>2, <3>1, <1>3, UploadTypes
  <2>3. CASE /\ docs' = [docs EXCEPT ![u] = [status |-> "parsing", hash |-> upload[u].file.hash]]
             /\ Knowledge!Step(u, "parse")
    <3>1. PICK l \in UploadRows : upload' = [upload EXCEPT ![u] = l] /\ l.pc = "parse"
      BY <2>3, PlaceWritten
    <3> QED BY <1>1, <2>1, <2>3, <3>1 DEF Claims
  <2> QED BY <1>5, <2>1, <2>2, <2>3 DEF Knowledge!CreateDocument
<1>6. ASSUME NEW u \in Uploads,
             \/ Knowledge!Parse(u) \/ Knowledge!Chunk(u) \/ Knowledge!EmbedFails(u)
             \/ Knowledge!Stop(u) \/ Knowledge!Put(u) \/ Knowledge!InsertChunk(u)
             \/ Knowledge!Embed(u) \/ Knowledge!WriteVector(u)
      PROVE  Claims(upload[v], docs[v], h) /\ UNCHANGED raced
  <2>1. UNCHANGED raced
    BY <1>6 DEF Knowledge!Parse, Knowledge!Chunk, Knowledge!EmbedFails, Knowledge!Stop,
       Knowledge!Put, Knowledge!InsertChunk, Knowledge!Embed, Knowledge!WriteVector
  <2>2. PICK doc \in DocRows :
          /\ docs' = [docs EXCEPT ![u] = doc]
          /\ doc.status # "none" => docs[u].status # "none" /\ doc.hash = docs[u].hash
    <3>1. \/ UNCHANGED docs
          \/ \E status \in {"chunking", "embedding", "ready", "parse_failed", "index_failed"} :
               Knowledge!SetStatus(u, status)
      BY <1>6 DEF Knowledge!Parse, Knowledge!Chunk, Knowledge!EmbedFails, Knowledge!Stop,
         Knowledge!Put, Knowledge!InsertChunk, Knowledge!Embed, Knowledge!WriteVector
    <3> QED BY <3>1, UploadTypes, StatusWritten
  <2>3. \/ Knowledge!End(u)
        \/ \E pc \in {"chunk", "insert", "embed", "done"} : Knowledge!Step(u, pc)
        \/ Knowledge!Put(u)
        \/ /\ upload[u].pc \in {"insert", "vector"}
           /\ \E pos \in Int : upload' = [upload EXCEPT ![u].at = pos]
        \/ \E pos \in Int : upload' = [upload EXCEPT ![u].pc = "vector", ![u].at = pos]
    <3> PICK n : n = upload[u].at
      OBVIOUS
    <3>1. n \in Nat /\ n + 1 \in Int /\ n - 1 \in Int
      BY UploadTypes DEF UploadRows
    <3>2. CASE Knowledge!InsertChunk(u)
      BY <3>1, <3>2 DEF Knowledge!InsertChunk
    <3>3. CASE Knowledge!WriteVector(u)
      BY <3>1, <3>3 DEF Knowledge!WriteVector
    <3>4. CASE Knowledge!InsertChunk(u) \/ Knowledge!WriteVector(u)
      BY <3>4, <3>2, <3>3
    <3>5. CASE Knowledge!Embed(u)
      <4>1. Len(chunks[u]) \in Int
        BY UploadTypes
      <4> QED BY <3>5, <4>1 DEF Knowledge!Embed
    <3>6. CASE \/ Knowledge!Parse(u) \/ Knowledge!Chunk(u) \/ Knowledge!EmbedFails(u)
               \/ Knowledge!Stop(u)
      BY <3>6 DEF Knowledge!Parse, Knowledge!Chunk, Knowledge!EmbedFails, Knowledge!Stop
    <3> QED BY <1>6, <3>4, <3>5, <3>6
  <2>4. PICK l \in UploadRows :
          /\ upload' = [upload EXCEPT ![u] = l] /\ l.pc # "put"
          /\ l.pc = "create" => upload[u].pc = "put" /\ l.file = upload[u].file
    <3>1. ASSUME NEW l, upload' = [upload EXCEPT ![u] = l]
          PROVE  l \in UploadRows
      <4>1. upload'[u] = l /\ upload' \in [Uploads -> UploadRows]
        BY <1>1, <3>1 DEF IngestInv, KnowledgeTypes
      <4> QED BY <4>1
    <3>2. CASE Knowledge!End(u)
      BY <3>2, EndWritten
    <3>3. CASE \E pc \in {"chunk", "insert", "embed", "done"} : Knowledge!Step(u, pc)
      BY <3>3, PlaceWritten
    <3>4. CASE Knowledge!Put(u)
      <4>1. Knowledge!Step(u, "create") /\ upload[u].pc = "put"
        BY <3>4 DEF Knowledge!Put
      <4> QED BY <4>1, PlaceWritten
    <3>5. CASE /\ upload[u].pc \in {"insert", "vector"}
               /\ \E pos \in Int : upload' = [upload EXCEPT ![u].at = pos]
      <4>1. PICK pos \in Int : upload' = [upload EXCEPT ![u].at = pos]
        BY <3>5
      <4> DEFINE l == [upload[u] EXCEPT !.at = pos]
      <4>2. upload' = [upload EXCEPT ![u] = l]
        BY <4>1
      <4>3. l.pc = upload[u].pc
        BY UploadTypes DEF UploadRows
      <4> HIDE DEF l
      <4> QED BY <3>1, <3>5, <4>2, <4>3
    <3>6. CASE \E pos \in Int : upload' = [upload EXCEPT ![u].pc = "vector", ![u].at = pos]
      <4>1. PICK pos \in Int : upload' = [upload EXCEPT ![u].pc = "vector", ![u].at = pos]
        BY <3>6
      <4> DEFINE l == [upload[u] EXCEPT !.pc = "vector", !.at = pos]
      <4>2. upload' = [upload EXCEPT ![u] = l]
        BY <4>1, UploadTypes DEF UploadRows
      <4>3. l.pc = "vector"
        BY UploadTypes DEF UploadRows
      <4> HIDE DEF l
      <4> QED BY <3>1, <4>2, <4>3
    <3> QED BY <2>3, <3>2, <3>3, <3>4, <3>5, <3>6
  <2> QED BY <1>3, <2>1, <2>2, <2>4
<1>7. ASSUME NEW u \in Uploads, Knowledge!DeleteChunks(u) \/ Knowledge!Scan(u)
      PROVE  Claims(upload[v], docs[v], h) /\ UNCHANGED raced
  BY <1>4, <1>7 DEF Knowledge!DeleteChunks, Knowledge!Scan
<1>8. CASE \/ Knowledge!DeleteRow \/ Knowledge!DeleteObject \/ Knowledge!DeleteFails
           \/ Knowledge!WipeObjects
  BY <1>4, <1>8 DEF Knowledge!DeleteRow, Knowledge!DeleteObject, Knowledge!DeleteFails,
     Knowledge!WipeObjects
<1>9. CASE Knowledge!DeleteKb
  BY <1>4, <1>9 DEF Knowledge!DeleteKb
<1>10. CASE \/ \E m \in Models : Knowledge!BindModel(m)
            \/ Knowledge!Ask \/ Knowledge!ListDocuments \/ Knowledge!Answer
            \/ UNCHANGED Knowledge!vars
  BY <1>4, <1>10 DEF Knowledge!BindModel, Knowledge!Ask, Knowledge!ListDocuments,
     Knowledge!Answer, Knowledge!vars
<1> QED BY <1>5, <1>6, <1>7, <1>8, <1>9, <1>10 DEF Knowledge!Next

LEMMA OwnersStep == OwnersInv /\ [Knowledge!Next]_(Knowledge!vars) => OwnersInv'
<1> SUFFICES ASSUME OwnersInv, [Knowledge!Next]_(Knowledge!vars) PROVE OwnersInv'
  OBVIOUS
<1>1. IngestInv /\ IngestInv'
  BY IngestStep DEF OwnersInv
<1>2. CASE \A u \in Uploads : \A f \in Files : ~Knowledge!Begin(u, f)
  <2> SUFFICES ASSUME NEW u \in Uploads, NEW v \in Uploads, NEW h, u # v,
                      Claims(upload'[u], docs'[u], h), Claims(upload'[v], docs'[v], h)
               PROVE  h \in raced'
    BY <1>1 DEF OwnersInv, OneClaim
  <2> QED BY <1>1, <1>2, ClaimsKept DEF OwnersInv, OneClaim
<1>3. ASSUME NEW u \in Uploads, NEW f \in Files, Knowledge!Begin(u, f)
      PROVE  OwnersInv'
  <2>1. /\ upload[u].pc = "idle" /\ UNCHANGED docs
        /\ raced' = IF Knowledge!Looking(f.hash) # {} THEN raced \union {f.hash} ELSE raced
    BY <1>3 DEF Knowledge!Begin
  <2>2. PICK l \in UploadRows :
          /\ upload' = [upload EXCEPT ![u] = l]
          /\ l.pc = "put" =>
               l.file = f /\ \A d \in Uploads : docs[d].hash # f.hash
          /\ l.pc \in {"put", "failed"}
    <3>1. CASE Knowledge!End(u)
      BY <1>1, <3>1, EndWritten
    <3>2. CASE ~Knowledge!End(u)
      <4> DEFINE l == [pc |-> "put", file |-> f, model |-> kb.model, at |-> 0]
      <4>1. l \in UploadRows
        BY <1>1 DEF IngestInv, KnowledgeTypes, UploadRows
      <4> QED BY <1>3, <3>2, <4>1 DEF Knowledge!Begin
    <3> QED BY <3>1, <3>2
  <2>3. ASSUME NEW v \in Uploads, v # u, NEW h, Claims(upload'[v], docs'[v], h)
        PROVE  Claims(upload[v], docs[v], h)
    BY <2>1, <2>2, <2>3 DEF Claims
  <2>4. ASSUME NEW v \in Uploads, v # u, NEW h, Claims(upload'[u], docs'[u], h),
               Claims(upload[v], docs[v], h)
        PROVE  h \in raced'
    <3>1. upload'[u] = l /\ docs'[u] = docs[u]
      BY <1>1, <2>1, <2>2 DEF IngestInv, KnowledgeTypes
    <3>2. CASE docs[u].status # "none" /\ docs[u].hash = h
      BY <2>1, <2>4, <3>2 DEF OwnersInv, OneClaim, Claims
    <3>3. CASE l.pc = "put" /\ f.hash = h
      <4>1. v \in Knowledge!Looking(h)
        BY <2>2, <2>4, <3>3 DEF Claims, Knowledge!Looking
      <4> QED BY <2>1, <3>3, <4>1
    <3> QED BY <2>2, <2>4, <3>1, <3>2, <3>3 DEF Claims
  <2>5. OneClaim'
    <3> SUFFICES ASSUME NEW v \in Uploads, NEW w \in Uploads, NEW h, v # w,
                        Claims(upload'[v], docs'[v], h), Claims(upload'[w], docs'[w], h)
                 PROVE  h \in raced'
      BY DEF OneClaim
    <3>1. CASE v # u /\ w # u
      BY <2>1, <2>3, <3>1 DEF OwnersInv, OneClaim
    <3>2. CASE v = u
      BY <2>3, <2>4, <3>2
    <3>3. CASE w = u
      BY <2>3, <2>4, <3>3
    <3> QED BY <3>1, <3>2, <3>3
  <2> QED BY <1>1, <2>5 DEF OwnersInv
<1> QED BY <1>2, <1>3

\* Two documents with one hash come of two uploads that looked for it at once,
\* for any number of uploads and files and whatever ends or is deleted meanwhile.
THEOREM FilesAreHeldOnce == Spec => []OneDocumentPerFile
<1>1. Init => OwnersInv
  <2> SUFFICES ASSUME Knowledge!Init PROVE OwnersInv
    BY DEF Init
  <2>1. \A u \in Uploads : upload[u].pc = "idle" /\ docs[u].status = "none"
    BY DEF Knowledge!Init, Knowledge!NoUpload, Knowledge!NoDoc
  <2> QED BY <2>1, IngestStarts DEF OwnersInv, OneClaim, Claims
<1>2. OwnersInv /\ [Next]_vars => OwnersInv'
  BY OwnersStep, StepsOfParts
<1>3. OwnersInv => OneDocumentPerFile
  BY DEF OwnersInv, OneClaim, Claims, OneDocumentPerFile, Knowledge!OneDocumentPerFile,
     Knowledge!Exists
<1> QED BY <1>1, <1>2, <1>3, PTL DEF Spec
=============================================================================
