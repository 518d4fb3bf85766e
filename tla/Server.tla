------------------------------- MODULE Server -------------------------------
(***************************************************************************)
(* The parts of the server beside the request path, running at once: the   *)
(* admin API and the gateway's keys, the queue of runtime jobs, the        *)
(* supervisor of the runtime, backups and restores, embeddings, and a      *)
(* knowledge base.  They are tasks of one process and of its commands      *)
(* (apps/server/src) and share no state with each other, so that a step of *)
(* the server is a step of one of them.                                    *)
(***************************************************************************)
EXTENDS Integers, Sequences, FiniteSets

CONSTANTS
  Names, Calls, TrustsHeader, MaxTokens, MaxKeys, SessionTtl, MaxTime,  \* AdminAccess
  Workers, MaxAttempts, RetryDelay, MaxJobs, MaxRequeues, MaxJobTime,   \* RuntimeJobs
  MAX_RESTARTS, HealthChecks, PipeSize,                                 \* RuntimeSupervisor
  Restores, MaxVersion,                                                 \* BackupRestore
  Request,                                                              \* EmbeddingsCall
  Uploads, Files, Target, Models, Runtime, MaxBusy                      \* KnowledgeIngest

\* enqueue() gives a row three attempts and MAX_RESTARTS is five: of the one, at
\* least one is needed, of the other any number will do.
ASSUME WorkersAssumption == IsFiniteSet(Workers)
ASSUME AttemptsAssumption == MaxAttempts \in Nat \ {0}
ASSUME DelayAssumption == RetryDelay \in Nat
ASSUME TtlAssumption == SessionTtl \in Nat
ASSUME RestartsAssumption == MAX_RESTARTS \in Nat

VARIABLES
  accounts, sessions, app, keys, now, call, last,
  jobs, work, jobTime, requeues, overlapped,
  state, loop, attempt, checks, process, logged, failures,
  version, archive, snapshot, backup, target, restore, crossed,
  at, row, usage, cost,
  kb, docs, chunks, objects, upload, deletion, wipe, query, raced, stripped, rebound

access == <<accounts, sessions, app, keys, now, call, last>>
queue == <<jobs, work, jobTime, requeues, overlapped>>
supervision == <<state, loop, attempt, checks, process, logged, failures>>
files == <<version, archive, snapshot, backup, target, restore, crossed>>
ledger == <<at, row, usage, cost>>
base == <<kb, docs, chunks, objects, upload, deletion, wipe, query, raced, stripped, rebound>>
vars == <<access, queue, supervision, files, ledger, base>>

Access == INSTANCE AdminAccess
Jobs == INSTANCE RuntimeJobs WITH now <- jobTime, crossed <- overlapped, MaxTime <- MaxJobTime
Supervisor == INSTANCE RuntimeSupervisor WITH at <- loop
Backups == INSTANCE BackupRestore
Embeddings == INSTANCE EmbeddingsCall
Knowledge == INSTANCE KnowledgeIngest

\* A file's text is characters of one to four bytes; a chunk has 700 tokens of
\* four bytes, and any number but none will do.
ASSUME TextsAssumption == \A f \in Files : f.text \in Seq(Seq(Knowledge!Width))
ASSUME TargetAssumption == Target \in Nat \ {0}

Init ==
  /\ Access!Init /\ Jobs!Init /\ Supervisor!Init
  /\ Backups!Init /\ Embeddings!Init /\ Knowledge!Init

Next ==
  \/ Access!Next /\ UNCHANGED <<queue, supervision, files, ledger, base>>
  \/ Jobs!Next /\ UNCHANGED <<access, supervision, files, ledger, base>>
  \/ Supervisor!Next /\ UNCHANGED <<access, queue, files, ledger, base>>
  \/ Backups!Next /\ UNCHANGED <<access, queue, supervision, ledger, base>>
  \/ Embeddings!Next /\ UNCHANGED <<access, queue, supervision, files, base>>
  \/ Knowledge!Next /\ UNCHANGED <<access, queue, supervision, files, ledger>>

Spec == Init /\ [][Next]_vars

-----------------------------------------------------------------------------

\* The properties of the parts, which say what they state, of the server.
RolesGovernChanges == Access!RolesGovernChanges
CredentialsEnd == Access!CredentialsEnd
RunsAreBounded == Jobs!RunsAreBounded
RestartsAreBounded == Supervisor!RestartsAreBounded
RestoreIsWhole == Backups!RestoreIsWhole
EmbeddingsLedger == Embeddings!EmbeddingsLedger
ReadyIsIndexed == Knowledge!ReadyIsIndexed
QueryFindsReady == Knowledge!QueryFindsReady
OneDocumentPerFile == Knowledge!OneDocumentPerFile
=============================================================================
