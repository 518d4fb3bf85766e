------------------------------ MODULE MCServer ------------------------------
(* The parts of the server share no state: "focus" says which of them a
   behaviour is about, so that the run explores their sum and not their
   product.  Access to the admin API is explored with one account and no key,
   access to the gateway with two keys and no account (the admin token changes
   them).  A knowledge base gets two uploads of three files: two with one hash,
   a text that is one chunk and a binary that is two, and an empty one; the
   target is four bytes, so that two paragraphs of one are gathered, and one of
   eight is cut after seven: its fourth character begins before the target and
   ends three bytes after it.  Calls are interchangeable, and so are uploads. *)
EXTENDS Server, TLC

VARIABLE focus

MCFiles ==
  {[hash |-> "h", binary |-> FALSE, text |-> <<<<1>>, <<1>>>>],
   [hash |-> "h", binary |-> TRUE, text |-> <<<<1, 1, 1, 4, 1>>>>],
   [hash |-> "e", binary |-> FALSE, text |-> <<<<>>>>]}

People == INSTANCE AdminAccess WITH MaxKeys <- 0
Gateway == INSTANCE AdminAccess WITH Names <- {}, MaxTokens <- 0

MCInit ==
  /\ focus \in {"people", "gateway", "jobs", "supervisor", "backup", "embeddings", "knowledge"}
  /\ IF focus = "people" THEN People!Init ELSE Gateway!Init
  /\ Jobs!Init /\ Supervisor!Init /\ Backups!Init /\ Embeddings!Init /\ Knowledge!Init

MCNext ==
  /\ UNCHANGED focus
  /\ \/ focus = "people" /\ People!Next
        /\ UNCHANGED <<queue, supervision, files, ledger, base>>
     \/ focus = "gateway" /\ Gateway!Next
        /\ UNCHANGED <<queue, supervision, files, ledger, base>>
     \/ focus = "jobs" /\ Jobs!Next
        /\ UNCHANGED <<access, supervision, files, ledger, base>>
     \/ focus = "supervisor" /\ Supervisor!Next
        /\ UNCHANGED <<access, queue, files, ledger, base>>
     \/ focus = "backup" /\ Backups!Next
        /\ UNCHANGED <<access, queue, supervision, ledger, base>>
     \/ focus = "embeddings" /\ Embeddings!Next
        /\ UNCHANGED <<access, queue, supervision, files, base>>
     \/ focus = "knowledge" /\ Knowledge!Next
        /\ UNCHANGED <<access, queue, supervision, files, ledger>>

MCSpec == MCInit /\ [][MCNext]_<<focus, vars>>

Symmetry == Permutations(Calls) \union Permutations(Uploads)
=============================================================================
