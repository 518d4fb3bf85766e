--------------------------- MODULE KnowledgeIngest --------------------------
(***************************************************************************)
(* One knowledge base: documents are uploaded, cut into chunks, embedded   *)
(* and marked ready; they are deleted, the base is bound to another        *)
(* embedding model or deleted, and it is queried, all at once              *)
(* (crates/application/src/knowledge_service.rs).  An upload is one long   *)
(* handler without a transaction: it can stop after each of its steps.     *)
(***************************************************************************)
EXTENDS Integers, Sequences, FiniteSets, SequencesExt

CONSTANTS
  Uploads,   \* calls of upload_document(); each makes one document at most
  Files,     \* what is uploaded: [hash, binary, text], a text being the
             \* sequence of its paragraphs, without the space around them
  Target,    \* bytes a chunk has before it is cut, four for each token
  Models,    \* embedding models
  Runtime,   \* whether the Python runtime is there to parse binary files
  MaxBusy    \* bound of the model: handlers at work at once

Unbound == "unbound"

VARIABLES
  kb,        \* the base: its row exists, and the model it is bound to
  docs,      \* the rows of documents, by the upload that made them
  chunks,    \* the rows of their chunks, in order
  objects,   \* the documents whose file is in the object storage
  upload,    \* what each upload is doing, with its locals
  deletion,  \* delete_document() under way, and of which document
  wipe,      \* delete_kb() under way
  query,     \* a query under way, with its locals
  raced,     \* history: hashes two uploads looked for at the same time
  stripped,  \* history: documents whose chunks a deletion has removed
  rebound    \* history: uploads begun before the base was last bound

vars == <<kb, docs, chunks, objects, upload, deletion, wipe, query, raced, stripped, rebound>>

NoDoc == [status |-> "none", hash |-> "none"]
NoUpload == [pc |-> "idle", file |-> [hash |-> "none", binary |-> FALSE, text |-> <<>>],
             model |-> Unbound, at |-> 0]
NoQuery == [pc |-> "idle", model |-> Unbound, ready |-> {}, todo |-> {}, hits |-> {}]

Init ==
  /\ kb = [exists |-> TRUE, model |-> Unbound]
  /\ docs = [u \in Uploads |-> NoDoc] /\ chunks = [u \in Uploads |-> <<>>]
  /\ objects = {}
  /\ upload = [u \in Uploads |-> NoUpload]
  /\ deletion = [pc |-> "idle", doc |-> "none"] /\ wipe = "idle"
  /\ query = NoQuery
  /\ raced = {} /\ stripped = {} /\ rebound = {}

Exists(u) == docs[u].status # "none"
Ready == {u \in Uploads : docs[u].status = "ready"}

\* The handlers at work; a new one begins while there are fewer than the bound.
AtWork ==
  {u \in Uploads : upload[u].pc \notin {"idle", "done", "failed"}}
    \cup (IF query.pc # "idle" THEN {"query"} ELSE {})
    \cup (IF deletion.pc # "idle" THEN {"deletion"} ELSE {})
    \cup (IF wipe = "rows" THEN {"wipe"} ELSE {})
Free == Cardinality(AtWork) < MaxBusy

-----------------------------------------------------------------------------
(* chunk_text(): paragraphs are gathered up to the target; one that is     *)
(* longer than the target is cut, and gathers nothing.  What it measures   *)
(* is bytes, and a character has up to four: a paragraph is the sequence   *)
(* of its characters, each one its width, and a chunk its length with the  *)
(* two bytes between paragraphs, and its characters without.               *)

Width == 1 .. 4
ChunkRows == [len : 1 .. Target + 3, chars : Seq(Width)]
Empty == [len |-> 0, chars |-> <<>>]
TextOf(rows) == FlattenSeq([i \in DOMAIN rows |-> rows[i].chars])

Size(paragraph) ==
  LET upTo[i \in 0 .. Len(paragraph)] == IF i = 0 THEN 0 ELSE upTo[i - 1] + paragraph[i] IN
  upTo[Len(paragraph)]

Closed(done) == IF done.open.len = 0 THEN done.rows ELSE Append(done.rows, done.open)

\* A piece ends at the first boundary of characters at or after the target, so
\* that its last character may reach over the target by three bytes.
Place(done, width) ==
  IF done.open.len >= Target
    THEN [rows |-> Closed(done), open |-> [len |-> width, chars |-> <<width>>]]
    ELSE [done EXCEPT !.open = [len |-> done.open.len + width, chars |-> Append(done.open.chars, width)]]

CutUp(rows, paragraph) ==
  LET done[i \in 0 .. Len(paragraph)] ==
        IF i = 0 THEN [rows |-> rows, open |-> Empty] ELSE Place(done[i - 1], paragraph[i]) IN
  Closed(done[Len(paragraph)])

Gather(done, paragraph) ==
  LET size == Size(paragraph) IN
  IF size = 0 THEN done
  ELSE IF size > Target THEN [rows |-> CutUp(Closed(done), paragraph), open |-> Empty]
  ELSE IF done.open.len = 0 \/ done.open.len + size + 2 > Target
    THEN [rows |-> Closed(done), open |-> [len |-> size, chars |-> paragraph]]
  ELSE [done EXCEPT !.open = [len |-> done.open.len + 2 + size,
                              chars |-> done.open.chars \o paragraph]]

ChunkText(text) ==
  LET done[i \in 0 .. Len(text)] ==
        IF i = 0 THEN [rows |-> <<>>, open |-> Empty] ELSE Gather(done[i - 1], text[i]) IN
  Closed(done[Len(text)])

-----------------------------------------------------------------------------
(* upload_document().                                                      *)

Step(u, pc) == upload' = [upload EXCEPT ![u].pc = pc]
End(u) == upload' = [upload EXCEPT ![u] = [NoUpload EXCEPT !.pc = "failed"]]
SetStatus(u, status) == docs' = IF Exists(u) THEN [docs EXCEPT ![u].status = status] ELSE docs
Looking(h) == {v \in Uploads : upload[v].pc \in {"put", "create"} /\ upload[v].file.hash = h}

\* Mutant: only a document that is ready counts as the same file.
BeginUnlessReady(u, f) ==
  /\ upload[u].pc = "idle" /\ kb.exists /\ Free
  /\ LET refused == (\E d \in Ready : docs[d].hash = f.hash) \/ (f.binary /\ ~Runtime) IN
     IF refused THEN End(u)
     ELSE upload' = [upload EXCEPT ![u] = [pc |-> "put", file |-> f, model |-> kb.model, at |-> 0]]
  /\ raced' = IF Looking(f.hash) # {} THEN raced \cup {f.hash} ELSE raced
  /\ UNCHANGED <<kb, docs, chunks, objects, deletion, wipe, query, stripped, rebound>>

\* A file whose hash is known is refused, whatever became of the document;
\* so is a binary file when no runtime can parse it.
Begin(u, f) ==
  /\ upload[u].pc = "idle" /\ kb.exists /\ Free
  /\ LET refused == (\E d \in Uploads : docs[d].hash = f.hash) \/ (f.binary /\ ~Runtime) IN
     IF refused THEN End(u)
     ELSE upload' = [upload EXCEPT ![u] = [pc |-> "put", file |-> f, model |-> kb.model, at |-> 0]]
  /\ raced' = IF Looking(f.hash) # {} THEN raced \cup {f.hash} ELSE raced
  /\ UNCHANGED <<kb, docs, chunks, objects, deletion, wipe, query, stripped, rebound>>

Put(u) ==
  /\ upload[u].pc = "put"
  /\ objects' = objects \cup {u} /\ Step(u, "create")
  /\ UNCHANGED <<kb, docs, chunks, deletion, wipe, query, raced, stripped, rebound>>

\* The row is inserted as uploaded and marked parsing by the next statement.
CreateDocument(u) ==
  /\ upload[u].pc = "create"
  /\ IF kb.exists
     THEN /\ docs' = [docs EXCEPT ![u] = [status |-> "parsing", hash |-> upload[u].file.hash]]
          /\ Step(u, "parse")
     ELSE End(u) /\ UNCHANGED docs
  /\ UNCHANGED <<kb, chunks, objects, deletion, wipe, query, raced, stripped, rebound>>

\* The file is read back and parsed.  Text always parses; its object may be
\* gone, and the runtime may refuse a binary file.
Parse(u) ==
  /\ upload[u].pc = "parse"
  /\ \/ u \in objects /\ SetStatus(u, "chunking") /\ Step(u, "chunk")
     \/ (u \notin objects \/ upload[u].file.binary) /\ SetStatus(u, "parse_failed")
        /\ End(u)
  /\ UNCHANGED <<kb, chunks, objects, deletion, wipe, query, raced, stripped, rebound>>

\* replace_chunks() deletes in a transaction of its own.
Chunk(u) ==
  /\ upload[u].pc = "chunk"
  /\ IF ChunkText(upload[u].file.text) = <<>>
     THEN SetStatus(u, "parse_failed") /\ End(u) /\ UNCHANGED chunks
     ELSE /\ chunks' = [chunks EXCEPT ![u] = <<>>]
          /\ Step(u, "insert") /\ UNCHANGED docs
  /\ UNCHANGED <<kb, objects, deletion, wipe, query, raced, stripped, rebound>>

\* ...and inserts row by row outside it; a row of a deleted document is refused.
InsertChunk(u) ==
  /\ upload[u].pc = "insert"
  /\ LET rows == ChunkText(upload[u].file.text)
         at == upload[u].at IN
     IF ~Exists(u) THEN End(u) /\ UNCHANGED <<docs, chunks>>
     ELSE IF at < Len(rows)
     THEN /\ chunks' = [chunks EXCEPT ![u] = Append(@, [of |-> rows[at + 1], vector |-> Unbound])]
          /\ upload' = [upload EXCEPT ![u].at = at + 1] /\ UNCHANGED docs
     ELSE SetStatus(u, "embedding") /\ Step(u, "embed") /\ UNCHANGED chunks
  /\ UNCHANGED <<kb, objects, deletion, wipe, query, raced, stripped, rebound>>

\* embed_chunks(): one call for all of the texts, with the model read when the
\* upload began; the provider fails, or answers another number of vectors, or a
\* vector cannot be written.  (parse_status stays embedding then, beside an
\* index_status of index_failed.)
EmbedFails(u) ==
  /\ upload[u].pc \in {"embed", "vector"}
  /\ SetStatus(u, "index_failed") /\ End(u)
  /\ UNCHANGED <<kb, chunks, objects, deletion, wipe, query, raced, stripped, rebound>>

\* Mutant: the number of vectors is not compared.
EmbedShort(u) ==
  /\ upload[u].pc = "embed" /\ upload[u].model # Unbound
  /\ \E n \in 0 .. Len(chunks[u]) :
       upload' = [upload EXCEPT ![u].pc = "vector", ![u].at = n]
  /\ UNCHANGED <<kb, docs, chunks, objects, deletion, wipe, query, raced, stripped, rebound>>

Embed(u) ==
  /\ upload[u].pc = "embed" /\ upload[u].model # Unbound
  /\ upload' = [upload EXCEPT ![u].pc = "vector", ![u].at = Len(chunks[u])]
  /\ UNCHANGED <<kb, docs, chunks, objects, deletion, wipe, query, raced, stripped, rebound>>

\* The vectors are written one by one, into rows that may be gone.
WriteVector(u) ==
  /\ upload[u].pc = "vector"
  /\ LET at == upload[u].at IN
     IF at > 0
     THEN /\ chunks' = IF at \in DOMAIN chunks[u]
                       THEN [chunks EXCEPT ![u][at].vector = upload[u].model] ELSE chunks
          /\ upload' = [upload EXCEPT ![u].at = at - 1] /\ UNCHANGED docs
     ELSE SetStatus(u, "ready") /\ Step(u, "done") /\ UNCHANGED chunks
  /\ UNCHANGED <<kb, objects, deletion, wipe, query, raced, stripped, rebound>>

\* A write fails, the client leaves or the process dies: nothing is undone.
Stop(u) ==
  /\ upload[u].pc \notin {"idle", "done", "failed"}
  /\ End(u)
  /\ UNCHANGED <<kb, docs, chunks, objects, deletion, wipe, query, raced, stripped, rebound>>

-----------------------------------------------------------------------------
(* Deletions and the binding.                                              *)

DeleteChunks(d) ==
  /\ deletion.pc = "idle" /\ Exists(d) /\ Free
  /\ chunks' = [chunks EXCEPT ![d] = <<>>] /\ stripped' = stripped \cup {d}
  /\ deletion' = [pc |-> "row", doc |-> d]
  /\ UNCHANGED <<kb, docs, objects, upload, wipe, query, raced, rebound>>

\* The foreign key takes chunks inserted since with the row.
DeleteRow ==
  /\ deletion.pc = "row"
  /\ docs' = [docs EXCEPT ![deletion.doc] = NoDoc]
  /\ chunks' = [chunks EXCEPT ![deletion.doc] = <<>>]
  /\ deletion' = [deletion EXCEPT !.pc = "object"]
  /\ UNCHANGED <<kb, objects, upload, wipe, query, raced, stripped, rebound>>

\* The object's deletion may fail in silence.
DeleteObject ==
  /\ deletion.pc = "object"
  /\ objects' \in {objects, objects \ {deletion.doc}}
  /\ deletion' = [pc |-> "idle", doc |-> "none"]
  /\ UNCHANGED <<kb, docs, chunks, upload, wipe, query, raced, stripped, rebound>>

DeleteFails ==
  /\ deletion.pc = "row"
  /\ deletion' = [pc |-> "idle", doc |-> "none"]
  /\ UNCHANGED <<kb, docs, chunks, objects, upload, wipe, query, raced, stripped, rebound>>

WipeObjects ==
  /\ wipe = "idle" /\ kb.exists /\ Free
  /\ objects' = {u \in objects : ~Exists(u)}
  /\ wipe' = "rows"
  /\ UNCHANGED <<kb, docs, chunks, upload, deletion, query, raced, stripped, rebound>>

DeleteKb ==
  /\ wipe = "rows" /\ wipe' = "done"
  /\ \/ /\ kb' = [kb EXCEPT !.exists = FALSE]
        /\ docs' = [u \in Uploads |-> NoDoc] /\ chunks' = [u \in Uploads |-> <<>>]
     \/ UNCHANGED <<kb, docs, chunks>>
  /\ UNCHANGED <<objects, upload, deletion, query, raced, stripped, rebound>>

\* Nothing is embedded again.
BindModel(m) ==
  /\ kb.exists /\ kb.model # m
  /\ kb' = [kb EXCEPT !.model = m]
  /\ rebound' = {u \in Uploads : upload[u].pc # "idle"}
  /\ UNCHANGED <<docs, chunks, objects, upload, deletion, wipe, query, raced, stripped>>

-----------------------------------------------------------------------------
(* query(): the base is read, the question embedded, the documents listed, *)
(* and the chunks of each ready one read.                                  *)

Ask ==
  /\ query.pc = "idle" /\ Free /\ kb.exists /\ kb.model # Unbound
  /\ query' = [NoQuery EXCEPT !.pc = "embed", !.model = kb.model, !.ready = Ready]
  /\ UNCHANGED <<kb, docs, chunks, objects, upload, deletion, wipe, raced, stripped, rebound>>

\* Mutant: the status of the documents is not looked at.
ListAnyDocuments ==
  /\ query.pc = "embed"
  /\ query' = [query EXCEPT !.pc = "scan", !.todo = {u \in Uploads : Exists(u)}]
  /\ UNCHANGED <<kb, docs, chunks, objects, upload, deletion, wipe, raced, stripped, rebound>>

ListDocuments ==
  /\ query.pc = "embed"
  /\ query' = [query EXCEPT !.pc = "scan", !.todo = Ready]
  /\ UNCHANGED <<kb, docs, chunks, objects, upload, deletion, wipe, raced, stripped, rebound>>

\* Chunks without a vector are passed over.
Scan(d) ==
  /\ query.pc = "scan" /\ d \in query.todo
  /\ query' = [query EXCEPT !.todo = @ \ {d},
                            !.hits = @ \cup {[doc |-> d, chunk |-> i, vector |-> chunks[d][i].vector] :
                                              i \in {j \in DOMAIN chunks[d] : chunks[d][j].vector # Unbound}}]
  /\ UNCHANGED <<kb, docs, chunks, objects, upload, deletion, wipe, raced, stripped, rebound>>

\* The hits are ranked and cut to top_k, of which no property speaks.
Answer ==
  /\ query.pc \in {"embed", "scan"} /\ query' = NoQuery
  /\ query.pc = "scan" => query.todo = {}
  /\ UNCHANGED <<kb, docs, chunks, objects, upload, deletion, wipe, raced, stripped, rebound>>

Next ==
  \/ \E u \in Uploads :
       \/ \E f \in Files : Begin(u, f)
       \/ Put(u) \/ CreateDocument(u) \/ Parse(u) \/ Chunk(u) \/ InsertChunk(u)
       \/ EmbedFails(u) \/ Embed(u) \/ WriteVector(u) \/ Stop(u)
       \/ DeleteChunks(u) \/ Scan(u)
  \/ DeleteRow \/ DeleteObject \/ DeleteFails \/ WipeObjects \/ DeleteKb
  \/ \E m \in Models : BindModel(m)
  \/ Ask \/ ListDocuments \/ Answer

Spec == Init /\ [][Next]_vars

-----------------------------------------------------------------------------
(* Properties.                                                             *)

\* A document that is ready holds the whole text of its file, character for
\* character, in chunks that reach over the target by no more than the rest of
\* a character, each with a vector of one model, unless a deletion that did not
\* finish took them away (the order of upload_document()'s writes,
\* embed_chunks() and chunk_text()).
ReadyIsIndexed ==
  \A u \in Ready \ stripped :
    /\ TextOf([i \in DOMAIN chunks[u] |-> chunks[u][i].of]) = FlattenSeq(upload[u].file.text)
    /\ \A i \in DOMAIN chunks[u] :
         chunks[u][i].of.len \in 1 .. Target + 3 /\ chunks[u][i].vector = upload[u].model
    /\ chunks[u] # <<>> /\ upload[u].model # Unbound

\* Before it ranks them, a query finds every chunk of each document that was
\* ready when it began and whose deletion has not begun, and none of a
\* document whose upload has not finished.  What it compares was embedded by the model that embedded
\* the question, as long as the base is bound to it still and was not bound
\* again since the upload began: binding embeds nothing again (query() and
\* bind_embedding_model()).
QueryFindsReady ==
  query.pc = "scan" =>
    /\ \A u \in query.ready \ (stripped \cup query.todo) : kb.exists =>
         {h.chunk : h \in {g \in query.hits : g.doc = u}} = DOMAIN chunks[u]
    /\ \A h \in query.hits : upload[h.doc].pc = "done"
    /\ \A h \in query.hits :
         h.vector = query.model \/ h.doc \in rebound \/ query.model # kb.model

\* Two documents with one hash come of two uploads that both looked for it
\* before either had made its row; in every other case the second is refused,
\* even while the first has failed (find_document_by_hash() and create_document()).
OneDocumentPerFile ==
  \A u, v \in Uploads :
    u # v /\ Exists(u) /\ Exists(v) /\ docs[u].hash = docs[v].hash => docs[u].hash \in raced
=============================================================================
