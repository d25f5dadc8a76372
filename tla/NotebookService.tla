-------------------------- MODULE NotebookService --------------------------
(***************************************************************************)
(* The v1 Notebook Service: concurrent request handlers over a             *)
(* content-addressed blob store and an SQLite metadata database.           *)
(*                                                                         *)
(* A handler is a worker thread.  It takes its steps one call at a time: a *)
(* blob-store call, or a repository call, which is one SQLite transaction. *)
(* Every transaction, a read included, opens with BEGIN IMMEDIATE          *)
(* (database.py), so two transactions never overlap and each is one        *)
(* action here; what interleaves is everything between them.               *)
(*                                                                         *)
(* Requests may arrive in any order, any number of times and with any key: *)
(* that covers retries, duplicates and late deliveries by the network.     *)
(***************************************************************************)
EXTENDS Naturals

CONSTANTS Workers,        \* request-handling threads, of any process
          NotebookIds,    \* the fresh identifiers uuid4 can return
          CreateKeys,     \* Idempotency-Key values used with POST
          SaveKeys,       \* Idempotency-Key values used with PUT
          BaseRevisions,  \* revision numbers a request may name
          Contents,       \* documents: canonical bytes, named by their digest
          Ops,            \* operations the clients of a run use
          None

AllOps == {"create", "save", "delete", "get", "revision"}

ASSUME ConstantsAssumption ==
  /\ BaseRevisions \subseteq Nat \ {0}
  /\ Ops \subseteq AllOps
  /\ None \notin NotebookIds \union CreateKeys \union SaveKeys \union Contents

VARIABLES blobs,        \* digests published in the blob store
          notebooks,    \* table notebooks
          revisions,    \* table notebook_revisions
          idempotency,  \* table idempotency_records
          pc,           \* per worker: the next call of its handler
          req,          \* per worker: the request it handles
          row,          \* per worker: the revision row it has read
          resp,         \* per worker: the response it is about to send
          seen          \* per worker, history: the notebook row when a
                        \* GET or PUT was accepted

tables == <<notebooks, revisions, idempotency>>
vars == <<blobs, tables, pc, req, row, resp, seen>>

-----------------------------------------------------------------------------
(* Data. *)

Keys == CreateKeys \union SaveKeys

\* One record shape for all requests: a field an operation lacks is None or 0.
\* `base` is baseRevision, or the revision in the path of a revision read;
\* `etag` is the revision named by If-None-Match (0: no header).
RequestsOf(op, keys, ids, bases, bodies, etags) ==
  [op : {op}, key : keys, notebook : ids, base : bases, content : bodies,
   etag : etags]

OrZero(s) == s \union {0}
OrNone(s) == s \union {None}

CreateRequests ==
  RequestsOf("create", CreateKeys, {None}, {0}, OrNone(Contents), {0})
SaveRequests ==
  RequestsOf("save", SaveKeys, NotebookIds, BaseRevisions, Contents, {0})
DeleteRequests ==
  RequestsOf("delete", {None}, NotebookIds, {0}, {None}, {0})
GetRequests ==
  RequestsOf("get", {None}, NotebookIds, {0}, {None}, OrZero(BaseRevisions))
RevisionRequests ==
  RequestsOf("revision", {None}, NotebookIds, BaseRevisions, {None},
             OrZero(BaseRevisions))

NoRequest == [op |-> "none", key |-> None, notebook |-> None,
              base |-> 0, content |-> None, etag |-> 0]

Requests == CreateRequests \union SaveRequests \union DeleteRequests
              \union GetRequests \union RevisionRequests \union {NoRequest}

\* Table notebooks: "absent" is a missing row, "deleted" has deleted_at set.
NotebookRows ==
  [status : {"absent", "live", "deleted"}, head : Nat,
   content : OrNone(Contents)]

AbsentNotebook == [status |-> "absent", head |-> 0, content |-> None]

RevisionRows == [notebook : NotebookIds, revision : Nat, content : Contents]

NoRevision == [notebook |-> None, revision |-> 0, content |-> None]

\* `hash` is what the request hash covers: the body, never the path.
IdempotencyRows ==
  [scope : {"POST", "PUT"}, key : Keys,
   hash : [base : Nat, content : OrNone(Contents)],
   notebook : NotebookIds, revision : Nat, content : Contents,
   unchanged : BOOLEAN]

Statuses == {"none", "created", "saved", "unchanged", "ok", "not_modified",
             "deleted", "not_found", "key_conflict", "revision_conflict",
             "unavailable", "internal_error"}

Responses == [status : Statuses, notebook : OrNone(NotebookIds),
              revision : Nat, content : OrNone(Contents)]

Pcs == {"idle", "blob", "txn", "notebook", "revision", "content", "done"}

Response(s, n, r, c) ==
  [status |-> s, notebook |-> n, revision |-> r, content |-> c]

Bare(s) == Response(s, None, 0, None)

RequestHash(q) == [base |-> q.base, content |-> q.content]

\* The row named by a primary key, as a set with at most one element.
RevisionRow(n, r) == {v \in revisions : v.notebook = n /\ v.revision = r}

Recorded(scope, key) == {i \in idempotency : i.scope = scope /\ i.key = key}

-----------------------------------------------------------------------------
(* Handler bookkeeping. *)

Goto(w, from, to) == pc[w] = from /\ pc' = [pc EXCEPT ![w] = to]

Reply(w, from, r) ==
  /\ Goto(w, from, "done")
  /\ resp' = [resp EXCEPT ![w] = r]

Init ==
  /\ blobs = {}
  /\ notebooks = [n \in NotebookIds |-> AbsentNotebook]
  /\ revisions = {}
  /\ idempotency = {}
  /\ pc = [w \in Workers |-> "idle"]
  /\ req = [w \in Workers |-> NoRequest]
  /\ row = [w \in Workers |-> NoRevision]
  /\ resp = [w \in Workers |-> Bare("none")]
  /\ seen = [w \in Workers |-> AbsentNotebook]

\* A request reaches an idle worker and passes body validation.
Accept(w, q, first) ==
  /\ q.op \in Ops
  /\ Goto(w, "idle", first)
  /\ req' = [req EXCEPT ![w] = q]
  /\ seen' = [seen EXCEPT ![w] = IF q.op \in {"get", "save"}
                                 THEN notebooks[q.notebook]
                                 ELSE AbsentNotebook]
  /\ UNCHANGED <<blobs, tables, resp>>

\* Mutant of AcceptCreate: the body is stored without normalize_for_create.
AcceptCreateRaw(w) ==
  \E q \in CreateRequests :
    /\ Accept(w, q, "blob")
    /\ row' = [row EXCEPT ![w].content = q.content]

\* POST.  normalize_for_create gives a cell without a usable id a random one,
\* so a body that lacks ids (content None) may become any document; the key
\* and the request hash are those of the raw body.
AcceptCreate(w) ==
  \E q \in CreateRequests, doc \in Contents :
    /\ q.content # None => doc = q.content
    /\ Accept(w, q, "blob")
    /\ row' = [row EXCEPT ![w].content = doc]

\* PUT.  validate_for_save changes nothing, so the document is the body.
AcceptSave(w) ==
  \E q \in SaveRequests :
    /\ Accept(w, q, "blob")
    /\ row' = [row EXCEPT ![w].content = q.content]

AcceptDelete(w) ==
  \E q \in DeleteRequests : Accept(w, q, "txn") /\ UNCHANGED row

AcceptRead(w) ==
  \E q \in GetRequests \union RevisionRequests :
    Accept(w, q, "notebook") /\ UNCHANGED row

-----------------------------------------------------------------------------
(* Blob first, metadata second. *)

\* blob_store.put: temporary file, fsync, atomic replace.  A PUT calls it only
\* when exists() says the digest is missing; a POST always does.
PublishBlob(w) ==
  /\ Goto(w, "blob", "txn")
  /\ req[w].op = "create" \/ row[w].content \notin blobs
  /\ blobs' = blobs \union {row[w].content}
  /\ UNCHANGED <<tables, req, row, resp, seen>>

\* Mutant of SkipBlob: exists() is not asked.
SkipBlobUnchecked(w) ==
  /\ Goto(w, "blob", "txn")
  /\ req[w].op = "save"
  /\ UNCHANGED <<blobs, tables, req, row, resp, seen>>

SkipBlob(w) ==
  /\ Goto(w, "blob", "txn")
  /\ req[w].op = "save"
  /\ row[w].content \in blobs
  /\ UNCHANGED <<blobs, tables, req, row, resp, seen>>

\* OSError in put: nothing is published, 503.
BlobUnavailable(w) ==
  /\ Reply(w, "blob", Bare("unavailable"))
  /\ req[w].op = "create" \/ row[w].content \notin blobs
  /\ UNCHANGED <<blobs, tables, req, row, seen>>

-----------------------------------------------------------------------------
(* Write transactions.  Each checks the idempotency record first. *)

InTxn(w, op) == pc[w] = "txn" /\ req[w].op = op

\* Mutant of InsertIdempotency: the commit leaves the record for later.
InsertIdempotencyLater(w, scope, n, r, c, unchanged) == UNCHANGED idempotency

\* The ledger entry of a committed request, in the transaction that commits.
InsertIdempotency(w, scope, n, r, c, unchanged) ==
  idempotency' = idempotency \union
    {[scope |-> scope, key |-> req[w].key, hash |-> RequestHash(req[w]),
      notebook |-> n, revision |-> r, content |-> c, unchanged |-> unchanged]}

\* Mutant of InsertRevision: only the latest revision of a notebook is kept.
InsertRevisionOver(n, r, c) ==
  revisions' = {v \in revisions : v.notebook # n}
                 \union {[notebook |-> n, revision |-> r, content |-> c]}

InsertRevision(n, r, c) ==
  revisions' = revisions \union {[notebook |-> n, revision |-> r, content |-> c]}

\* A recorded key with another body: 409 for POST and PUT alike.
KeyConflict(w, op, scope) ==
  /\ InTxn(w, op)
  /\ \E i \in Recorded(scope, req[w].key) : i.hash # RequestHash(req[w])
  /\ Reply(w, "txn", Bare("key_conflict"))
  /\ UNCHANGED <<blobs, tables, req, row, seen>>

\* A recorded key with the recorded body.  A record whose rows are missing is
\* an integrity failure.
Replayed(w, op, scope, i) ==
  /\ InTxn(w, op)
  /\ i \in Recorded(scope, req[w].key)
  /\ i.hash = RequestHash(req[w])

\* Mutant of RowsPresent: the lookup of a replay skips deleted notebooks.
RowsPresentLive(i) == /\ notebooks[i.notebook].status = "live"
                      /\ RevisionRow(i.notebook, i.revision) # {}

RowsPresent(i) == /\ notebooks[i.notebook].status # "absent"
                  /\ RevisionRow(i.notebook, i.revision) # {}

\* The replayed POST answers with the content, which it must still read.
CreateReplay(w) ==
  \E i \in idempotency :
    /\ Replayed(w, "create", "POST", i)
    /\ IF RowsPresent(i)
       THEN /\ \E v \in RevisionRow(i.notebook, i.revision) :
                  row' = [row EXCEPT ![w] = v]
            /\ Goto(w, "txn", "content")
            /\ UNCHANGED resp
       ELSE /\ Reply(w, "txn", Bare("internal_error"))
            /\ UNCHANGED row
    /\ UNCHANGED <<blobs, tables, req, seen>>

CreateCommit(w) ==
  \E n \in NotebookIds :
    LET c == row[w].content IN
    /\ InTxn(w, "create")
    /\ Recorded("POST", req[w].key) = {}
    /\ notebooks[n].status = "absent"
    /\ notebooks' = [notebooks EXCEPT
                       ![n] = [status |-> "live", head |-> 1, content |-> c]]
    /\ InsertRevision(n, 1, c)
    /\ InsertIdempotency(w, "POST", n, 1, c, FALSE)
    /\ Reply(w, "txn", Response("created", n, 1, c))
    /\ UNCHANGED <<blobs, req, row, seen>>

\* The replayed PUT answers from the record alone, whatever the head is now.
SaveReplay(w) ==
  \E i \in idempotency :
    /\ Replayed(w, "save", "PUT", i)
    /\ Reply(w, "txn",
             IF RowsPresent(i)
             THEN Response(IF i.unchanged THEN "unchanged" ELSE "saved",
                           i.notebook, i.revision, i.content)
             ELSE Bare("internal_error"))
    /\ UNCHANGED <<blobs, tables, req, row, seen>>

\* Mutant of FreshSave: the idempotency record is not looked up.
FreshSaveUnchecked(w) == InTxn(w, "save")

\* A PUT whose key is new.
FreshSave(w) == InTxn(w, "save") /\ Recorded("PUT", req[w].key) = {}

SaveNotFound(w) ==
  /\ FreshSave(w)
  /\ notebooks[req[w].notebook].status # "live"
  /\ Reply(w, "txn", Bare("not_found"))
  /\ UNCHANGED <<blobs, tables, req, row, seen>>

\* Mutant of SaveConflict: the comparison lets the head itself conflict.
SaveConflictAtHead(w) ==
  LET nb == notebooks[req[w].notebook] IN
  /\ FreshSave(w)
  /\ nb.status = "live"
  /\ nb.head >= req[w].base
  /\ Reply(w, "txn", Response("revision_conflict", req[w].notebook,
                              nb.head, nb.content))
  /\ UNCHANGED <<blobs, tables, req, row, seen>>

SaveConflict(w) ==
  LET nb == notebooks[req[w].notebook] IN
  /\ FreshSave(w)
  /\ nb.status = "live"
  /\ nb.head # req[w].base
  /\ Reply(w, "txn", Response("revision_conflict", req[w].notebook,
                              nb.head, nb.content))
  /\ UNCHANGED <<blobs, tables, req, row, seen>>

\* Mutants of SaveCurrent: baseRevision is not compared with the head; the
\* UPDATE does not ask for deleted_at IS NULL.
SaveCurrentUnchecked(w) ==
  FreshSave(w) /\ notebooks[req[w].notebook].status = "live"

SaveCurrentDeleted(w) ==
  /\ FreshSave(w)
  /\ notebooks[req[w].notebook].status # "absent"
  /\ notebooks[req[w].notebook].head = req[w].base

\* The PUT names the head of a live notebook (the check, and the WHERE clause
\* of the conditional UPDATE).
SaveCurrent(w) ==
  /\ FreshSave(w)
  /\ notebooks[req[w].notebook].status = "live"
  /\ notebooks[req[w].notebook].head = req[w].base

\* The head's content again: no new revision, but the key is spent.
SaveUnchanged(w) ==
  LET n == req[w].notebook IN
  /\ SaveCurrent(w)
  /\ notebooks[n].content = row[w].content
  /\ IF RevisionRow(n, notebooks[n].head) # {}
     THEN /\ InsertIdempotency(w, "PUT", n, notebooks[n].head,
                               notebooks[n].content, TRUE)
          /\ Reply(w, "txn", Response("unchanged", n, notebooks[n].head,
                                      notebooks[n].content))
     ELSE /\ Reply(w, "txn", Bare("internal_error"))
          /\ UNCHANGED idempotency
  /\ UNCHANGED <<blobs, notebooks, revisions, req, row, seen>>

SaveCommit(w) ==
  LET n == req[w].notebook
      r == notebooks[n].head + 1
      c == row[w].content
  IN
  /\ SaveCurrent(w)
  /\ notebooks[n].content # c
  /\ IF RevisionRow(n, notebooks[n].head) # {}
     THEN /\ notebooks' = [notebooks EXCEPT ![n].head = r, ![n].content = c]
          /\ InsertRevision(n, r, c)
          /\ InsertIdempotency(w, "PUT", n, r, c, FALSE)
          /\ Reply(w, "txn", Response("saved", n, r, c))
     ELSE /\ Reply(w, "txn", Bare("internal_error"))
          /\ UNCHANGED tables
  /\ UNCHANGED <<blobs, req, row, seen>>

\* DELETE sets deleted_at and nothing else; repeating it succeeds.
DeleteTxn(w) ==
  LET n == req[w].notebook IN
  /\ InTxn(w, "delete")
  /\ Reply(w, "txn", IF notebooks[n].status = "absent" THEN Bare("not_found")
                     ELSE Response("deleted", n, 0, None))
  /\ notebooks' = IF notebooks[n].status = "absent" THEN notebooks
                  ELSE [notebooks EXCEPT ![n].status = "deleted"]
  /\ UNCHANGED <<blobs, revisions, idempotency, req, row, seen>>

-----------------------------------------------------------------------------
(* Reads: two transactions, then the blob. *)

\* Mutant of ReadNotebook: a deleted notebook is still served.
ReadNotebookDeleted(w) ==
  LET q == req[w]
      nb == notebooks[q.notebook]
  IN
  /\ Goto(w, "notebook", "revision")
  /\ nb.status # "absent"
  /\ row' = [row EXCEPT ![w].notebook = q.notebook,
                        ![w].revision = IF q.op = "get" THEN nb.head
                                        ELSE q.base]
  /\ UNCHANGED <<blobs, tables, req, resp, seen>>

ReadNotebook(w) ==
  LET q == req[w]
      nb == notebooks[q.notebook]
  IN
  /\ pc[w] = "notebook"
  /\ IF nb.status # "live"
     THEN /\ Reply(w, "notebook", Bare("not_found"))
          /\ UNCHANGED row
     ELSE /\ Goto(w, "notebook", "revision")
          /\ row' = [row EXCEPT ![w].notebook = q.notebook,
                                ![w].revision = IF q.op = "get" THEN nb.head
                                                ELSE q.base]
          /\ UNCHANGED resp
  /\ UNCHANGED <<blobs, tables, req, seen>>

ReadRevision(w) ==
  LET found == RevisionRow(row[w].notebook, row[w].revision) IN
  /\ pc[w] = "revision"
  /\ IF found = {}
     THEN /\ Reply(w, "revision", Bare(IF req[w].op = "get"
                                       THEN "internal_error" ELSE "not_found"))
          /\ UNCHANGED row
     ELSE \E v \in found :
            /\ row' = [row EXCEPT ![w] = v]
            /\ IF v.revision = req[w].etag
               THEN Reply(w, "revision", Response("not_modified", v.notebook,
                                                  v.revision, None))
               ELSE Goto(w, "revision", "content") /\ UNCHANGED resp
  /\ UNCHANGED <<blobs, tables, req, seen>>

\* _read_content: a missing blob is an integrity failure.
ReadContent(w) ==
  LET v == row[w] IN
  /\ Reply(w, "content",
           IF v.content \notin blobs THEN Bare("internal_error")
           ELSE Response(IF req[w].op = "create" THEN "created" ELSE "ok",
                         v.notebook, v.revision, v.content))
  /\ UNCHANGED <<blobs, tables, req, row, seen>>

\* OperationalError in a transaction (rolled back) or OSError on a read: 503.
Unavailable(w) ==
  /\ \E from \in {"txn", "notebook", "revision", "content"} :
        Reply(w, from, Bare("unavailable"))
  /\ UNCHANGED <<blobs, tables, req, row, seen>>

-----------------------------------------------------------------------------
(* A handler ends. *)

Clear(ws) ==
  /\ pc' = [w \in Workers |-> IF w \in ws THEN "idle" ELSE pc[w]]
  /\ req' = [w \in Workers |-> IF w \in ws THEN NoRequest ELSE req[w]]
  /\ row' = [w \in Workers |-> IF w \in ws THEN NoRevision ELSE row[w]]
  /\ resp' = [w \in Workers |-> IF w \in ws THEN Bare("none") ELSE resp[w]]
  /\ seen' = [w \in Workers |-> IF w \in ws THEN AbsentNotebook ELSE seen[w]]
  /\ UNCHANGED <<blobs, tables>>

\* The response leaves the service, to be received or lost.
Respond(w) == pc[w] = "done" /\ Clear({w})

\* A service process dies with the handlers it ran and restarts.  The files
\* and the committed rows stay; an open transaction is rolled back.
Crash(ws) == (\E w \in ws : pc[w] # "idle") /\ Clear(ws)

Step(w) ==
  \/ AcceptCreate(w) \/ AcceptSave(w) \/ AcceptDelete(w) \/ AcceptRead(w)
  \/ PublishBlob(w) \/ SkipBlob(w) \/ BlobUnavailable(w)
  \/ KeyConflict(w, "create", "POST") \/ CreateReplay(w) \/ CreateCommit(w)
  \/ KeyConflict(w, "save", "PUT") \/ SaveReplay(w) \/ SaveNotFound(w)
  \/ SaveConflict(w) \/ SaveUnchanged(w) \/ SaveCommit(w)
  \/ DeleteTxn(w)
  \/ ReadNotebook(w) \/ ReadRevision(w) \/ ReadContent(w)
  \/ Unavailable(w)
  \/ Respond(w)

Next ==
  \/ \E w \in Workers : Step(w)
  \/ \E ws \in SUBSET Workers : Crash(ws)

Spec == Init /\ [][Next]_vars

-----------------------------------------------------------------------------
(* Properties. *)

\* Every variable has the shape of the tables and handlers it stands for.
TypeOK ==
  /\ blobs \subseteq Contents
  /\ notebooks \in [NotebookIds -> NotebookRows]
  /\ revisions \subseteq RevisionRows
  /\ idempotency \subseteq IdempotencyRows
  /\ pc \in [Workers -> Pcs]
  /\ req \in [Workers -> Requests]
  /\ row \in [Workers -> [notebook : OrNone(NotebookIds), revision : Nat,
                          content : OrNone(Contents)]]
  /\ resp \in [Workers -> Responses]
  /\ seen \in [Workers -> NotebookRows]

HistoryComplete1(n) ==
  LET mine == {v \in revisions : v.notebook = n} IN
  /\ \A v \in mine : v.revision \in 1 .. notebooks[n].head
  /\ \A r \in 1 .. notebooks[n].head : \E v \in mine : v.revision = r
  /\ \A u, v \in mine : u.revision = v.revision => u = v
  /\ \A v \in mine : v.revision = notebooks[n].head
                       => v.content = notebooks[n].content

\* A notebook's revision rows are exactly 1 .. current_revision, each number
\* once, and the head's row carries current_content_hash, however saves,
\* retries, deletions and crashes interleave (save_notebook writes two tables).
HistoryComplete == \A n \in NotebookIds : HistoryComplete1(n)

\* Blob before metadata: no committed revision names a missing blob.
RevisionsReadable == \A v \in revisions : v.content \in blobs

\* An idempotency key takes effect at most once: keys are unique per scope,
\* and every revision was written under exactly one key, so no retry or
\* duplicate of a request ever adds a second revision.
ExactlyOnce ==
  /\ \A i, j \in idempotency :
       \/ i = j
       \/ <<i.scope, i.key>> # <<j.scope, j.key>>
          /\ (i.unchanged \/ j.unchanged
              \/ <<i.notebook, i.revision>> # <<j.notebook, j.revision>>)
  /\ \A v \in revisions : \E i \in idempotency :
       ~ i.unchanged /\ i.notebook = v.notebook /\ i.revision = v.revision

\* A recorded PUT wrote its own content on top of exactly the revision its
\* client had read, or confirmed that revision's content: nothing written in
\* between is overwritten unseen (optimistic concurrency on baseRevision).
NoLostUpdate ==
  \A i \in idempotency :
    /\ [notebook |-> i.notebook, revision |-> i.revision,
        content |-> i.content] \in revisions
    /\ i.scope = "PUT" =>
         /\ i.content = i.hash.content
         /\ i.revision = IF i.unchanged THEN i.hash.base ELSE i.hash.base + 1

Acknowledged(w) ==
  resp[w].status \in {"created", "saved", "unchanged"} =>
    \E i \in Recorded(IF req[w].op = "create" THEN "POST" ELSE "PUT",
                      req[w].key) :
      /\ i.hash = RequestHash(req[w])
      /\ i.notebook = resp[w].notebook
      /\ i.revision = resp[w].revision
      /\ i.content = resp[w].content
      /\ i.unchanged <=> resp[w].status = "unchanged"

\* A success answer to POST or PUT is backed by a committed ledger entry for
\* this key and body, whether it is the first answer or a replay: what a
\* client was told survives every crash after it.
AcknowledgedIsCommitted == \A w \in Workers : Acknowledged(w)

\* The integrity failures the code reports as 500 (missing head row, missing
\* replay rows, missing blob) are unreachable.
NoInternalError == \A w \in Workers : resp[w].status # "internal_error"

ReadIsCurrent(w) ==
  req[w].op = "get" /\ resp[w].status \in {"ok", "not_modified"} =>
    /\ seen[w].status # "deleted"
    /\ resp[w].revision >= seen[w].head
    /\ row[w] \in revisions
    /\ row[w].notebook = req[w].notebook
    /\ row[w].revision = resp[w].revision
    /\ resp[w].status = "ok" => resp[w].content = row[w].content

\* GET of the latest revision spans two transactions and a file read.  Its
\* answer is a committed revision at least as new as the head at the moment
\* the request arrived, and never of a notebook already deleted by then.
ReadsAreCurrent == \A w \in Workers : ReadIsCurrent(w)

ConflictAnswered(w) ==
  resp[w].status = "revision_conflict" =>
    /\ resp[w].revision # req[w].base
    /\ resp[w].revision >= seen[w].head
    /\ [notebook |-> req[w].notebook, revision |-> resp[w].revision,
        content |-> resp[w].content] \in revisions

\* A conflict answer names a committed revision that is not the client's base
\* and is at least as new as the head when the request arrived.
ConflictIsReal == \A w \in Workers : ConflictAnswered(w)

\* A soft-deleted notebook never changes again: no save, retry or late
\* request resurrects it or adds a revision to it.
NoResurrection ==
  [][\A n \in NotebookIds :
       notebooks[n].status = "deleted" =>
         /\ notebooks'[n] = notebooks[n]
         /\ {v \in revisions' : v.notebook = n}
              = {v \in revisions : v.notebook = n}]_vars

\* A successful PUT answers for the notebook in its path.
SaveAnswersItsNotebook ==
  \A w \in Workers :
    req[w].op = "save" /\ resp[w].status \in {"saved", "unchanged"} =>
      resp[w].notebook = req[w].notebook

\* The service implements the atomic store: a version exists for readers once
\* its row is committed and its blob is there.
Store == INSTANCE DocumentStore WITH
  versions <- {v \in revisions : v.content \in blobs},
  deleted  <- {n \in NotebookIds : notebooks[n].status = "deleted"},
  ledger   <- {[scope |-> i.scope, key |-> i.key, base |-> i.hash.base,
                notebook |-> i.notebook, revision |-> i.revision,
                content |-> i.content] : i \in idempotency}

\* Handlers that interleave between a blob write and two or more transactions
\* look to every client like the atomic operations of DocumentStore.
StoreImplemented == Store!StoreSpec
=============================================================================
