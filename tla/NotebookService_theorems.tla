---------------------- MODULE NotebookService_theorems ---------------------
(***************************************************************************)
(* The inductive invariant of NotebookService and the theorems that follow *)
(* from it, the implementation of DocumentStore among them.                *)
(***************************************************************************)
EXTENDS NotebookService_proofs

\* Nothing published or committed is ever withdrawn.
Grows ==
  /\ blobs \subseteq blobs'
  /\ revisions \subseteq revisions'
  /\ idempotency \subseteq idempotency'
  /\ \A n \in NotebookIds :
       /\ notebooks[n].status # "absent" => notebooks'[n].status # "absent"
       /\ notebooks[n].status = "deleted" => notebooks'[n].status = "deleted"
       /\ notebooks[n].head <= notebooks'[n].head

\* What a handler remembers of its request's notebook is never ahead of the
\* table, and a read in progress holds a row at least as new as that.
SeenOK(w) ==
  /\ pc[w] # "idle" /\ req[w].notebook # None =>
       /\ seen[w].head <= notebooks[req[w].notebook].head
       /\ seen[w].status = "deleted"
            => notebooks[req[w].notebook].status = "deleted"
  /\ pc[w] \in {"revision", "content"} /\ req[w].op = "get" =>
       /\ seen[w].status # "deleted"
       /\ row[w].revision >= seen[w].head
       /\ row[w].notebook = req[w].notebook

\* A replayed POST on its way to the blob store is backed by its entry.
ReplayOK(w) ==
  pc[w] = "content" /\ req[w].op = "create" =>
    \E i \in Recorded("POST", req[w].key) :
      /\ i.hash = RequestHash(req[w])
      /\ i.notebook = row[w].notebook
      /\ i.revision = row[w].revision
      /\ i.content = row[w].content

AnswerOK(w) == /\ pc[w] # "done" => resp[w].status = "none"
               /\ resp[w].status # "internal_error"
               /\ Acknowledged(w)
               /\ ReadIsCurrent(w)
               /\ ConflictAnswered(w)

WorkerOK(w) == HandlerOK(w) /\ SeenOK(w) /\ ReplayOK(w) /\ AnswerOK(w)

IInv == TypeOK /\ TablesOK /\ \A w \in Workers : WorkerOK(w)

\* No transaction withdraws a blob, a revision, a ledger entry or a deletion.
LEMMA TableStepGrows ==
  ASSUME TypeOK, HeadZero, TableStep
  PROVE  Grows
<1>1. ASSUME NEW n \in NotebookIds, NEW c \in Contents,
             NEW i \in IdempotencyRows, TableCreate(n, c, i)
      PROVE  Grows
  <2>1. notebooks[n].head = 0
    BY <1>1 DEF TableCreate, HeadZero
  <2>. QED BY <1>1, <2>1 DEF TableCreate, NewRevision, NewEntry, Grows,
                             TypeOK, NotebookRows
<1>2. ASSUME NEW n \in NotebookIds, NEW c \in Contents,
             NEW i \in IdempotencyRows, TableSave(n, c, i)
      PROVE  Grows
  BY <1>2 DEF TableSave, NewRevision, NewEntry, Grows, TypeOK, NotebookRows
<1>3. ASSUME NEW n \in NotebookIds, NEW c \in Contents,
             NEW i \in IdempotencyRows, TableConfirm(n, c, i)
      PROVE  Grows
  BY <1>3 DEF TableConfirm, NewEntry, Grows, TypeOK, NotebookRows
<1>4. ASSUME NEW n \in NotebookIds, TableDelete(n)
      PROVE  Grows
  BY <1>4 DEF TableDelete, Grows, TypeOK, NotebookRows
<1>5. CASE TableStutter
  BY <1>5 DEF TableStutter, tables, Grows, TypeOK, NotebookRows
<1>. QED BY <1>1, <1>2, <1>3, <1>4, <1>5 DEF TableStep

-----------------------------------------------------------------------------
(* A handler that does not move keeps its invariant while the tables grow. *)

\* What a handler knows stays true while other handlers change the tables.
LEMMA WorkerKept ==
  ASSUME TypeOK, TypeOK', NEW u \in Workers, WorkerOK(u), Grows,
         pc'[u] = pc[u], req'[u] = req[u], row'[u] = row[u],
         resp'[u] = resp[u], seen'[u] = seen[u]
  PROVE  WorkerOK(u)'
<1>1. req[u] \in Requests
  BY DEF TypeOK
<1>2. req[u].notebook = None \/ req[u].notebook \in NotebookIds
  BY <1>1 DEF Requests, CreateRequests, SaveRequests, DeleteRequests,
              GetRequests, RevisionRequests, RequestsOf, NoRequest
<1>3. req[u].op \in {"get", "revision"} => req[u].notebook \in NotebookIds
  BY <1>1, RequestForms, ReadFields
<1>4. /\ \A n \in NotebookIds :
              notebooks[n].head \in Nat /\ notebooks'[n].head \in Nat
      /\ seen[u].head \in Nat /\ row[u].revision \in Nat
  BY DEF TypeOK, NotebookRows
<1>5. pc[u] = "revision" =>
        /\ row[u].notebook \in NotebookIds
        /\ row[u].notebook = req[u].notebook
        /\ notebooks'[row[u].notebook].status # "absent"
        /\ req[u].op = "get"
             => row[u].revision \in 1 .. notebooks'[row[u].notebook].head
  <2> SUFFICES ASSUME pc[u] = "revision"
               PROVE  /\ row[u].notebook \in NotebookIds
                      /\ row[u].notebook = req[u].notebook
                      /\ notebooks'[row[u].notebook].status # "absent"
                      /\ req[u].op = "get" =>
                            row[u].revision \in
                              1 .. notebooks'[row[u].notebook].head
    OBVIOUS
  <2>1. row[u].notebook \in NotebookIds /\ row[u].notebook = req[u].notebook
    BY <1>3 DEF WorkerOK, HandlerOK
  <2>. QED BY <1>4, <2>1 DEF WorkerOK, HandlerOK, Grows
<1>6. HandlerOK(u)'
  BY <1>5 DEF WorkerOK, HandlerOK, Writing, Grows
<1>7. SeenOK(u)'
  BY <1>2, <1>4 DEF WorkerOK, SeenOK, Grows
<1>8. ReplayOK(u)'
  BY DEF WorkerOK, ReplayOK, Recorded, RequestHash, Grows
<1>9. AnswerOK(u)'
  BY DEF WorkerOK, AnswerOK, Acknowledged, ReadIsCurrent, ConflictAnswered,
     Recorded,
         RequestHash, Grows
<1>. QED BY <1>6, <1>7, <1>8, <1>9 DEF WorkerOK

\* Answering or crashing resets the workers concerned and no other.
LEMMA ClearFrame ==
  ASSUME TypeOK, NEW ws \in SUBSET Workers, Clear(ws), NEW u \in Workers
  PROVE  \/ /\ pc'[u] = "idle" /\ req'[u] = NoRequest
            /\ resp'[u] = Bare("none")
         \/ /\ pc'[u] = pc[u] /\ req'[u] = req[u] /\ row'[u] = row[u]
            /\ resp'[u] = resp[u] /\ seen'[u] = seen[u]
<1>1. CASE u \in ws
  BY <1>1 DEF Clear
<1>2. CASE u \notin ws
  BY <1>2 DEF Clear
<1>. QED BY <1>1, <1>2

\* An idle worker knows nothing that could be wrong.
LEMMA IdleOK ==
  ASSUME NEW u \in Workers, pc'[u] = "idle", req'[u] = NoRequest,
         resp'[u] = Bare("none")
  PROVE  WorkerOK(u)'
BY DEF WorkerOK, HandlerOK, Writing, SeenOK, ReplayOK, AnswerOK, Acknowledged,
       ReadIsCurrent, ConflictAnswered, NoRequest, Bare, Response

\* The steps of one worker leave every other worker alone.
LEMMA Frame ==
  ASSUME TypeOK, NEW w \in Workers, Step(w), ~ Respond(w),
         NEW u \in Workers, u # w
  PROVE  /\ pc'[u] = pc[u] /\ req'[u] = req[u] /\ row'[u] = row[u]
         /\ resp'[u] = resp[u] /\ seen'[u] = seen[u]
<1>. USE DEF Reply, Goto, TypeOK, tables
<1>1. CASE AcceptCreate(w)
  BY <1>1 DEF AcceptCreate, Accept
<1>2. CASE AcceptSave(w)
  BY <1>2 DEF AcceptSave, Accept
<1>3. CASE AcceptDelete(w) \/ AcceptRead(w)
  BY <1>3 DEF AcceptDelete, AcceptRead, Accept
<1>4. CASE PublishBlob(w) \/ SkipBlob(w) \/ BlobUnavailable(w) \/ Unavailable(w)
  BY <1>4 DEF PublishBlob, SkipBlob, BlobUnavailable, Unavailable
<1>5. CASE KeyConflict(w, "create", "POST") \/ KeyConflict(w, "save", "PUT")
  BY <1>5 DEF KeyConflict
<1>6. CASE CreateReplay(w)
  BY <1>6 DEF CreateReplay
<1>7. CASE CreateCommit(w) \/ SaveReplay(w)
  BY <1>7 DEF CreateCommit, SaveReplay
<1>8. CASE SaveNotFound(w) \/ SaveConflict(w) \/ DeleteTxn(w)
  BY <1>8 DEF SaveNotFound, SaveConflict, DeleteTxn
<1>9. CASE SaveUnchanged(w)
  BY <1>9 DEF SaveUnchanged
<1>10. CASE SaveCommit(w)
  BY <1>10 DEF SaveCommit
<1>11. CASE ReadNotebook(w)
  BY <1>11 DEF ReadNotebook
<1>12. CASE ReadRevision(w)
  BY <1>12 DEF ReadRevision
<1>13. CASE ReadContent(w)
  BY <1>13 DEF ReadContent
<1>. QED BY <1>1, <1>2, <1>3, <1>4, <1>5, <1>6, <1>7, <1>8, <1>9, <1>10,
            <1>11, <1>12, <1>13 DEF Step

-----------------------------------------------------------------------------
(* The moving handler, action by action. *)

\* A handler starts knowing what its request and the tables say.
LEMMA AcceptOK ==
  ASSUME TypeOK, NEW w \in Workers, WorkerOK(w),
         NEW q \in Requests, NEW first \in {"blob", "txn", "notebook"},
         Accept(w, q, first),
         first = "notebook" => q.op \in {"get", "revision"},
         first = "txn" => q.op = "delete",
         first = "blob" => /\ q.op \in {"create", "save"}
                           /\ row'[w].content \in Contents
                           /\ q.op = "save" => row'[w].content = q.content
  PROVE  WorkerOK(w)'
<1>1. /\ pc[w] = "idle" /\ pc'[w] = first /\ req'[w] = q
      /\ seen'[w] = IF q.op \in {"get", "save"} THEN notebooks[q.notebook]
                    ELSE AbsentNotebook
      /\ resp'[w] = resp[w] /\ UNCHANGED tables
  BY DEF Accept, Goto, TypeOK
<1>2. resp[w].status = "none"
  BY <1>1 DEF WorkerOK, AnswerOK
<1>3. HandlerOK(w)'
  BY <1>1 DEF HandlerOK, Writing
<1>4. SeenOK(w)'
  <2>1. q.notebook # None => q.notebook \in NotebookIds
    BY DEF Requests, CreateRequests, SaveRequests, DeleteRequests,
           GetRequests, RevisionRequests, RequestsOf, NoRequest
  <2>2. \A n \in NotebookIds : notebooks[n].head \in Nat
    BY DEF TypeOK, NotebookRows
  <2>. QED BY <1>1, <2>1, <2>2 DEF SeenOK, tables, AbsentNotebook
<1>5. ReplayOK(w)'
  BY <1>1 DEF ReplayOK
<1>6. AnswerOK(w)'
  BY <1>1, <1>2 DEF AnswerOK, Acknowledged, ReadIsCurrent, ConflictAnswered
<1>. QED BY <1>3, <1>4, <1>5, <1>6 DEF WorkerOK

\* A step that ends with an answer that claims nothing about the tables.
LEMMA RefusalOK ==
  ASSUME TypeOK, TypeOK', NEW w \in Workers, WorkerOK(w), Grows,
         pc[w] # "idle", pc'[w] = "done", UNCHANGED <<req, seen>>,
         resp'[w].status \notin {"created", "saved", "unchanged", "ok",
                                 "not_modified", "internal_error",
                                 "revision_conflict"}
  PROVE  WorkerOK(w)'
<1>1. HandlerOK(w)'
  BY DEF HandlerOK
<1>2. SeenOK(w)'
  <2>1. req[w].notebook # None => req[w].notebook \in NotebookIds
    BY DEF TypeOK, Requests, CreateRequests, SaveRequests, DeleteRequests,
           GetRequests, RevisionRequests, RequestsOf, NoRequest
  <2>2. /\ \A n \in NotebookIds :
               notebooks[n].head \in Nat /\ notebooks'[n].head \in Nat
        /\ seen[w].head \in Nat
    BY DEF TypeOK, NotebookRows
  <2>. QED BY <2>1, <2>2 DEF SeenOK, WorkerOK, Grows
<1>3. ReplayOK(w)' /\ AnswerOK(w)'
  BY DEF ReplayOK, AnswerOK, Acknowledged, ReadIsCurrent, ConflictAnswered
<1>. QED BY <1>1, <1>2, <1>3 DEF WorkerOK

\* What SeenOK says of the request's notebook survives any step that leaves
\* the request alone and is not inside a read.
LEMMA SeenKept ==
  ASSUME TypeOK, TypeOK', NEW w \in Workers, WorkerOK(w), Grows,
         pc[w] # "idle", UNCHANGED <<req, seen>>
  PROVE  /\ req'[w] = req[w] /\ seen'[w] = seen[w]
         /\ req[w].notebook # None =>
              /\ seen[w].head <= notebooks'[req[w].notebook].head
              /\ seen[w].status = "deleted"
                   => notebooks'[req[w].notebook].status = "deleted"
<1>1. req[w].notebook # None => req[w].notebook \in NotebookIds
  BY DEF TypeOK, Requests, CreateRequests, SaveRequests, DeleteRequests,
         GetRequests, RevisionRequests, RequestsOf, NoRequest
<1>2. /\ \A n \in NotebookIds :
             notebooks[n].head \in Nat /\ notebooks'[n].head \in Nat
      /\ seen[w].head \in Nat
  BY DEF TypeOK, NotebookRows
<1>. QED BY <1>1, <1>2 DEF SeenOK, WorkerOK, Grows

\* A request that names a notebook names one of NotebookIds.
LEMMA RequestNotebook ==
  ASSUME TypeOK, NEW w \in Workers
  PROVE  req[w].notebook # None => req[w].notebook \in NotebookIds
BY DEF TypeOK, Requests, CreateRequests, SaveRequests, DeleteRequests,
       GetRequests, RevisionRequests, RequestsOf, NoRequest

\* The handler of a POST or PUT answers with the entry it finds or commits.
LEMMA SuccessOK ==
  ASSUME TypeOK, TypeOK', NEW w \in Workers, WorkerOK(w), Grows,
         pc[w] # "idle", pc'[w] = "done", UNCHANGED <<req, seen>>,
         req[w].op \in {"create", "save"},
         NEW i \in idempotency',
         i.scope = IF req[w].op = "create" THEN "POST" ELSE "PUT",
         i.key = req[w].key, i.hash = RequestHash(req[w]),
         resp'[w].status \in {"created", "saved", "unchanged"},
         i.unchanged <=> resp'[w].status = "unchanged",
         resp'[w].notebook = i.notebook, resp'[w].revision = i.revision,
         resp'[w].content = i.content
  PROVE  WorkerOK(w)'
<1>1. req'[w] = req[w] /\ HandlerOK(w)'
  BY DEF HandlerOK
<1>2. SeenOK(w)'
  BY SeenKept DEF SeenOK
<1>3. i \in Recorded(IF req[w].op = "create" THEN "POST" ELSE "PUT",
                   req[w].key)'
  BY <1>1 DEF Recorded
<1>4. Acknowledged(w)'
  BY <1>1, <1>3 DEF Acknowledged, RequestHash, Recorded
<1>5. ReplayOK(w)' /\ AnswerOK(w)'
  BY <1>1, <1>4 DEF ReplayOK, AnswerOK, ReadIsCurrent, ConflictAnswered
<1>. QED BY <1>1, <1>2, <1>5 DEF WorkerOK

\* Accepting any request establishes what its handler relies on.
LEMMA AcceptsOK ==
  ASSUME TypeOK, NEW w \in Workers, WorkerOK(w),
         AcceptCreate(w) \/ AcceptSave(w) \/ AcceptDelete(w) \/ AcceptRead(w)
  PROVE  WorkerOK(w)'
<1>1. CASE AcceptCreate(w)
  <2>1. PICK q \in CreateRequests, doc \in Contents :
           Accept(w, q, "blob") /\ row' = [row EXCEPT ![w].content = doc]
    BY <1>1 DEF AcceptCreate
  <2>2. row'[w].content = doc
    BY <2>1 DEF TypeOK
  <2>. QED BY <2>1, <2>2, CreateFields, AcceptOK
<1>2. CASE AcceptSave(w)
  <2>1. PICK q \in SaveRequests :
           Accept(w, q, "blob") /\ row' = [row EXCEPT ![w].content = q.content]
    BY <1>2 DEF AcceptSave
  <2>2. row'[w].content = q.content
    BY <2>1 DEF TypeOK
  <2>. QED BY <2>1, <2>2, SaveFields, AcceptOK
<1>3. CASE AcceptDelete(w)
  BY <1>3, DeleteFields, AcceptOK DEF AcceptDelete
<1>4. CASE AcceptRead(w)
  BY <1>4, ReadFields, AcceptOK DEF AcceptRead
<1>. QED BY <1>1, <1>2, <1>3, <1>4

\* After put() or exists() the blob the transaction will name is published.
LEMMA BlobOK ==
  ASSUME TypeOK, TypeOK', NEW w \in Workers, WorkerOK(w), Grows,
         PublishBlob(w) \/ SkipBlob(w)
  PROVE  WorkerOK(w)'
<1>1. /\ pc[w] = "blob" /\ pc'[w] = "txn" /\ row[w].content \in blobs'
      /\ req'[w] = req[w] /\ row'[w] = row[w] /\ resp'[w] = resp[w]
      /\ UNCHANGED <<req, seen>>
  BY DEF PublishBlob, SkipBlob, Goto, TypeOK
<1>2. HandlerOK(w)'
  BY <1>1 DEF WorkerOK, HandlerOK, Writing
<1>3. SeenOK(w)'
  BY <1>1, SeenKept DEF SeenOK
<1>4. ReplayOK(w)' /\ AnswerOK(w)'
  BY <1>1 DEF WorkerOK, ReplayOK, AnswerOK, Acknowledged, ReadIsCurrent,
     ConflictAnswered
<1>. QED BY <1>2, <1>3, <1>4 DEF WorkerOK

\* Answers that acknowledge nothing keep the invariant of the handler.
LEMMA RefusalsOK ==
  ASSUME TypeOK, TypeOK', NEW w \in Workers, WorkerOK(w), Grows,
         \/ BlobUnavailable(w) \/ Unavailable(w)
         \/ KeyConflict(w, "create", "POST") \/ KeyConflict(w, "save", "PUT")
         \/ SaveNotFound(w) \/ DeleteTxn(w)
  PROVE  WorkerOK(w)'
<1>. USE DEF Reply, Goto, TypeOK, Bare, Response
<1>1. CASE BlobUnavailable(w)
  BY <1>1, RefusalOK DEF BlobUnavailable
<1>2. CASE Unavailable(w)
  BY <1>2, RefusalOK DEF Unavailable
<1>3. CASE KeyConflict(w, "create", "POST") \/ KeyConflict(w, "save", "PUT")
  BY <1>3, RefusalOK DEF KeyConflict
<1>4. CASE SaveNotFound(w)
  BY <1>4, RefusalOK DEF SaveNotFound
<1>5. CASE DeleteTxn(w)
  BY <1>5, RefusalOK DEF DeleteTxn
<1>. QED BY <1>1, <1>2, <1>3, <1>4, <1>5

-----------------------------------------------------------------------------
(* The rows that the code looks up are there, and there is one of each. *)

\* The rows a ledger entry names exist: a replay never finds them missing.
LEMMA LedgerRows ==
  ASSUME TypeOK, TablesOK, NEW i \in idempotency
  PROVE  /\ i.notebook \in NotebookIds
         /\ notebooks[i.notebook].status # "absent"
         /\ RevisionRow(i.notebook, i.revision)
              = {[notebook |-> i.notebook, revision |-> i.revision,
                  content |-> i.content]}
         /\ RowsPresent(i)
<1> DEFINE v == [notebook |-> i.notebook, revision |-> i.revision,
                 content |-> i.content]
<1>1. i \in IdempotencyRows /\ i.notebook \in NotebookIds
  BY DEF TypeOK, IdempotencyRows
<1>2. v \in revisions
  BY DEF TablesOK, NoLostUpdate
<1>3. HistoryComplete1(i.notebook)
  BY <1>1 DEF TablesOK, HistoryComplete
<1>4. i.revision \in 1 .. notebooks[i.notebook].head
  BY <1>2, <1>3 DEF HistoryComplete1
<1>5. notebooks[i.notebook].head \in Nat /\ notebooks[i.notebook].head # 0
  BY <1>1, <1>4 DEF TypeOK, NotebookRows
<1>6. notebooks[i.notebook].status # "absent"
  BY <1>1, <1>5 DEF TablesOK, HeadZero
<1>7. \A u \in RevisionRow(i.notebook, i.revision) : u = v
  BY <1>2, <1>3 DEF HistoryComplete1, RevisionRow
<1>8. RevisionRow(i.notebook, i.revision) = {v}
  BY <1>2, <1>7 DEF RevisionRow
<1>. QED BY <1>1, <1>6, <1>8 DEF RowsPresent

\* Every revision number up to the head has its row.
LEMMA HeadRow ==
  ASSUME TypeOK, TablesOK, NEW n \in NotebookIds,
         NEW r \in 1 .. notebooks[n].head
  PROVE  RevisionRow(n, r) # {}
BY DEF TablesOK, HistoryComplete, HistoryComplete1, RevisionRow

\* A notebook that exists has a head of at least 1.
LEMMA LiveHead ==
  ASSUME TypeOK, TablesOK, NEW n \in NotebookIds,
         notebooks[n].status # "absent"
  PROVE  notebooks[n].head \in 1 .. notebooks[n].head
BY DEF TypeOK, NotebookRows, TablesOK, HeadZero

-----------------------------------------------------------------------------

\* The conflict answer of save_notebook names a committed head.
LEMMA ConflictOK ==
  ASSUME TypeOK, TypeOK', TablesOK, NEW w \in Workers, WorkerOK(w), Grows,
         SaveConflict(w)
  PROVE  WorkerOK(w)'
<1> DEFINE n == req[w].notebook
           h == notebooks[n].head
<1>1. /\ req[w].op = "save" /\ pc[w] = "txn" /\ notebooks[n].status = "live"
      /\ h # req[w].base /\ UNCHANGED <<blobs, tables, req, row, seen>>
      /\ Reply(w, "txn", Response("revision_conflict", n, h,
                                  notebooks[n].content))
  BY DEF SaveConflict, FreshSave, InTxn
<1>2. /\ pc'[w] = "done"
      /\ resp'[w] = Response("revision_conflict", n, h, notebooks[n].content)
  BY <1>1 DEF Reply, Goto, TypeOK
<1>3. n \in NotebookIds /\ n # None
  <2>1. req[w] \in Requests
    BY DEF TypeOK
  <2>2. n \in NotebookIds
    BY <1>1, <2>1, RequestForms, SaveFields
  <2>. QED BY <2>2, ConstantsAssumption
<1>4. RevisionRow(n, h) # {}
  BY <1>1, <1>3, HeadRow, LiveHead
<1>5. PICK v \in revisions : v.notebook = n /\ v.revision = h
  BY <1>4 DEF RevisionRow
<1>6. v = [notebook |-> n, revision |-> h, content |-> notebooks[n].content]
  <2>1. HistoryComplete1(n)
    BY <1>3 DEF TablesOK, HistoryComplete
  <2>2. v.content = notebooks[n].content
    BY <1>5, <2>1 DEF HistoryComplete1
  <2>3. v \in RevisionRows
    BY DEF TypeOK
  <2>. QED BY <1>5, <2>2, <2>3 DEF RevisionRows
<1>7. seen[w].head <= h /\ seen[w].head \in Nat /\ h \in Nat
  BY <1>1, <1>3 DEF WorkerOK, SeenOK, TypeOK, NotebookRows
<1>8. ConflictAnswered(w)'
  BY <1>1, <1>2, <1>5, <1>6, <1>7 DEF ConflictAnswered, Response, tables
<1>9. HandlerOK(w)' /\ ReplayOK(w)' /\ AnswerOK(w)'
  BY <1>1, <1>2, <1>8 DEF HandlerOK, ReplayOK, AnswerOK, Acknowledged,
                         ReadIsCurrent, Response
<1>10. SeenOK(w)'
  BY <1>1, <1>2, SeenKept DEF SeenOK
<1>. QED BY <1>9, <1>10 DEF WorkerOK

\* A replay answers with what the ledger recorded.
LEMMA ReplaysOK ==
  ASSUME TypeOK, TypeOK', TablesOK, NEW w \in Workers, WorkerOK(w), Grows,
         CreateReplay(w) \/ SaveReplay(w)
  PROVE  WorkerOK(w)'
<1>1. CASE SaveReplay(w)
  <2>1. PICK i \in idempotency :
          /\ Replayed(w, "save", "PUT", i)
          /\ Reply(w, "txn",
                   IF RowsPresent(i)
                   THEN Response(IF i.unchanged THEN "unchanged" ELSE "saved",
                                 i.notebook, i.revision, i.content)
                   ELSE Bare("internal_error"))
          /\ UNCHANGED <<blobs, tables, req, row, seen>>
    BY <1>1 DEF SaveReplay
  <2>2. /\ resp'[w] = Response(IF i.unchanged THEN "unchanged" ELSE "saved",
                               i.notebook, i.revision, i.content)
        /\ pc[w] = "txn" /\ pc'[w] = "done"
    BY <2>1, LedgerRows DEF Reply, Goto, TypeOK
  <2>3. /\ i \in idempotency' /\ i.scope = "PUT" /\ i.key = req[w].key
        /\ i.hash = RequestHash(req[w]) /\ req[w].op = "save"
    BY <2>1 DEF Replayed, InTxn, Recorded, tables
  <2>4. i.unchanged \in BOOLEAN
    BY DEF TypeOK, IdempotencyRows
  <2>5. /\ resp'[w].status \in {"created", "saved", "unchanged"}
        /\ i.unchanged <=> resp'[w].status = "unchanged"
        /\ resp'[w].notebook = i.notebook /\ resp'[w].revision = i.revision
        /\ resp'[w].content = i.content
    BY <2>2, <2>4 DEF Response
  <2>. QED BY <2>1, <2>2, <2>3, <2>5, SuccessOK
<1>2. CASE CreateReplay(w)
  <2>1. PICK i \in idempotency :
          /\ Replayed(w, "create", "POST", i)
          /\ RowsPresent(i) =>
               /\ \E v \in RevisionRow(i.notebook, i.revision) :
                    row' = [row EXCEPT ![w] = v]
               /\ Goto(w, "txn", "content")
               /\ UNCHANGED resp
          /\ UNCHANGED <<blobs, tables, req, seen>>
    BY <1>2 DEF CreateReplay
  <2> DEFINE v == [notebook |-> i.notebook, revision |-> i.revision,
                   content |-> i.content]
  <2>2. RowsPresent(i) /\ RevisionRow(i.notebook, i.revision) = {v}
    BY LedgerRows
  <2>3. /\ row' = [row EXCEPT ![w] = v] /\ pc[w] = "txn" /\ pc'[w] = "content"
        /\ resp' = resp /\ req' = req /\ seen' = seen
    BY <2>1, <2>2 DEF Goto, TypeOK
  <2>4. row'[w] = v /\ v \in revisions'
    BY <2>1, <2>2, <2>3 DEF RevisionRow, TypeOK, tables
  <2>5. /\ i \in Recorded("POST", req[w].key)' /\ req[w].op = "create"
        /\ i.hash = RequestHash(req[w])
    BY <2>1, <2>3 DEF Replayed, InTxn, Recorded, tables
  <2>6. HandlerOK(w)'
    BY <2>3, <2>4, <2>5 DEF HandlerOK
  <2>7. SeenOK(w)'
    BY <2>3, <2>5, SeenKept DEF SeenOK
  <2>8. ReplayOK(w)'
    BY <2>3, <2>4, <2>5 DEF ReplayOK, Recorded, RequestHash
  <2>9. AnswerOK(w)'
    BY <2>3 DEF WorkerOK, AnswerOK, Acknowledged, ReadIsCurrent,
       ConflictAnswered
  <2>. QED BY <2>6, <2>7, <2>8, <2>9 DEF WorkerOK
<1>. QED BY <1>1, <1>2

\* A commit answers with the ledger entry it has just inserted.
LEMMA CommitsOK ==
  ASSUME TypeOK, TypeOK', TablesOK, NEW w \in Workers, WorkerOK(w), Grows,
         CreateCommit(w) \/ SaveUnchanged(w) \/ SaveCommit(w)
  PROVE  WorkerOK(w)'
<1>1. CASE CreateCommit(w)
  <2>1. PICK n \in NotebookIds :
          /\ InsertIdempotency(w, "POST", n, 1, row[w].content, FALSE)
          /\ Reply(w, "txn", Response("created", n, 1, row[w].content))
          /\ req[w].op = "create"
          /\ UNCHANGED <<req, seen>>
    BY <1>1 DEF CreateCommit, InTxn
  <2> DEFINE i == Entry(w, "POST", n, 1, row[w].content, FALSE)
  <2>2. i \in idempotency'
    BY <2>1 DEF Entry, InsertIdempotency
  <2>3. /\ resp'[w] = Response("created", n, 1, row[w].content)
        /\ pc[w] = "txn" /\ pc'[w] = "done"
    BY <2>1 DEF Reply, Goto, TypeOK
  <2>. QED BY <2>1, <2>2, <2>3, SuccessOK DEF Entry, Response
<1>2. CASE SaveUnchanged(w) \/ SaveCommit(w)
  <2> DEFINE n == req[w].notebook
             h == notebooks[n].head
  <2>1. /\ req[w].op = "save" /\ pc[w] = "txn"
        /\ notebooks[n].status = "live"
    BY <1>2 DEF SaveUnchanged, SaveCommit, SaveCurrent, FreshSave, InTxn
  <2>2. n \in NotebookIds
    BY <2>1, RequestForms, SaveFields DEF TypeOK
  <2>3. RevisionRow(n, h) # {}
    BY <2>1, <2>2, HeadRow, LiveHead
  <2>4. CASE SaveUnchanged(w)
    <3>1. /\ InsertIdempotency(w, "PUT", n, h, notebooks[n].content, TRUE)
          /\ Reply(w, "txn", Response("unchanged", n, h, notebooks[n].content))
          /\ UNCHANGED <<req, seen>>
      BY <2>3, <2>4 DEF SaveUnchanged
    <3> DEFINE i == Entry(w, "PUT", n, h, notebooks[n].content, TRUE)
    <3>2. i \in idempotency'
      BY <3>1 DEF Entry, InsertIdempotency
    <3>3. /\ resp'[w] = Response("unchanged", n, h, notebooks[n].content)
          /\ pc'[w] = "done"
      BY <3>1 DEF Reply, Goto, TypeOK
    <3>. QED BY <2>1, <3>1, <3>2, <3>3, SuccessOK DEF Entry, Response
  <2>5. CASE SaveCommit(w)
    <3>1. /\ InsertIdempotency(w, "PUT", n, h + 1, row[w].content, FALSE)
          /\ Reply(w, "txn", Response("saved", n, h + 1, row[w].content))
          /\ UNCHANGED <<req, seen>>
      BY <2>3, <2>5 DEF SaveCommit
    <3> DEFINE i == Entry(w, "PUT", n, h + 1, row[w].content, FALSE)
    <3>2. i \in idempotency'
      BY <3>1 DEF Entry, InsertIdempotency
    <3>3. /\ resp'[w] = Response("saved", n, h + 1, row[w].content)
          /\ pc'[w] = "done"
      BY <3>1 DEF Reply, Goto, TypeOK
    <3>. QED BY <2>1, <3>1, <3>2, <3>3, SuccessOK DEF Entry, Response
  <2>. QED BY <1>2, <2>4, <2>5
<1>. QED BY <1>1, <1>2

\* The handler of a GET has a notebook to read.
LEMMA ReaderNotebook ==
  ASSUME TypeOK, NEW w \in Workers, req[w].op \in {"get", "revision"}
  PROVE  req[w].notebook \in NotebookIds /\ req[w].notebook # None
<1>1. req[w] \in Requests
  BY DEF TypeOK
<1>2. req[w].notebook \in NotebookIds
  BY <1>1, RequestForms, ReadFields
<1>. QED BY <1>2, ConstantsAssumption

\* The first transaction of a GET notes a revision no older than the request.
LEMMA ReadNotebookOK ==
  ASSUME TypeOK, TypeOK', TablesOK, NEW w \in Workers, WorkerOK(w), Grows,
         ReadNotebook(w)
  PROVE  WorkerOK(w)'
<1> DEFINE n == req[w].notebook
<1>1. /\ pc[w] = "notebook" /\ UNCHANGED <<blobs, tables, req, seen>>
      /\ req[w].op \in {"get", "revision"}
  BY DEF ReadNotebook, WorkerOK, HandlerOK
<1>2. n \in NotebookIds /\ n # None
  BY <1>1, ReaderNotebook
<1>3. CASE notebooks[n].status # "live"
  <2>1. resp'[w] = Bare("not_found") /\ pc'[w] = "done"
    BY <1>3 DEF ReadNotebook, Reply, Goto, TypeOK
  <2>. QED BY <1>1, <2>1, RefusalOK DEF Bare, Response
<1>4. CASE notebooks[n].status = "live"
  <2>1. /\ pc'[w] = "revision" /\ resp'[w] = resp[w]
        /\ row'[w].notebook = n
        /\ req[w].op = "get" => row'[w].revision = notebooks[n].head
    BY <1>4 DEF ReadNotebook, Goto, TypeOK
  <2>2. notebooks[n].head \in 1 .. notebooks[n].head
    BY <1>2, <1>4, LiveHead
  <2>3. HandlerOK(w)'
    BY <1>1, <1>4, <2>1, <2>2 DEF HandlerOK, tables
  <2>4. SeenOK(w)'
    <3>1. seen[w].head <= notebooks[n].head /\ seen[w].status # "deleted"
      BY <1>1, <1>2, <1>4 DEF WorkerOK, SeenOK
    <3>2. seen[w].head \in Nat /\ notebooks[n].head \in Nat
      BY <1>2 DEF TypeOK, NotebookRows
    <3>. QED BY <1>1, <1>2, <2>1, <3>1, <3>2, SeenKept DEF SeenOK
  <2>5. ReplayOK(w)' /\ AnswerOK(w)'
    BY <1>1, <2>1 DEF WorkerOK, ReplayOK, AnswerOK, Acknowledged,
       ReadIsCurrent, ConflictAnswered
  <2>. QED BY <2>3, <2>4, <2>5 DEF WorkerOK
<1>. QED BY <1>3, <1>4

\* The second transaction of a GET finds the revision row it noted.
LEMMA ReadRevisionOK ==
  ASSUME TypeOK, TypeOK', TablesOK, NEW w \in Workers, WorkerOK(w), Grows,
         ReadRevision(w)
  PROVE  WorkerOK(w)'
<1> DEFINE found == RevisionRow(row[w].notebook, row[w].revision)
<1>1. /\ pc[w] = "revision" /\ UNCHANGED <<blobs, tables, req, seen>>
      /\ req[w].op \in {"get", "revision"}
      /\ row[w].notebook = req[w].notebook
      /\ notebooks[row[w].notebook].status # "absent"
  BY DEF ReadRevision, WorkerOK, HandlerOK
<1>2. req[w].notebook \in NotebookIds /\ req[w].notebook # None
  BY <1>1, ReaderNotebook
<1>3. CASE found = {}
  <2>1. req[w].op = "revision"
    <3> SUFFICES ASSUME req[w].op = "get" PROVE FALSE
      BY <1>1
    <3>1. row[w].revision \in 1 .. notebooks[row[w].notebook].head
      BY <1>1 DEF WorkerOK, HandlerOK
    <3>. QED BY <1>1, <1>2, <1>3, <3>1, HeadRow
  <2>2. resp'[w] = Bare("not_found") /\ pc'[w] = "done"
    BY <1>3, <2>1 DEF ReadRevision, Reply, Goto, TypeOK
  <2>. QED BY <1>1, <2>2, RefusalOK DEF Bare, Response
<1>4. CASE found # {}
  <2>1. PICK v \in found :
          /\ row' = [row EXCEPT ![w] = v]
          /\ IF v.revision = req[w].etag
             THEN Reply(w, "revision", Response("not_modified", v.notebook,
                                                v.revision, None))
             ELSE Goto(w, "revision", "content") /\ UNCHANGED resp
    BY <1>4 DEF ReadRevision
  <2>2. /\ v \in revisions /\ v.notebook = req[w].notebook
        /\ v.revision = row[w].revision /\ row'[w] = v
    BY <1>1, <2>1 DEF RevisionRow, TypeOK
  <2>3. req[w].op = "get" => /\ seen[w].status # "deleted"
                             /\ v.revision >= seen[w].head
    BY <1>1, <2>2 DEF WorkerOK, SeenOK
  <2>4. CASE v.revision = req[w].etag
    <3>1. /\ pc'[w] = "done"
          /\ resp'[w] = Response("not_modified", v.notebook, v.revision, None)
      BY <2>1, <2>4 DEF Reply, Goto, TypeOK
    <3>2. ReadIsCurrent(w)'
      BY <1>1, <2>2, <2>3, <3>1 DEF ReadIsCurrent, Response, tables
    <3>3. HandlerOK(w)' /\ ReplayOK(w)' /\ AnswerOK(w)'
      BY <3>1, <3>2 DEF HandlerOK, ReplayOK, AnswerOK, Acknowledged,
                               ConflictAnswered, Response
    <3>4. SeenOK(w)'
      BY <1>1, <3>1, SeenKept DEF SeenOK
    <3>. QED BY <3>3, <3>4 DEF WorkerOK
  <2>5. CASE v.revision # req[w].etag
    <3>1. pc'[w] = "content" /\ resp'[w] = resp[w]
      BY <2>1, <2>5 DEF Goto, TypeOK
    <3>2. HandlerOK(w)'
      BY <1>1, <2>2, <3>1 DEF HandlerOK, tables
    <3>3. SeenOK(w)'
      BY <1>1, <2>2, <2>3, <3>1, SeenKept DEF SeenOK
    <3>4. ReplayOK(w)' /\ AnswerOK(w)'
      BY <1>1, <3>1 DEF WorkerOK, ReplayOK, AnswerOK, Acknowledged,
         ReadIsCurrent, ConflictAnswered
    <3>. QED BY <3>2, <3>3, <3>4 DEF WorkerOK
  <2>. QED BY <2>4, <2>5
<1>. QED BY <1>3, <1>4

\* The blob of a committed revision is there to be read.
LEMMA ReadContentOK ==
  ASSUME TypeOK, TypeOK', TablesOK, NEW w \in Workers, WorkerOK(w), Grows,
         ReadContent(w)
  PROVE  WorkerOK(w)'
<1> DEFINE v == row[w]
<1>1. /\ pc[w] = "content" /\ pc'[w] = "done"
      /\ UNCHANGED <<blobs, tables, req, row, seen>>
  BY DEF ReadContent, Reply, Goto, TypeOK
<1>2. v \in revisions /\ req[w].op \in {"create", "get", "revision"}
  BY <1>1 DEF WorkerOK, HandlerOK
<1>3. v.content \in blobs
  BY <1>2 DEF TablesOK, RevisionsReadable
<1>4. resp'[w] = Response(IF req[w].op = "create" THEN "created" ELSE "ok",
                          v.notebook, v.revision, v.content)
  BY <1>3 DEF ReadContent, Reply, TypeOK
<1>5. CASE req[w].op = "create"
  <2>1. PICK i \in Recorded("POST", req[w].key) :
          /\ i.hash = RequestHash(req[w]) /\ i.notebook = v.notebook
          /\ i.revision = v.revision /\ i.content = v.content
    BY <1>1, <1>5 DEF WorkerOK, ReplayOK
  <2>2. i \in idempotency' /\ i.scope = "POST" /\ i.key = req[w].key
    BY <1>1, <2>1 DEF Recorded, tables
  <2>3. ~ i.unchanged
    BY <2>1 DEF TablesOK, PostsCreate, Recorded
  <2>. QED BY <1>1, <1>4, <1>5, <2>1, <2>2, <2>3, SuccessOK DEF Response
<1>6. CASE req[w].op \in {"get", "revision"}
  <2>1. HandlerOK(w)' /\ ReplayOK(w)'
    BY <1>1 DEF HandlerOK, ReplayOK
  <2>2. SeenOK(w)'
    BY <1>1, SeenKept DEF SeenOK
  <2>3. ReadIsCurrent(w)'
    BY <1>1, <1>2, <1>4 DEF WorkerOK, SeenOK, ReadIsCurrent, Response, tables
  <2>4. AnswerOK(w)'
    BY <1>1, <1>4, <1>6, <2>3 DEF AnswerOK, Acknowledged,
                               ConflictAnswered, Response
  <2>. QED BY <2>1, <2>2, <2>4 DEF WorkerOK
<1>. QED BY <1>2, <1>5, <1>6

-----------------------------------------------------------------------------
(* The invariant is inductive. *)

\* A worker that takes a step keeps its own invariant.
LEMMA MovingWorkerOK ==
  ASSUME TypeOK, TypeOK', TablesOK, NEW w \in Workers, WorkerOK(w), Grows,
         Step(w), ~ Respond(w)
  PROVE  WorkerOK(w)'
BY AcceptsOK, BlobOK, RefusalsOK, ConflictOK, ReplaysOK, CommitsOK,
   ReadNotebookOK,
   ReadRevisionOK, ReadContentOK DEF Step

\* The inductive invariant holds in the initial state.
LEMMA InitIInv == Init => IInv
<1> SUFFICES ASSUME Init PROVE IInv
  OBVIOUS
<1>1. ASSUME NEW w \in Workers PROVE WorkerOK(w)
  BY DEF Init, WorkerOK, HandlerOK, Writing, SeenOK, ReplayOK, AnswerOK,
         Acknowledged, ReadIsCurrent, ConflictAnswered, NoRequest, Bare,
         Response
<1>. QED BY <1>1, InitType, InitTables DEF IInv

\* Every step of the service keeps the inductive invariant.
LEMMA StepIInv == IInv /\ [Next]_vars => IInv'
<1> SUFFICES ASSUME IInv, [Next]_vars PROVE IInv'
  OBVIOUS
<1>1. TypeOK /\ TablesOK /\ \A w \in Workers : WorkerOK(w) /\ HandlerOK(w)
  BY DEF IInv, WorkerOK
<1>2. TypeOK'
  BY <1>1, TypeStep
<1>3. TableStep
  BY <1>1, StepIsTableStep
<1>4. TablesOK'
  BY <1>1, <1>3, TablesStep
<1>5. Grows
  BY <1>1, <1>3, TableStepGrows DEF TablesOK
<1>6. ASSUME NEW w \in Workers, Step(w), ~ Respond(w), NEW u \in Workers
      PROVE  WorkerOK(u)'
  <2>1. CASE u = w
    BY <1>1, <1>2, <1>5, <1>6, <2>1, MovingWorkerOK
  <2>2. CASE u # w
    BY <1>1, <1>2, <1>5, <1>6, <2>2, Frame, WorkerKept
  <2>. QED BY <2>1, <2>2
<1>7. ASSUME NEW ws \in SUBSET Workers, Clear(ws), NEW u \in Workers
      PROVE  WorkerOK(u)'
  BY <1>1, <1>2, <1>5, <1>7, ClearFrame, IdleOK, WorkerKept
<1>8. ASSUME UNCHANGED vars, NEW u \in Workers
      PROVE  WorkerOK(u)'
  BY <1>1, <1>2, <1>5, <1>8, WorkerKept DEF vars
<1>9. ASSUME NEW u \in Workers PROVE WorkerOK(u)'
  BY <1>6, <1>7, <1>8 DEF Next, Respond, Crash
<1>. QED BY <1>2, <1>4, <1>9 DEF IInv

\* The strengthening of all the invariants below: the tables alone, and what
\* each handler remembers against the tables it will use next.
THEOREM Invariance == Spec => []IInv
<1>. QED BY InitIInv, StepIInv, PTL DEF Spec

-----------------------------------------------------------------------------
(* The properties of NotebookService, for every instance. *)

\* Every variable keeps the shape of the tables and handlers it stands for.
THEOREM TypeCorrect == Spec => []TypeOK
<1>1. IInv => TypeOK
  BY DEF IInv
<1>. QED BY <1>1, Invariance, PTL

\* The revision rows of a notebook are 1 .. current_revision, once each, under
\* any interleaving of saves, retries, deletions and crashes.
THEOREM HistoryIsComplete == Spec => []HistoryComplete
<1>1. IInv => HistoryComplete
  BY DEF IInv, TablesOK
<1>. QED BY <1>1, Invariance, PTL

\* A committed revision never names a blob that is not published.
THEOREM BlobBeforeMetadata == Spec => []RevisionsReadable
<1>1. IInv => RevisionsReadable
  BY DEF IInv, TablesOK
<1>. QED BY <1>1, Invariance, PTL

\* An Idempotency-Key takes effect at most once.
THEOREM KeysTakeEffectOnce == Spec => []ExactlyOnce
<1>1. IInv => ExactlyOnce
  BY DEF IInv, TablesOK
<1>. QED BY <1>1, Invariance, PTL

\* Every recorded PUT wrote on top of the revision its client had read.
THEOREM NothingIsOverwritten == Spec => []NoLostUpdate
<1>1. IInv => NoLostUpdate
  BY DEF IInv, TablesOK
<1>. QED BY <1>1, Invariance, PTL

\* Every success answer is backed by the committed ledger entry of its request.
THEOREM AnswersAreCommitted == Spec => []AcknowledgedIsCommitted
<1>1. IInv => AcknowledgedIsCommitted
  BY DEF IInv, WorkerOK, AnswerOK, AcknowledgedIsCommitted
<1>. QED BY <1>1, Invariance, PTL

\* The integrity failures of the code are unreachable.
THEOREM IntegrityHolds == Spec => []NoInternalError
<1>1. IInv => NoInternalError
  BY DEF IInv, WorkerOK, AnswerOK, NoInternalError
<1>. QED BY <1>1, Invariance, PTL

\* A GET answers with a committed revision no older than the request.
THEOREM ReadsSeeCommitted == Spec => []ReadsAreCurrent
<1>1. IInv => ReadsAreCurrent
  BY DEF IInv, WorkerOK, AnswerOK, ReadsAreCurrent
<1>. QED BY <1>1, Invariance, PTL

\* A 409 names a committed head that is not the client's base.
THEOREM ConflictsAreReal == Spec => []ConflictIsReal
<1>1. IInv => ConflictIsReal
  BY DEF IInv, WorkerOK, AnswerOK, ConflictIsReal
<1>. QED BY <1>1, Invariance, PTL

\* One step of the tables leaves a deleted notebook as it is.
LEMMA DeletedStays ==
  ASSUME TypeOK, TableStep, NEW m \in NotebookIds,
         notebooks[m].status = "deleted"
  PROVE  /\ notebooks'[m] = notebooks[m]
         /\ {v \in revisions' : v.notebook = m}
              = {v \in revisions : v.notebook = m}
<1>1. ASSUME NEW n \in NotebookIds, NEW c \in Contents,
             NEW i \in IdempotencyRows, TableCreate(n, c, i)
      PROVE  /\ notebooks'[m] = notebooks[m] /\ n # m
             /\ revisions' = revisions \union
                  {[notebook |-> n, revision |-> 1, content |-> c]}
  BY <1>1 DEF TableCreate, NewRevision, TypeOK
<1>2. ASSUME NEW n \in NotebookIds, NEW c \in Contents,
             NEW i \in IdempotencyRows, TableSave(n, c, i)
      PROVE  /\ notebooks'[m] = notebooks[m] /\ n # m
             /\ revisions' = revisions \union
                  {[notebook |-> n, revision |-> notebooks[n].head + 1,
                    content |-> c]}
  BY <1>2 DEF TableSave, NewRevision, TypeOK
<1>3. ASSUME NEW n \in NotebookIds, NEW c \in Contents,
             NEW i \in IdempotencyRows, TableConfirm(n, c, i)
      PROVE  notebooks'[m] = notebooks[m] /\ revisions' = revisions
  BY <1>3 DEF TableConfirm
<1>4. ASSUME NEW n \in NotebookIds, TableDelete(n)
      PROVE  notebooks'[m] = notebooks[m] /\ revisions' = revisions
  <2>1. notebooks[m] \in NotebookRows
    BY DEF TypeOK
  <2>2. [notebooks[m] EXCEPT !.status = "deleted"] = notebooks[m]
    BY <2>1 DEF NotebookRows
  <2>. QED BY <1>4, <2>2 DEF TableDelete, TypeOK
<1>5. CASE TableStutter
  BY <1>5 DEF TableStutter, tables
<1>. QED BY <1>1, <1>2, <1>3, <1>4, <1>5 DEF TableStep

\* No save, retry or late request changes a deleted notebook.
THEOREM DeletionIsFinal == Spec => NoResurrection
<1>1. IInv /\ [Next]_vars =>
        [\A n \in NotebookIds :
           notebooks[n].status = "deleted" =>
             /\ notebooks'[n] = notebooks[n]
             /\ {v \in revisions' : v.notebook = n}
                  = {v \in revisions : v.notebook = n}]_vars
  BY StepIsTableStep, DeletedStays DEF IInv, WorkerOK
<1>. QED BY <1>1, Invariance, PTL DEF Spec, NoResurrection

=============================================================================
