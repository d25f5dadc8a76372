----------------------- MODULE NotebookService_proofs ----------------------
(***************************************************************************)
(* Proofs about NotebookService for every set of workers, identifiers,     *)
(* keys and contents.                                                      *)
(***************************************************************************)
EXTENDS NotebookService, TLAPS

USE ConstantsAssumption

(***************************************************************************)
(* What a handler knows at each program counter: the link between its      *)
(* local copies and the shared tables that later steps rely on.            *)
(***************************************************************************)
Writing(w) == req[w].op \in {"create", "save"}

HandlerOK(w) ==
  /\ pc[w] = "blob" => Writing(w)
  /\ pc[w] = "txn" => Writing(w) \/ req[w].op = "delete"
  /\ pc[w] \in {"blob", "txn"} /\ Writing(w) => row[w].content \in Contents
  /\ pc[w] \in {"blob", "txn"} /\ req[w].op = "save"
        => row[w].content = req[w].content
  /\ pc[w] = "txn" /\ Writing(w) => row[w].content \in blobs
  /\ pc[w] \in {"notebook", "revision"} => req[w].op \in {"get", "revision"}
  /\ pc[w] = "revision" => /\ row[w].notebook = req[w].notebook
                           /\ notebooks[row[w].notebook].status # "absent"
  /\ pc[w] = "revision" /\ req[w].op = "get"
        => row[w].revision \in 1 .. notebooks[row[w].notebook].head
  /\ pc[w] = "content" => row[w] \in revisions
  /\ pc[w] = "content" => req[w].op \in {"create", "get", "revision"}

-----------------------------------------------------------------------------
(* The table of the request forms, one fact per operation. *)

\* The operation of a request names the form it was built from, as the routes do.
LEMMA RequestForms ==
  ASSUME NEW q \in Requests
  PROVE  /\ q.op = "create" => q \in CreateRequests
         /\ q.op = "save" => q \in SaveRequests
         /\ q.op = "delete" => q \in DeleteRequests
         /\ q.op = "get" => q \in GetRequests
         /\ q.op = "revision" => q \in RevisionRequests
BY DEF Requests, CreateRequests, SaveRequests, DeleteRequests, GetRequests,
       RevisionRequests, RequestsOf, NoRequest

\* A POST carries a create key and a body, and no notebook id or base revision.
LEMMA CreateFields ==
  ASSUME NEW q \in CreateRequests
  PROVE  /\ q \in Requests /\ q.op = "create"
         /\ q.key \in CreateKeys /\ q.key \in Keys
         /\ q.notebook = None /\ q.base = 0 /\ q.content \in OrNone(Contents)
<1>1. q \in Requests
  BY DEF Requests
<1>. QED BY <1>1 DEF CreateRequests, RequestsOf, Keys

\* A PUT carries a save key, a notebook id, a base revision and a document.
LEMMA SaveFields ==
  ASSUME NEW q \in SaveRequests
  PROVE  /\ q \in Requests /\ q.op = "save"
         /\ q.key \in SaveKeys /\ q.key \in Keys
         /\ q.notebook \in NotebookIds /\ q.base \in BaseRevisions
         /\ q.base \in Nat /\ q.content \in Contents
<1>1. q \in Requests
  BY DEF Requests
<1>. QED BY <1>1 DEF SaveRequests, RequestsOf, Keys

\* A DELETE carries a notebook id.
LEMMA DeleteFields ==
  ASSUME NEW q \in DeleteRequests
  PROVE  q \in Requests /\ q.op = "delete" /\ q.notebook \in NotebookIds
<1>1. q \in Requests
  BY DEF Requests
<1>. QED BY <1>1 DEF DeleteRequests, RequestsOf

\* Both GET routes carry a notebook id.
LEMMA ReadFields ==
  ASSUME NEW q \in GetRequests \union RevisionRequests
  PROVE  /\ q \in Requests /\ q.op \in {"get", "revision"}
         /\ q.notebook \in NotebookIds /\ q.base \in Nat
<1>1. q \in Requests
  BY DEF Requests
<1>2. CASE q \in GetRequests
  BY <1>1, <1>2 DEF GetRequests, RequestsOf
<1>3. CASE q \in RevisionRequests
  BY <1>1, <1>3 DEF RevisionRequests, RequestsOf
<1>. QED BY <1>2, <1>3

\* The service starts with empty tables and idle workers of the right shape.
LEMMA InitType == Init => TypeOK
BY DEF Init, TypeOK, AbsentNotebook, NotebookRows, OrNone, Pcs, Requests,
       NoRevision, Bare, Response, Responses, Statuses

\* Accepting a request keeps the shape of every variable.
LEMMA AcceptType ==
  ASSUME TypeOK, NEW w \in Workers,
         AcceptCreate(w) \/ AcceptSave(w) \/ AcceptDelete(w) \/ AcceptRead(w)
  PROVE  TypeOK'
<1>1. ASSUME NEW q \in Requests, NEW first \in Pcs, Accept(w, q, first),
             NEW d \in OrNone(Contents),
             row' = [row EXCEPT ![w].content = d] \/ UNCHANGED row
      PROVE  TypeOK'
  <2>1. q.op \in {"get", "save"} => q.notebook \in NotebookIds
    BY DEF Requests, CreateRequests, SaveRequests, DeleteRequests,
           GetRequests, RevisionRequests, RequestsOf, NoRequest
  <2>2. AbsentNotebook \in NotebookRows
    BY DEF AbsentNotebook, NotebookRows, OrNone
  <2>3. seen' \in [Workers -> NotebookRows]
    BY <1>1, <2>1, <2>2 DEF Accept, TypeOK
  <2>4. pc' \in [Workers -> Pcs] /\ req' \in [Workers -> Requests]
    BY <1>1 DEF Accept, Goto, TypeOK
  <2>5. row' \in [Workers -> [notebook : OrNone(NotebookIds), revision : Nat,
                              content : OrNone(Contents)]]
    BY <1>1 DEF TypeOK
  <2>. QED BY <1>1, <2>3, <2>4, <2>5 DEF Accept, TypeOK, tables
<1>2. CASE AcceptCreate(w)
  BY <1>1, <1>2, CreateFields DEF AcceptCreate, Pcs, OrNone
<1>3. CASE AcceptSave(w)
  BY <1>1, <1>3, SaveFields DEF AcceptSave, Pcs, OrNone
<1>4. CASE AcceptDelete(w)
  BY <1>1, <1>4, DeleteFields DEF AcceptDelete, Pcs, OrNone
<1>5. CASE AcceptRead(w)
  BY <1>1, <1>5, ReadFields DEF AcceptRead, Pcs, OrNone
<1>. QED BY <1>2, <1>3, <1>4, <1>5

\* An answer leaves pc and resp well shaped.
LEMMA ReplyType ==
  ASSUME TypeOK, NEW w \in Workers, NEW from, NEW r \in Responses,
         Reply(w, from, r)
  PROVE  pc' \in [Workers -> Pcs] /\ resp' \in [Workers -> Responses]
BY DEF TypeOK, Reply, Goto, Pcs

\* Moving on to the next call leaves pc well shaped.
LEMMA GotoType ==
  ASSUME TypeOK, NEW w \in Workers, NEW from, NEW to \in Pcs, Goto(w, from, to)
  PROVE  pc' \in [Workers -> Pcs]
BY DEF TypeOK, Goto

\* An answer without a body is a response.
LEMMA BareType ==
  \A s \in Statuses : Bare(s) \in Responses
BY DEF Bare, Response, Responses, OrNone

\* An answer with a notebook, a revision and a content is a response.
LEMMA ResponseType ==
  ASSUME NEW s \in Statuses, NEW n \in NotebookIds, NEW r \in Nat,
         NEW c \in OrNone(Contents)
  PROVE  Response(s, n, r, c) \in Responses
BY DEF Response, Responses, OrNone

\* The commit steps write rows of the tables' types.
LEMMA CommitType ==
  ASSUME TypeOK, NEW w \in Workers, req[w].key \in Keys,
         req[w].base \in Nat, req[w].content \in OrNone(Contents),
         NEW n \in NotebookIds, NEW r \in Nat, NEW c \in Contents,
         NEW scope \in {"POST", "PUT"}, NEW unchanged \in BOOLEAN
  PROVE  /\ InsertRevision(n, r, c) => revisions' \subseteq RevisionRows
         /\ InsertIdempotency(w, scope, n, r, c, unchanged)
              => idempotency' \subseteq IdempotencyRows
<1>1. RequestHash(req[w]) \in [base : Nat, content : OrNone(Contents)]
  BY DEF RequestHash
<1>. QED BY <1>1 DEF TypeOK, InsertRevision, InsertIdempotency, RevisionRows,
                     IdempotencyRows

\* What a handler of a POST or PUT knows of its request.
LEMMA WriterFields ==
  ASSUME TypeOK, NEW w \in Workers, Writing(w)
  PROVE  /\ req[w].key \in Keys /\ req[w].base \in Nat
         /\ req[w].content \in OrNone(Contents)
         /\ req[w].op = "save" => req[w].notebook \in NotebookIds
<1>1. req[w] \in Requests
  BY DEF TypeOK
<1>2. CASE req[w].op = "create"
  BY <1>1, <1>2, RequestForms, CreateFields
<1>3. CASE req[w].op = "save"
  BY <1>1, <1>3, RequestForms, SaveFields DEF OrNone
<1>. QED BY <1>2, <1>3 DEF Writing

\* Every step keeps the shape of the tables and handlers.
LEMMA TypeStep ==
  ASSUME TypeOK, \A u \in Workers : HandlerOK(u), [Next]_vars
  PROVE  TypeOK'
<1>. USE DEF tables
<1>1. ASSUME NEW w \in Workers,
             AcceptCreate(w) \/ AcceptSave(w) \/ AcceptDelete(w) \/ AcceptRead(w)
      PROVE  TypeOK'
  BY <1>1, AcceptType
<1>2. ASSUME NEW w \in Workers, PublishBlob(w)
      PROVE  TypeOK'
  <2>1. row[w].content \in Contents
    BY <1>2 DEF PublishBlob, HandlerOK, Goto
  <2>2. pc' \in [Workers -> Pcs]
    BY <1>2, GotoType DEF PublishBlob, Pcs
  <2>. QED BY <1>2, <2>1, <2>2 DEF PublishBlob, TypeOK
<1>3. ASSUME NEW w \in Workers, SkipBlob(w)
      PROVE  TypeOK'
  <2>1. pc' \in [Workers -> Pcs]
    BY <1>3, GotoType DEF SkipBlob, Pcs
  <2>. QED BY <1>3, <2>1 DEF SkipBlob, TypeOK
<1>4. ASSUME NEW w \in Workers,
             \/ BlobUnavailable(w)
             \/ KeyConflict(w, "create", "POST")
             \/ KeyConflict(w, "save", "PUT")
             \/ SaveNotFound(w)
             \/ Unavailable(w)
      PROVE  TypeOK'
  <2>1. \E from \in Pcs, s \in Statuses : Reply(w, from, Bare(s))
    <3>1. CASE BlobUnavailable(w)
      BY <3>1 DEF BlobUnavailable, Statuses, Pcs
    <3>2. CASE KeyConflict(w, "create", "POST") \/ KeyConflict(w, "save", "PUT")
      BY <3>2 DEF KeyConflict, Statuses, Pcs
    <3>3. CASE SaveNotFound(w)
      BY <3>3 DEF SaveNotFound, Statuses, Pcs
    <3>4. CASE Unavailable(w)
      BY <3>4 DEF Unavailable, Statuses, Pcs
    <3>. QED BY <1>4, <3>1, <3>2, <3>3, <3>4
  <2>2. pc' \in [Workers -> Pcs] /\ resp' \in [Workers -> Responses]
    BY <2>1, BareType, ReplyType
  <2>3. UNCHANGED <<blobs, tables, req, row, seen>>
    BY <1>4 DEF BlobUnavailable, KeyConflict, SaveNotFound, Unavailable
  <2>. QED BY <2>2, <2>3 DEF TypeOK
<1>5. ASSUME NEW w \in Workers, CreateReplay(w)
      PROVE  TypeOK'
  <2>1. PICK i \in idempotency :
           /\ IF RowsPresent(i)
              THEN /\ \E v \in RevisionRow(i.notebook, i.revision) :
                         row' = [row EXCEPT ![w] = v]
                   /\ Goto(w, "txn", "content")
                   /\ UNCHANGED resp
              ELSE /\ Reply(w, "txn", Bare("internal_error"))
                   /\ UNCHANGED row
           /\ UNCHANGED <<blobs, tables, req, seen>>
    BY <1>5 DEF CreateReplay
  <2>2. CASE RowsPresent(i)
    <3>1. PICK v \in revisions : row' = [row EXCEPT ![w] = v]
      BY <2>1, <2>2 DEF RevisionRow
    <3>2. v \in [notebook : OrNone(NotebookIds), revision : Nat,
                 content : OrNone(Contents)]
      BY <3>1 DEF TypeOK, RevisionRows, OrNone
    <3>3. pc' \in [Workers -> Pcs]
      BY <2>1, <2>2, GotoType DEF Pcs
    <3>. QED BY <2>1, <2>2, <3>1, <3>2, <3>3 DEF TypeOK
  <2>3. CASE ~ RowsPresent(i)
    <3>1. pc' \in [Workers -> Pcs] /\ resp' \in [Workers -> Responses]
      BY <2>1, <2>3, ReplyType, BareType DEF Statuses
    <3>. QED BY <2>1, <2>3, <3>1 DEF TypeOK
  <2>. QED BY <2>2, <2>3
<1>6. ASSUME NEW w \in Workers, CreateCommit(w)
      PROVE  TypeOK'
  <2>1. /\ Writing(w) /\ row[w].content \in Contents
        /\ req[w].key \in Keys /\ req[w].base \in Nat
        /\ req[w].content \in OrNone(Contents)
    <3>1. Writing(w)
      BY <1>6 DEF CreateCommit, InTxn, Writing
    <3>. QED BY <1>6, <3>1, WriterFields DEF CreateCommit, InTxn, HandlerOK
  <2>2. PICK n \in NotebookIds :
          /\ notebooks' = [notebooks EXCEPT ![n] =
                [status |-> "live", head |-> 1, content |-> row[w].content]]
          /\ InsertRevision(n, 1, row[w].content)
          /\ InsertIdempotency(w, "POST", n, 1, row[w].content, FALSE)
          /\ Reply(w, "txn", Response("created", n, 1, row[w].content))
          /\ UNCHANGED <<blobs, req, row, seen>>
    BY <1>6 DEF CreateCommit
  <2>3. notebooks' \in [NotebookIds -> NotebookRows]
    BY <2>1, <2>2 DEF TypeOK, NotebookRows, OrNone
  <2>4. revisions' \subseteq RevisionRows /\ idempotency' \subseteq IdempotencyRows
    BY <2>1, <2>2, CommitType
  <2>5. Response("created", n, 1, row[w].content) \in Responses
    BY <2>1, ResponseType DEF Statuses, OrNone
  <2>6. pc' \in [Workers -> Pcs] /\ resp' \in [Workers -> Responses]
    BY <2>2, <2>5, ReplyType
  <2>. QED BY <2>2, <2>3, <2>4, <2>6 DEF TypeOK
<1>7. ASSUME NEW w \in Workers, SaveReplay(w)
      PROVE  TypeOK'
  <2>1. PICK i \in idempotency :
           Reply(w, "txn",
                 IF RowsPresent(i)
                 THEN Response(IF i.unchanged THEN "unchanged" ELSE "saved",
                               i.notebook, i.revision, i.content)
                 ELSE Bare("internal_error"))
    BY <1>7 DEF SaveReplay
  <2>2. i \in IdempotencyRows
    BY DEF TypeOK
  <2>3. \A s \in Statuses :
          Response(s, i.notebook, i.revision, i.content) \in Responses
    BY <2>2, ResponseType DEF IdempotencyRows, OrNone
  <2>4. pc' \in [Workers -> Pcs] /\ resp' \in [Workers -> Responses]
    <3>1. (IF RowsPresent(i)
           THEN Response(IF i.unchanged THEN "unchanged" ELSE "saved",
                         i.notebook, i.revision, i.content)
           ELSE Bare("internal_error")) \in Responses
      BY <2>3, BareType DEF Statuses
    <3>. QED BY <2>1, <3>1, ReplyType
  <2>. QED BY <1>7, <2>4 DEF SaveReplay, TypeOK
<1>8. ASSUME NEW w \in Workers, SaveConflict(w)
      PROVE  TypeOK'
  <2>1. req[w].notebook \in NotebookIds
    BY <1>8, WriterFields DEF SaveConflict, FreshSave, InTxn, Writing
  <2>2. notebooks[req[w].notebook] \in NotebookRows
    BY <2>1 DEF TypeOK
  <2>3. Response("revision_conflict", req[w].notebook,
                 notebooks[req[w].notebook].head,
                 notebooks[req[w].notebook].content) \in Responses
    BY <2>1, <2>2, ResponseType DEF NotebookRows, Statuses
  <2>4. pc' \in [Workers -> Pcs] /\ resp' \in [Workers -> Responses]
    BY <1>8, <2>3, ReplyType DEF SaveConflict
  <2>. QED BY <1>8, <2>4 DEF SaveConflict, TypeOK
<1>9. ASSUME NEW w \in Workers, SaveUnchanged(w) \/ SaveCommit(w)
      PROVE  TypeOK'
  <2> DEFINE n == req[w].notebook
             h == notebooks[n].head
             c == row[w].content
  <2>1. Writing(w) /\ pc[w] = "txn" /\ req[w].op = "save"
    BY <1>9 DEF SaveUnchanged, SaveCommit, SaveCurrent, FreshSave, InTxn, Writing
  <2>2. /\ n \in NotebookIds /\ c \in Contents /\ c \in OrNone(Contents)
        /\ req[w].key \in Keys /\ req[w].base \in Nat
        /\ req[w].content \in OrNone(Contents)
    BY <2>1, WriterFields DEF HandlerOK, OrNone
  <2>3. h \in Nat /\ h + 1 \in Nat
    BY <2>2 DEF TypeOK, NotebookRows
  <2>4. /\ Bare("internal_error") \in Responses
        /\ Response("saved", n, h + 1, c) \in Responses
        /\ Response("unchanged", n, h, c) \in Responses
    BY <2>2, <2>3, BareType, ResponseType DEF Statuses
  <2>5. CASE SaveUnchanged(w)
    <3>1. CASE RevisionRow(n, h) # {}
      <4>1. pc' \in [Workers -> Pcs] /\ resp' \in [Workers -> Responses]
        BY <2>4, <2>5, <3>1, ReplyType DEF SaveUnchanged
      <4>2. idempotency' \subseteq IdempotencyRows
        BY <2>2, <2>3, <2>5, <3>1, CommitType DEF SaveUnchanged
      <4>. QED BY <2>5, <4>1, <4>2 DEF SaveUnchanged, TypeOK
    <3>2. CASE ~ (RevisionRow(n, h) # {})
      <4>1. pc' \in [Workers -> Pcs] /\ resp' \in [Workers -> Responses]
        BY <2>4, <2>5, <3>2, ReplyType DEF SaveUnchanged
      <4>. QED BY <2>5, <3>2, <4>1 DEF SaveUnchanged, TypeOK
    <3>. QED BY <3>1, <3>2
  <2>6. CASE SaveCommit(w)
    <3>1. CASE RevisionRow(n, h) # {}
      <4>1. pc' \in [Workers -> Pcs] /\ resp' \in [Workers -> Responses]
        BY <2>4, <2>6, <3>1, ReplyType DEF SaveCommit
      <4>2. /\ idempotency' \subseteq IdempotencyRows
            /\ revisions' \subseteq RevisionRows
        BY <2>2, <2>3, <2>6, <3>1, CommitType DEF SaveCommit
      <4>3. notebooks' \in [NotebookIds -> NotebookRows]
        BY <2>2, <2>3, <2>6, <3>1 DEF SaveCommit, TypeOK, NotebookRows
      <4>. QED BY <2>6, <4>1, <4>2, <4>3 DEF SaveCommit, TypeOK
    <3>2. CASE ~ (RevisionRow(n, h) # {})
      <4>1. pc' \in [Workers -> Pcs] /\ resp' \in [Workers -> Responses]
        BY <2>4, <2>6, <3>2, ReplyType DEF SaveCommit
      <4>. QED BY <2>6, <3>2, <4>1 DEF SaveCommit, TypeOK
    <3>. QED BY <3>1, <3>2
  <2>. QED BY <1>9, <2>5, <2>6
<1>10. ASSUME NEW w \in Workers, DeleteTxn(w)
       PROVE  TypeOK'
  <2>1. req[w].notebook \in NotebookIds
    <3>1. req[w] \in DeleteRequests
      BY <1>10, RequestForms DEF DeleteTxn, InTxn, TypeOK
    <3>. QED BY <3>1, DeleteFields
  <2>2. notebooks' \in [NotebookIds -> NotebookRows]
    BY <1>10, <2>1 DEF DeleteTxn, TypeOK, NotebookRows
  <2>3. /\ Bare("not_found") \in Responses
        /\ Response("deleted", req[w].notebook, 0, None) \in Responses
    BY <2>1, BareType, ResponseType DEF Statuses, OrNone
  <2>4. pc' \in [Workers -> Pcs] /\ resp' \in [Workers -> Responses]
    BY <1>10, <2>3, ReplyType DEF DeleteTxn
  <2>. QED BY <1>10, <2>2, <2>4 DEF DeleteTxn, TypeOK
<1>11. ASSUME NEW w \in Workers, ReadNotebook(w)
       PROVE  TypeOK'
  <2>1. req[w] \in GetRequests \union RevisionRequests
    BY <1>11, RequestForms DEF ReadNotebook, HandlerOK, TypeOK
  <2>2. req[w].notebook \in NotebookIds /\ req[w].base \in Nat
    BY <2>1, ReadFields
  <2>3. notebooks[req[w].notebook].head \in Nat
    BY <2>2 DEF TypeOK, NotebookRows
  <2>4. CASE notebooks[req[w].notebook].status # "live"
    <3>1. pc' \in [Workers -> Pcs] /\ resp' \in [Workers -> Responses]
      BY <1>11, <2>4, ReplyType, BareType DEF ReadNotebook, Statuses
    <3>. QED BY <1>11, <2>4, <3>1 DEF ReadNotebook, TypeOK
  <2>5. CASE ~ (notebooks[req[w].notebook].status # "live")
    <3>1. pc' \in [Workers -> Pcs]
      BY <1>11, <2>5, GotoType DEF ReadNotebook, Pcs
    <3>2. row' \in [Workers -> [notebook : OrNone(NotebookIds), revision : Nat,
                                content : OrNone(Contents)]]
      BY <1>11, <2>2, <2>3, <2>5 DEF ReadNotebook, TypeOK, OrNone
    <3>. QED BY <1>11, <2>5, <3>1, <3>2 DEF ReadNotebook, TypeOK
  <2>. QED BY <2>4, <2>5
<1>12. ASSUME NEW w \in Workers, ReadRevision(w)
       PROVE  TypeOK'
  <2> DEFINE found == RevisionRow(row[w].notebook, row[w].revision)
  <2>1. CASE found = {}
    <3>1. pc' \in [Workers -> Pcs] /\ resp' \in [Workers -> Responses]
      <4>1. Bare(IF req[w].op = "get" THEN "internal_error" ELSE "not_found")
              \in Responses
        BY BareType DEF Statuses
      <4>. QED BY <1>12, <2>1, <4>1, ReplyType DEF ReadRevision
    <3>. QED BY <1>12, <2>1, <3>1 DEF ReadRevision, TypeOK
  <2>2. CASE ~ (found = {})
    <3>1. PICK v \in found :
             /\ row' = [row EXCEPT ![w] = v]
             /\ IF v.revision = req[w].etag
                THEN Reply(w, "revision", Response("not_modified", v.notebook,
                                                   v.revision, None))
                ELSE Goto(w, "revision", "content") /\ UNCHANGED resp
      BY <1>12, <2>2 DEF ReadRevision
    <3>2. v \in RevisionRows
      BY <3>1 DEF RevisionRow, TypeOK
    <3>3. row' \in [Workers -> [notebook : OrNone(NotebookIds), revision : Nat,
                                content : OrNone(Contents)]]
      BY <3>1, <3>2 DEF TypeOK, RevisionRows, OrNone
    <3>4. Response("not_modified", v.notebook, v.revision, None) \in Responses
      BY <3>2, ResponseType DEF RevisionRows, Statuses, OrNone
    <3>5. pc' \in [Workers -> Pcs] /\ resp' \in [Workers -> Responses]
      BY <3>1, <3>4, ReplyType, GotoType DEF Pcs, TypeOK
    <3>. QED BY <1>12, <3>3, <3>5 DEF ReadRevision, TypeOK
  <2>. QED BY <2>1, <2>2
<1>13. ASSUME NEW w \in Workers, ReadContent(w)
       PROVE  TypeOK'
  <2>1. row[w] \in RevisionRows
    BY <1>13 DEF ReadContent, Reply, Goto, HandlerOK, TypeOK
  <2>2. \A s \in Statuses :
          Response(s, row[w].notebook, row[w].revision, row[w].content) \in Responses
    BY <2>1, ResponseType DEF RevisionRows, OrNone
  <2>3. (IF row[w].content \notin blobs THEN Bare("internal_error")
         ELSE Response(IF req[w].op = "create" THEN "created" ELSE "ok",
                       row[w].notebook, row[w].revision, row[w].content))
           \in Responses
    BY <2>2, BareType DEF Statuses
  <2>4. pc' \in [Workers -> Pcs] /\ resp' \in [Workers -> Responses]
    BY <1>13, <2>3, ReplyType DEF ReadContent
  <2>. QED BY <1>13, <2>4 DEF ReadContent, TypeOK
<1>14. ASSUME NEW ws \in SUBSET Workers, Clear(ws)
       PROVE  TypeOK'
  <2>1. /\ NoRequest \in Requests /\ Bare("none") \in Responses
        /\ AbsentNotebook \in NotebookRows /\ "idle" \in Pcs
        /\ NoRevision \in [notebook : OrNone(NotebookIds), revision : Nat,
                           content : OrNone(Contents)]
    BY BareType DEF Requests, AbsentNotebook, NotebookRows, OrNone, Pcs,
                    NoRevision, Statuses
  <2>. QED BY <1>14, <2>1 DEF Clear, TypeOK
<1>15. CASE UNCHANGED vars
  BY <1>15 DEF vars, TypeOK
<1>. QED
  BY <1>1, <1>2, <1>3, <1>4, <1>5, <1>6, <1>7, <1>8, <1>9, <1>10, <1>11,
     <1>12, <1>13, <1>14, <1>15 DEF Next, Step, Respond, Crash

-----------------------------------------------------------------------------
(***************************************************************************)
(* Seen from the tables, a step is one of four transactions, or leaves     *)
(* them alone while the blob store may grow.                               *)
(***************************************************************************)

\* Entry i is new for its key and records what the transaction did.
NewEntry(i, scope, n, r, c, unchanged) ==
  /\ i \in IdempotencyRows
  /\ Recorded(scope, i.key) = {}
  /\ i.scope = scope /\ i.notebook = n /\ i.revision = r /\ i.content = c
  /\ i.unchanged = unchanged
  /\ idempotency' = idempotency \union {i}

NewRevision(n, r, c) ==
  revisions' = revisions \union {[notebook |-> n, revision |-> r, content |-> c]}

TableCreate(n, c, i) ==
  /\ c \in blobs /\ blobs' = blobs
  /\ notebooks[n].status = "absent"
  /\ notebooks' = [notebooks EXCEPT
                     ![n] = [status |-> "live", head |-> 1, content |-> c]]
  /\ NewRevision(n, 1, c)
  /\ NewEntry(i, "POST", n, 1, c, FALSE)
  /\ i.hash.base = 0 /\ i.key \in CreateKeys

TableSave(n, c, i) ==
  LET r == notebooks[n].head + 1 IN
  /\ c \in blobs /\ blobs' = blobs
  /\ notebooks[n].status = "live" /\ notebooks[n].content # c
  /\ notebooks' = [notebooks EXCEPT ![n].head = r, ![n].content = c]
  /\ NewRevision(n, r, c)
  /\ NewEntry(i, "PUT", n, r, c, FALSE)
  /\ i.hash = [base |-> notebooks[n].head, content |-> c]
  /\ i.hash.base \in BaseRevisions /\ i.key \in SaveKeys

TableConfirm(n, c, i) ==
  /\ notebooks[n].status = "live" /\ notebooks[n].content = c
  /\ RevisionRow(n, notebooks[n].head) # {}
  /\ NewEntry(i, "PUT", n, notebooks[n].head, c, TRUE)
  /\ i.hash = [base |-> notebooks[n].head, content |-> c]
  /\ i.hash.base \in BaseRevisions /\ i.key \in SaveKeys
  /\ UNCHANGED <<blobs, notebooks, revisions>>

TableDelete(n) ==
  /\ notebooks[n].status # "absent"
  /\ notebooks' = [notebooks EXCEPT ![n].status = "deleted"]
  /\ UNCHANGED <<blobs, revisions, idempotency>>

TableStutter == blobs \subseteq blobs' /\ UNCHANGED tables

TableStep ==
  \/ \E n \in NotebookIds, c \in Contents, i \in IdempotencyRows :
       TableCreate(n, c, i) \/ TableSave(n, c, i) \/ TableConfirm(n, c, i)
  \/ \E n \in NotebookIds : TableDelete(n)
  \/ TableStutter

\* The ledger row a writing handler inserts.
Entry(w, scope, n, r, c, unchanged) ==
  [scope |-> scope, key |-> req[w].key, hash |-> RequestHash(req[w]),
   notebook |-> n, revision |-> r, content |-> c, unchanged |-> unchanged]

\* _insert_idempotency adds an entry whose key was not recorded before.
LEMMA EntryNew ==
  ASSUME TypeOK, NEW w \in Workers, Writing(w),
         NEW scope \in {"POST", "PUT"}, NEW n \in NotebookIds, NEW r \in Nat,
         NEW c \in Contents, NEW u \in BOOLEAN,
         Recorded(scope, req[w].key) = {},
         InsertIdempotency(w, scope, n, r, c, u)
  PROVE  /\ Entry(w, scope, n, r, c, u) \in IdempotencyRows
         /\ NewEntry(Entry(w, scope, n, r, c, u), scope, n, r, c, u)
<1>1. RequestHash(req[w]) \in [base : Nat, content : OrNone(Contents)]
  BY WriterFields DEF RequestHash
<1>2. Entry(w, scope, n, r, c, u) \in IdempotencyRows
  BY <1>1, WriterFields DEF Entry, IdempotencyRows
<1>. QED BY <1>2 DEF NewEntry, Entry, InsertIdempotency

\* create_notebook inserts into three tables as one transaction of the tables.
LEMMA CreateIsTableStep ==
  ASSUME TypeOK, NEW w \in Workers, HandlerOK(w), CreateCommit(w)
  PROVE  \E n \in NotebookIds, c \in Contents, i \in IdempotencyRows :
            TableCreate(n, c, i)
<1> DEFINE c == row[w].content
<1>1. Writing(w) /\ pc[w] = "txn" /\ req[w].op = "create"
  BY DEF CreateCommit, InTxn, Writing
<1>2. c \in Contents /\ c \in blobs
  BY <1>1 DEF HandlerOK
<1>3. PICK n \in NotebookIds :
        /\ Recorded("POST", req[w].key) = {}
        /\ notebooks[n].status = "absent"
        /\ notebooks' = [notebooks EXCEPT
                           ![n] = [status |-> "live", head |-> 1, content |-> c]]
        /\ InsertRevision(n, 1, c)
        /\ InsertIdempotency(w, "POST", n, 1, c, FALSE)
        /\ UNCHANGED blobs
  BY DEF CreateCommit
<1> DEFINE i == Entry(w, "POST", n, 1, c, FALSE)
<1>4. i \in IdempotencyRows /\ NewEntry(i, "POST", n, 1, c, FALSE)
  BY <1>1, <1>2, <1>3, EntryNew
<1>5. req[w] \in CreateRequests
  BY <1>1, RequestForms DEF TypeOK
<1>6. i.hash.base = 0 /\ i.key \in CreateKeys
  BY <1>5, CreateFields DEF Entry, RequestHash
<1>7. TableCreate(n, c, i)
  BY <1>2, <1>3, <1>4, <1>6 DEF TableCreate, InsertRevision, NewRevision
<1>. QED BY <1>2, <1>4, <1>7

\* save_notebook is one transaction: a new revision, a confirmation, or nothing.
LEMMA SaveIsTableStep ==
  ASSUME TypeOK, NEW w \in Workers, HandlerOK(w),
         SaveCommit(w) \/ SaveUnchanged(w)
  PROVE  \/ \E n \in NotebookIds, c \in Contents, i \in IdempotencyRows :
               TableSave(n, c, i) \/ TableConfirm(n, c, i)
         \/ TableStutter
<1> DEFINE c == row[w].content
           n == req[w].notebook
           h == notebooks[n].head
<1>1. /\ Writing(w) /\ pc[w] = "txn" /\ req[w].op = "save"
      /\ Recorded("PUT", req[w].key) = {}
      /\ notebooks[n].status = "live" /\ h = req[w].base
  BY DEF SaveCommit, SaveUnchanged, SaveCurrent, FreshSave, InTxn, Writing
<1>2. c \in Contents /\ c \in blobs /\ c = req[w].content
  BY <1>1 DEF HandlerOK
<1>3. req[w] \in SaveRequests
  BY <1>1, RequestForms DEF TypeOK
<1>4. /\ n \in NotebookIds /\ h \in Nat /\ h + 1 \in Nat
      /\ h \in BaseRevisions /\ req[w].key \in SaveKeys
  BY <1>1, <1>3, SaveFields
<1>5. RequestHash(req[w]) = [base |-> h, content |-> c]
  BY <1>1, <1>2 DEF RequestHash
<1>6. CASE RevisionRow(n, h) = {}
  BY <1>6 DEF SaveCommit, SaveUnchanged, TableStutter, tables
<1>7. CASE RevisionRow(n, h) # {} /\ SaveCommit(w)
  <2> DEFINE i == Entry(w, "PUT", n, h + 1, c, FALSE)
  <2>1. /\ InsertIdempotency(w, "PUT", n, h + 1, c, FALSE)
        /\ InsertRevision(n, h + 1, c) /\ UNCHANGED blobs
        /\ notebooks' = [notebooks EXCEPT ![n].head = h + 1, ![n].content = c]
        /\ notebooks[n].content # c
    BY <1>7 DEF SaveCommit
  <2>2. i \in IdempotencyRows /\ NewEntry(i, "PUT", n, h + 1, c, FALSE)
    BY <1>1, <1>2, <1>4, <2>1, EntryNew
  <2>3. i.hash = [base |-> h, content |-> c] /\ i.hash.base = h /\ i.key = req[w].key
    BY <1>5 DEF Entry
  <2>4. TableSave(n, c, i)
    BY <1>1, <1>2, <1>4, <2>1, <2>2, <2>3 DEF TableSave, InsertRevision, NewRevision
  <2>. QED BY <1>2, <1>4, <2>2, <2>4
<1>8. CASE RevisionRow(n, h) # {} /\ SaveUnchanged(w)
  <2> DEFINE i == Entry(w, "PUT", n, h, c, TRUE)
  <2>1. /\ InsertIdempotency(w, "PUT", n, h, c, TRUE)
        /\ UNCHANGED <<blobs, notebooks, revisions>>
        /\ notebooks[n].content = c
    BY <1>8 DEF SaveUnchanged
  <2>2. i \in IdempotencyRows /\ NewEntry(i, "PUT", n, h, c, TRUE)
    BY <1>1, <1>2, <1>4, <2>1, EntryNew
  <2>3. i.hash = [base |-> h, content |-> c] /\ i.hash.base = h /\ i.key = req[w].key
    BY <1>5 DEF Entry
  <2>4. TableConfirm(n, c, i)
    BY <1>1, <1>4, <1>8, <2>1, <2>2, <2>3 DEF TableConfirm
  <2>. QED BY <1>2, <1>4, <2>2, <2>4
<1>. QED BY <1>6, <1>7, <1>8

\* delete_notebook sets deleted_at, or finds no row and changes nothing.
LEMMA DeleteIsTableStep ==
  ASSUME TypeOK, NEW w \in Workers, HandlerOK(w), DeleteTxn(w)
  PROVE  (\E n \in NotebookIds : TableDelete(n)) \/ TableStutter
<1>1. req[w].notebook \in NotebookIds
  BY RequestForms, DeleteFields DEF DeleteTxn, InTxn, TypeOK
<1>. QED BY <1>1 DEF DeleteTxn, TableDelete, TableStutter, tables

\* Every step of the service is a table step.
LEMMA StepIsTableStep ==
  ASSUME TypeOK, \A u \in Workers : HandlerOK(u), [Next]_vars
  PROVE  TableStep
<1>1. ASSUME NEW w \in Workers, CreateCommit(w)
      PROVE  TableStep
  BY <1>1, CreateIsTableStep DEF TableStep
<1>2. ASSUME NEW w \in Workers, SaveCommit(w) \/ SaveUnchanged(w)
      PROVE  TableStep
  BY <1>2, SaveIsTableStep DEF TableStep
<1>3. ASSUME NEW w \in Workers, DeleteTxn(w)
      PROVE  TableStep
  BY <1>3, DeleteIsTableStep DEF TableStep
<1>4. ASSUME NEW w \in Workers,
             \/ AcceptCreate(w) \/ AcceptSave(w) \/ AcceptDelete(w) \/ AcceptRead(w)
             \/ PublishBlob(w) \/ SkipBlob(w) \/ BlobUnavailable(w)
             \/ KeyConflict(w, "create", "POST") \/ CreateReplay(w)
             \/ KeyConflict(w, "save", "PUT") \/ SaveReplay(w)
             \/ SaveNotFound(w) \/ SaveConflict(w)
             \/ ReadNotebook(w) \/ ReadRevision(w) \/ ReadContent(w)
             \/ Unavailable(w)
      PROVE  TableStutter
  BY <1>4 DEF AcceptCreate, AcceptSave, AcceptDelete, AcceptRead, Accept,
              PublishBlob, SkipBlob, BlobUnavailable, KeyConflict,
              CreateReplay, SaveReplay, SaveNotFound, SaveConflict,
              ReadNotebook, ReadRevision, ReadContent, Unavailable,
              TableStutter, tables
<1>5. ASSUME NEW ws \in SUBSET Workers, Clear(ws)
      PROVE  TableStutter
  BY <1>5 DEF Clear, TableStutter, tables
<1>6. CASE UNCHANGED vars
  BY <1>6 DEF vars, TableStep, TableStutter, tables
<1>. QED
  BY <1>1, <1>2, <1>3, <1>4, <1>5, <1>6
     DEF Next, Step, Respond, Crash, TableStep

-----------------------------------------------------------------------------
(***************************************************************************)
(* The invariants of the tables are inductive over table steps.            *)
(***************************************************************************)

HeadZero == \A n \in NotebookIds : notebooks[n].status = "absent"
                                      <=> notebooks[n].head = 0

PostsCreate == \A i \in idempotency : i.scope = "POST" => ~ i.unchanged

TablesOK == /\ HeadZero
            /\ PostsCreate
            /\ HistoryComplete
            /\ RevisionsReadable
            /\ ExactlyOnce
            /\ NoLostUpdate

\* Empty tables satisfy the invariant of the tables.
LEMMA InitTables == Init => TablesOK
BY DEF Init, TablesOK, HeadZero, PostsCreate, HistoryComplete,
       HistoryComplete1, RevisionsReadable, ExactlyOnce, NoLostUpdate, AbsentNotebook

\* A commit that adds the row (n, head + 1) keeps the history complete.  It
\* covers creation (head 0) and saving.
LEMMA HistoryExtended ==
  ASSUME TypeOK, HeadZero, HistoryComplete,
         NEW n \in NotebookIds, NEW c \in Contents,
         NewRevision(n, notebooks[n].head + 1, c),
         notebooks' = [notebooks EXCEPT
            ![n] = [status |-> "live", head |-> notebooks[n].head + 1,
                    content |-> c]]
  PROVE  HeadZero' /\ HistoryComplete'
<1> DEFINE h == notebooks[n].head
           new == [notebook |-> n, revision |-> h + 1, content |-> c]
<1>1. h \in Nat /\ h + 1 \in Nat /\ h + 1 # 0
  BY DEF TypeOK, NotebookRows
<1>2. notebooks'[n] = [status |-> "live", head |-> h + 1, content |-> c]
  BY DEF TypeOK
<1>3. \A m \in NotebookIds \ {n} : notebooks'[m] = notebooks[m]
  BY DEF TypeOK
<1>4. revisions' = revisions \union {new}
  BY DEF NewRevision
<1>5. HeadZero'
  BY <1>1, <1>2, <1>3 DEF HeadZero
<1>6. ASSUME NEW m \in NotebookIds, m # n
      PROVE  HistoryComplete1(m)'
  <2>1. {v \in revisions' : v.notebook = m} = {v \in revisions : v.notebook = m}
    BY <1>4, <1>6
  <2>2. notebooks'[m] = notebooks[m]
    BY <1>3, <1>6
  <2>3. HistoryComplete1(m)
    BY DEF HistoryComplete
  <2>. QED BY <2>1, <2>2, <2>3 DEF HistoryComplete1
<1>7. HistoryComplete1(n)'
  <2>0. HistoryComplete1(n)
    BY DEF HistoryComplete
  <2>1. \A v \in revisions : v.notebook = n => v.revision \in 1 .. h
    BY <2>0 DEF HistoryComplete1
  <2>2. \A r \in 1 .. h : \E v \in revisions : v.notebook = n /\ v.revision = r
    BY <2>0 DEF HistoryComplete1
  <2>3. \A u, v \in revisions : u.notebook = n /\ v.notebook = n
                                /\ u.revision = v.revision => u = v
    BY <2>0 DEF HistoryComplete1
  <2>4. notebooks'[n].head = h + 1 /\ notebooks'[n].content = c
    BY <1>2
  <2>5. \A v \in revisions' : v.notebook = n => v.revision \in 1 .. h + 1
    BY <1>1, <1>4, <2>1
  <2>6. \A r \in 1 .. h + 1 :
           \E v \in revisions' : v.notebook = n /\ v.revision = r
    <3> SUFFICES ASSUME NEW r \in 1 .. h + 1
                 PROVE  \E v \in revisions' : v.notebook = n /\ v.revision = r
      OBVIOUS
    <3>1. CASE r = h + 1
      <4>1. new \in revisions' /\ new.notebook = n /\ new.revision = h + 1
        BY <1>4
      <4>. QED BY <3>1, <4>1
    <3>2. CASE r \in 1 .. h
      BY <1>4, <2>2, <3>2
    <3>. QED BY <1>1, <3>1, <3>2
  <2>7. \A u, v \in revisions' : u.notebook = n /\ v.notebook = n
                                 /\ u.revision = v.revision => u = v
    <3>1. \A v \in revisions : v.notebook = n => v.revision # h + 1
      BY <1>1, <2>1
    <3>. QED BY <1>4, <2>3, <3>1
  <2>8. \A v \in revisions' : v.notebook = n /\ v.revision = h + 1 => v.content = c
    BY <1>1, <1>4, <2>1
  <2>. QED BY <2>4, <2>5, <2>6, <2>7, <2>8 DEF HistoryComplete1
<1>. QED BY <1>5, <1>6, <1>7 DEF HistoryComplete

\* The effect of a commit is new: its revision number was never used.
LEMMA LedgerExtended ==
  ASSUME TypeOK, HistoryComplete, ExactlyOnce, NoLostUpdate,
         NEW n \in NotebookIds, NEW c \in Contents, NEW i \in IdempotencyRows,
         NEW scope \in {"POST", "PUT"},
         NewRevision(n, notebooks[n].head + 1, c),
         NewEntry(i, scope, n, notebooks[n].head + 1, c, FALSE)
  PROVE  ExactlyOnce'
<1> DEFINE h == notebooks[n].head
           new == [notebook |-> n, revision |-> h + 1, content |-> c]
<1>1. h \in Nat
  BY DEF TypeOK, NotebookRows
<1>2. \A v \in revisions : v.notebook = n => v.revision # h + 1
  BY <1>1 DEF HistoryComplete, HistoryComplete1
<1>3. /\ revisions' = revisions \union {new}
      /\ idempotency' = idempotency \union {i}
      /\ i.notebook = n /\ i.revision = h + 1 /\ ~ i.unchanged
  BY DEF NewRevision, NewEntry
<1>4. \A j \in idempotency : <<j.scope, j.key>> # <<i.scope, i.key>>
  BY DEF NewEntry, Recorded
<1>5. \A j \in idempotency : <<j.notebook, j.revision>> # <<n, h + 1>>
  BY <1>2 DEF NoLostUpdate
<1>6. \A j, k \in idempotency' :
        \/ j = k
        \/ <<j.scope, j.key>> # <<k.scope, k.key>>
           /\ (j.unchanged \/ k.unchanged
               \/ <<j.notebook, j.revision>> # <<k.notebook, k.revision>>)
  BY <1>3, <1>4, <1>5 DEF ExactlyOnce
<1>7. \A v \in revisions' : \E j \in idempotency' :
        ~ j.unchanged /\ j.notebook = v.notebook /\ j.revision = v.revision
  <2>1. ASSUME NEW v \in revisions
        PROVE  \E j \in idempotency' : ~ j.unchanged /\ j.notebook = v.notebook
                                        /\ j.revision = v.revision
    BY <1>3 DEF ExactlyOnce
  <2>2. /\ i \in idempotency' /\ ~ i.unchanged
        /\ i.notebook = new.notebook /\ i.revision = new.revision
    BY <1>3
  <2>. QED BY <1>3, <2>1, <2>2
<1>. QED BY <1>6, <1>7 DEF ExactlyOnce

\* Each of the four transactions keeps the invariant of the tables.
LEMMA TablesStep ==
  ASSUME TypeOK, TablesOK, TableStep
  PROVE  TablesOK'
<1>1. ASSUME NEW n \in NotebookIds, NEW c \in Contents,
             NEW i \in IdempotencyRows, TableCreate(n, c, i)
      PROVE  TablesOK'
  <2>1. notebooks[n].head = 0 /\ notebooks[n].head + 1 = 1
    BY <1>1 DEF TableCreate, TablesOK, HeadZero
  <2>2. NewRevision(n, notebooks[n].head + 1, c)
    BY <1>1, <2>1 DEF TableCreate
  <2>3. NewEntry(i, "POST", n, notebooks[n].head + 1, c, FALSE)
    BY <1>1, <2>1 DEF TableCreate
  <2>4. notebooks' = [notebooks EXCEPT
            ![n] = [status |-> "live", head |-> notebooks[n].head + 1,
                    content |-> c]]
    BY <1>1, <2>1 DEF TableCreate
  <2>5. HeadZero' /\ HistoryComplete'
    BY <2>2, <2>4, HistoryExtended DEF TablesOK
  <2>6. ExactlyOnce'
    BY <2>2, <2>3, LedgerExtended DEF TablesOK
  <2>7. RevisionsReadable'
    BY <1>1 DEF TableCreate, NewRevision, RevisionsReadable, TablesOK
  <2>8. NoLostUpdate'
    BY <1>1 DEF TableCreate, NewRevision, NewEntry, NoLostUpdate, TablesOK
  <2>9. PostsCreate'
    BY <1>1 DEF TableCreate, NewEntry, PostsCreate, TablesOK
  <2>. QED BY <2>5, <2>6, <2>7, <2>8, <2>9 DEF TablesOK
<1>2. ASSUME NEW n \in NotebookIds, NEW c \in Contents,
             NEW i \in IdempotencyRows, TableSave(n, c, i)
      PROVE  TablesOK'
  <2>1. /\ NewRevision(n, notebooks[n].head + 1, c)
        /\ NewEntry(i, "PUT", n, notebooks[n].head + 1, c, FALSE)
        /\ i.hash.base = notebooks[n].head /\ i.hash.content = c
    <3>1. i.hash = [base |-> notebooks[n].head, content |-> c]
      BY <1>2 DEF TableSave
    <3>2. i.hash.base = notebooks[n].head /\ i.hash.content = c
      BY <3>1
    <3>. QED BY <1>2, <3>2 DEF TableSave
  <2>2. notebooks' = [notebooks EXCEPT
            ![n] = [status |-> "live", head |-> notebooks[n].head + 1,
                    content |-> c]]
    BY <1>2 DEF TableSave, TypeOK, NotebookRows
  <2>3. HeadZero' /\ HistoryComplete'
    BY <2>1, <2>2, HistoryExtended DEF TablesOK
  <2>4. ExactlyOnce'
    BY <2>1, LedgerExtended DEF TablesOK
  <2>5. RevisionsReadable'
    BY <1>2 DEF TableSave, NewRevision, RevisionsReadable, TablesOK
  <2>6. NoLostUpdate'
    BY <2>1 DEF NewRevision, NewEntry, NoLostUpdate, TablesOK
  <2>9. PostsCreate'
    BY <1>2 DEF TableSave, NewEntry, PostsCreate, TablesOK
  <2>. QED BY <2>3, <2>4, <2>5, <2>6, <2>9 DEF TablesOK
<1>3. ASSUME NEW n \in NotebookIds, NEW c \in Contents,
             NEW i \in IdempotencyRows, TableConfirm(n, c, i)
      PROVE  TablesOK'
  <2>1. /\ UNCHANGED <<blobs, notebooks, revisions>>
        /\ NewEntry(i, "PUT", n, notebooks[n].head, c, TRUE)
        /\ i.hash.base = notebooks[n].head /\ i.hash.content = c
        /\ notebooks[n].content = c
        /\ RevisionRow(n, notebooks[n].head) # {}
    <3>1. i.hash = [base |-> notebooks[n].head, content |-> c]
      BY <1>3 DEF TableConfirm
    <3>2. i.hash.base = notebooks[n].head /\ i.hash.content = c
      BY <3>1
    <3>. QED BY <1>3, <3>2 DEF TableConfirm
  <2>2. HeadZero' /\ HistoryComplete' /\ RevisionsReadable'
    BY <2>1 DEF TablesOK, HeadZero, HistoryComplete, HistoryComplete1,
                RevisionsReadable
  <2>3. [notebook |-> n, revision |-> notebooks[n].head, content |-> c]
          \in revisions
    <3>1. PICK v \in revisions :
             v.notebook = n /\ v.revision = notebooks[n].head
      BY <2>1 DEF RevisionRow
    <3>2. v.content = c
      BY <2>1, <3>1 DEF TablesOK, HistoryComplete, HistoryComplete1
    <3>3. v \in RevisionRows
      BY <3>1 DEF TypeOK
    <3>4. v = [notebook |-> n, revision |-> notebooks[n].head, content |-> c]
      BY <3>1, <3>2, <3>3 DEF RevisionRows
    <3>. QED BY <3>1, <3>4
  <2>4. NoLostUpdate'
    BY <2>1, <2>3 DEF NewEntry, NoLostUpdate, TablesOK
  <2>5. ExactlyOnce'
    <3>1. /\ idempotency' = idempotency \union {i} /\ i.unchanged
          /\ revisions' = revisions
      BY <2>1 DEF NewEntry
    <3>2. \A j \in idempotency : <<j.scope, j.key>> # <<i.scope, i.key>>
      BY <2>1 DEF NewEntry, Recorded
    <3>. QED BY <3>1, <3>2 DEF ExactlyOnce, TablesOK
  <2>9. PostsCreate'
    BY <1>3 DEF TableConfirm, NewEntry, PostsCreate, TablesOK
  <2>. QED BY <2>2, <2>4, <2>5, <2>9 DEF TablesOK
<1>4. ASSUME NEW n \in NotebookIds, TableDelete(n)
      PROVE  TablesOK'
  <2>1. /\ \A m \in NotebookIds :
              /\ notebooks'[m].head = notebooks[m].head
              /\ notebooks'[m].content = notebooks[m].content
              /\ notebooks'[m].status = "absent" <=> notebooks[m].status = "absent"
        /\ UNCHANGED <<blobs, revisions, idempotency>>
    BY <1>4 DEF TableDelete, TypeOK, NotebookRows
  <2>. QED BY <2>1 DEF TablesOK, HeadZero, PostsCreate, HistoryComplete, HistoryComplete1,
                       RevisionsReadable, ExactlyOnce, NoLostUpdate
<1>5. CASE TableStutter
  BY <1>5 DEF TableStutter, tables, TablesOK, HeadZero, PostsCreate, HistoryComplete,
              HistoryComplete1, RevisionsReadable, ExactlyOnce, NoLostUpdate
<1>. QED BY <1>1, <1>2, <1>3, <1>4, <1>5 DEF TableStep
=============================================================================
