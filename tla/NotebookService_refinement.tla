--------------------- MODULE NotebookService_refinement ---------------------
(***************************************************************************)
(* NotebookService implements DocumentStore: every transaction that        *)
(* changes a table is one operation of the store, and every other step     *)
(* changes nothing a client can see.                                       *)
(***************************************************************************)
EXTENDS NotebookService_theorems

\* The refinement mapping of NotebookService, by name.
Versions == {v \in revisions : v.content \in blobs}
Deleted == {n \in NotebookIds : notebooks[n].status = "deleted"}
Effect(i) == [scope |-> i.scope, key |-> i.key, base |-> i.hash.base,
              notebook |-> i.notebook, revision |-> i.revision,
              content |-> i.content]
Ledger == {Effect(i) : i \in idempotency}

\* With every blob published, every committed revision is a readable version.
LEMMA VersionsAreRevisions == RevisionsReadable => Versions = revisions
BY DEF Versions, RevisionsReadable

\* A new idempotency record is one new effect of the store.
LEMMA LedgerGrows ==
  ASSUME NEW i, idempotency' = idempotency \union {i}
  PROVE  Ledger' = Ledger \union {Effect(i)}
BY DEF Ledger, Effect

\* A key without a record is unused in the store.
LEMMA UnusedKey ==
  ASSUME NEW scope, NEW key, Recorded(scope, key) = {}
  PROVE  Store!Unused(scope, key)
BY DEF Recorded, Store!Unused

\* current_revision is the latest version of its notebook.
LEMMA LatestIsHead ==
  ASSUME TypeOK, TablesOK, NEW n \in NotebookIds,
         notebooks[n].status # "absent"
  PROVE  Store!Latest(n, notebooks[n].head)
<1>1. notebooks[n].head \in 1 .. notebooks[n].head
  BY LiveHead
<1>2. Versions = revisions /\ HistoryComplete1(n)
  BY VersionsAreRevisions DEF TablesOK, HistoryComplete
<1>3. \E v \in Versions : v.notebook = n /\ v.revision = notebooks[n].head
  BY <1>1, <1>2 DEF HistoryComplete1
<1>4. \A v \in Versions : v.notebook = n => v.revision <= notebooks[n].head
  BY <1>2 DEF HistoryComplete1
<1>. QED BY <1>3, <1>4 DEF Store!Latest, Versions

\* Empty tables are the empty store.
LEMMA InitStore == Init => Store!StoreInit
BY DEF Init, Store!StoreInit, AbsentNotebook

\* The transaction of create_notebook is StoreCreate.
LEMMA CreateStore ==
  ASSUME TypeOK, TablesOK, TablesOK', NEW n \in NotebookIds,
         NEW c \in Contents, NEW i \in IdempotencyRows, TableCreate(n, c, i)
  PROVE  Store!StoreCreate(i.key, n, c)
<1>1. Store!Unused("POST", i.key)
  BY UnusedKey DEF TableCreate, NewEntry
<1>2. ~ Store!Exists(n)
  <2>1. notebooks[n].head = 0 /\ HistoryComplete1(n)
    BY DEF TablesOK, HeadZero, HistoryComplete, TableCreate
  <2>. QED BY <2>1 DEF HistoryComplete1, Store!Exists
<1>3. Store!AddVersion(n, 1, c)
  <2>1. Versions = revisions /\ Versions' = revisions'
    BY VersionsAreRevisions DEF TablesOK, Versions, RevisionsReadable
  <2>. QED BY <2>1 DEF TableCreate, NewRevision, Store!AddVersion, Versions
<1>4. Store!Record("POST", i.key, 0, n, 1, c)
  <2>1. Ledger' = Ledger \union {Effect(i)}
    BY LedgerGrows DEF TableCreate, NewEntry
  <2>2. Effect(i) = [scope |-> "POST", key |-> i.key, base |-> 0,
                     notebook |-> n, revision |-> 1, content |-> c]
    BY DEF TableCreate, NewEntry, Effect
  <2>. QED BY <2>1, <2>2 DEF Store!Record, Ledger, Effect
<1>5. Deleted' = Deleted
  BY DEF Deleted, TableCreate, TypeOK
<1>. QED BY <1>1, <1>2, <1>3, <1>4, <1>5 DEF Store!StoreCreate, Deleted

\* The transaction of save_notebook that adds a revision is StoreSave.
LEMMA SaveStore ==
  ASSUME TypeOK, TablesOK, TablesOK', NEW n \in NotebookIds,
         NEW c \in Contents, NEW i \in IdempotencyRows, TableSave(n, c, i)
  PROVE  Store!StoreSave(i.key, n, notebooks[n].head, c)
<1> DEFINE h == notebooks[n].head
<1>1. Store!Unused("PUT", i.key)
  BY UnusedKey DEF TableSave, NewEntry
<1>2. Store!Latest(n, h) /\ n \notin Deleted
  BY LatestIsHead DEF TableSave, Deleted
<1>3. Versions = revisions /\ Versions' = revisions'
  BY VersionsAreRevisions DEF TablesOK, Versions, RevisionsReadable
<1>4. [notebook |-> n, revision |-> h, content |-> c] \notin Versions
  <2>1. HistoryComplete1(n) /\ notebooks[n].content # c
    BY DEF TablesOK, HistoryComplete, TableSave
  <2>. QED BY <1>3, <2>1 DEF HistoryComplete1
<1>5. Store!AddVersion(n, h + 1, c)
  BY <1>3 DEF TableSave, NewRevision, Store!AddVersion, Versions
<1>6. Store!Record("PUT", i.key, h, n, h + 1, c)
  <2>1. Ledger' = Ledger \union {Effect(i)}
    BY LedgerGrows DEF TableSave, NewEntry
  <2>2. Effect(i) = [scope |-> "PUT", key |-> i.key, base |-> h,
                     notebook |-> n, revision |-> h + 1, content |-> c]
    BY DEF TableSave, NewEntry, Effect
  <2>. QED BY <2>1, <2>2 DEF Store!Record, Ledger, Effect
<1>7. Deleted' = Deleted
  BY DEF Deleted, TableSave, TypeOK
<1>. QED BY <1>1, <1>2, <1>4, <1>5, <1>6, <1>7
         DEF Store!StoreSave, Deleted, Versions

\* The transaction of save_notebook that adds none is StoreConfirm.
LEMMA ConfirmStore ==
  ASSUME TypeOK, TablesOK, TablesOK', NEW n \in NotebookIds,
         NEW c \in Contents, NEW i \in IdempotencyRows, TableConfirm(n, c, i)
  PROVE  Store!StoreConfirm(i.key, n, notebooks[n].head, c)
<1> DEFINE h == notebooks[n].head
<1>1. Store!Unused("PUT", i.key)
  BY UnusedKey DEF TableConfirm, NewEntry
<1>2. Store!Latest(n, h) /\ n \notin Deleted
  BY LatestIsHead DEF TableConfirm, Deleted
<1>3. Versions = revisions
  BY VersionsAreRevisions DEF TablesOK
<1>4. [notebook |-> n, revision |-> h, content |-> c] \in Versions
  <2>1. HistoryComplete1(n) /\ notebooks[n].content = c
    BY DEF TablesOK, HistoryComplete, TableConfirm
  <2>2. PICK v \in revisions : v.notebook = n /\ v.revision = h
    BY DEF TableConfirm, RevisionRow
  <2>3. v = [notebook |-> n, revision |-> h, content |-> c]
    BY <2>1, <2>2 DEF HistoryComplete1, TypeOK, RevisionRows
  <2>. QED BY <1>3, <2>2, <2>3
<1>5. Versions' = Versions /\ Deleted' = Deleted
  BY DEF TableConfirm, Versions, Deleted
<1>6. Store!Record("PUT", i.key, h, n, h, c)
  <2>1. Ledger' = Ledger \union {Effect(i)}
    BY LedgerGrows DEF TableConfirm, NewEntry
  <2>2. Effect(i) = [scope |-> "PUT", key |-> i.key, base |-> h,
                     notebook |-> n, revision |-> h, content |-> c]
    BY DEF TableConfirm, NewEntry, Effect
  <2>. QED BY <2>1, <2>2 DEF Store!Record, Ledger, Effect
<1>. QED BY <1>1, <1>2, <1>4, <1>5, <1>6
         DEF Store!StoreConfirm, Deleted, Versions

\* delete_notebook is StoreDelete, or repeats it without effect.
LEMMA DeleteStore ==
  ASSUME TypeOK, TablesOK, NEW n \in NotebookIds, TableDelete(n)
  PROVE  Store!StoreDelete(n) \/ UNCHANGED Store!storeVars
<1>1. Versions' = Versions /\ Ledger' = Ledger
  BY DEF TableDelete, Versions, Ledger, Effect
<1>2. Deleted' = Deleted \union {n}
  BY DEF TableDelete, Deleted, TypeOK
<1>3. CASE n \in Deleted
  <2>1. Deleted' = Deleted
    BY <1>2, <1>3
  <2>. QED BY <1>1, <2>1 DEF Store!storeVars, Versions, Ledger, Effect, Deleted
<1>4. CASE n \notin Deleted
  <2>1. Store!Exists(n)
    BY LatestIsHead DEF TableDelete, Store!Latest, Store!Exists
  <2>. QED BY <1>1, <1>2, <1>4, <2>1
           DEF Store!StoreDelete, Versions, Ledger, Effect, Deleted
<1>. QED BY <1>3, <1>4

\* Publishing a blob nobody refers to changes nothing a client can see.
LEMMA StutterStore ==
  ASSUME TablesOK, TablesOK', TableStutter
  PROVE  UNCHANGED Store!storeVars
<1>1. Versions' = Versions
  BY VersionsAreRevisions DEF TablesOK, TableStutter, tables, Versions,
                              RevisionsReadable
<1>. QED BY <1>1 DEF TableStutter, tables, Store!storeVars, Versions

\* Every step of the service is an operation of the store or invisible.
LEMMA StepStore == IInv /\ IInv' /\ [Next]_vars
                     => [Store!StoreNext]_(Store!storeVars)
<1> SUFFICES ASSUME IInv, IInv', [Next]_vars
             PROVE  Store!StoreNext \/ UNCHANGED Store!storeVars
  OBVIOUS
<1>1. TypeOK /\ TablesOK /\ TablesOK'
  BY DEF IInv
<1>2. TableStep
  BY StepIsTableStep DEF IInv, WorkerOK
<1>3. ASSUME NEW n \in NotebookIds, NEW c \in Contents,
             NEW i \in IdempotencyRows, TableCreate(n, c, i)
      PROVE  Store!StoreNext
  <2>1. Store!StoreCreate(i.key, n, c) /\ i.key \in CreateKeys
    BY <1>1, <1>3, CreateStore DEF TableCreate
  <2>. QED BY <2>1 DEF Store!StoreNext
<1>4. ASSUME NEW n \in NotebookIds, NEW c \in Contents,
             NEW i \in IdempotencyRows, TableSave(n, c, i)
      PROVE  Store!StoreNext
  <2>1. Store!StoreSave(i.key, n, notebooks[n].head, c)
    BY <1>1, <1>4, SaveStore
  <2>2. i.key \in SaveKeys /\ notebooks[n].head \in BaseRevisions
    BY <1>4 DEF TableSave
  <2>. QED BY <2>1, <2>2 DEF Store!StoreNext
<1>5. ASSUME NEW n \in NotebookIds, NEW c \in Contents,
             NEW i \in IdempotencyRows, TableConfirm(n, c, i)
      PROVE  Store!StoreNext
  <2>1. Store!StoreConfirm(i.key, n, notebooks[n].head, c)
    BY <1>1, <1>5, ConfirmStore
  <2>2. i.key \in SaveKeys /\ notebooks[n].head \in BaseRevisions
    BY <1>5 DEF TableConfirm
  <2>. QED BY <2>1, <2>2 DEF Store!StoreNext
<1>6. ASSUME NEW n \in NotebookIds, TableDelete(n)
      PROVE  Store!StoreNext \/ UNCHANGED Store!storeVars
  BY <1>1, <1>6, DeleteStore DEF Store!StoreNext
<1>7. CASE TableStutter
  BY <1>1, <1>7, StutterStore
<1>. QED BY <1>2, <1>3, <1>4, <1>5, <1>6, <1>7 DEF TableStep

\* To its clients the service is the atomic store, for any number of threads,
\* notebooks, keys and documents.
THEOREM Implementation == Spec => StoreImplemented
<1>. QED BY InitStore, StepStore, Invariance, PTL
         DEF Spec, StoreImplemented, Store!StoreSpec
=============================================================================
