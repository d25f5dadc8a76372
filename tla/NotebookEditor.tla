--------------------------- MODULE NotebookEditor ---------------------------
(***************************************************************************)
(* One browser tab that edits a notebook: the document of                  *)
(* useNotebookDocument, its SaveCoordinator, and the buttons of            *)
(* NotebookPage that call them, against the store of DocumentStore, a      *)
(* network that fails, delays and loses, and another client that saves and *)
(* deletes.                                                                *)
(*                                                                         *)
(* JavaScript runs one callback at a time, so an action is what runs       *)
(* between two awaits: a click, or the arrival of a response and everything*)
(* it triggers up to the next request.  A button is enabled exactly when   *)
(* NotebookPage renders it enabled.                                        *)
(***************************************************************************)
EXTENDS Naturals

CONSTANTS Notebook,         \* the notebook the tab shows
          Cells,            \* its code cells, by id
          Sources,          \* texts a cell may hold
          Rejected,         \* texts the service refuses (413, 422)
          OtherKeys,        \* idempotency keys of the other client
          Features,         \* what the user does besides edit and save
          MaxGeneration,    \* bound on local changes per loaded document
          MaxOperations,    \* bound on PUT operations the tab creates
          MaxFailures,      \* bound on failed requests
          None

ASSUME EditorAssumption ==
  /\ Rejected \subseteq Sources
  /\ Features \subseteq {"run", "reload", "refresh"}
  /\ {MaxGeneration, MaxOperations, MaxFailures} \subseteq Nat
  /\ None \notin Sources \union Cells
  /\ OtherKeys \intersect Nat = {}

VARIABLES
  versions, deleted, ledger,  \* the store
  doc,            \* documentRef.current; revision 0 while nothing is loaded
  pending,        \* pendingOperation
  flushRequested,
  conflict,
  loop,           \* runLoop: "idle", or the PUT it awaits: "replay", "save"
  put,            \* the PUT the loop awaits
  late,           \* operations given up on that may still reach the service
  get,            \* the GET of a (re)load; `loading` is get.phase # "none"
  run,            \* the cell run in progress: "kernel", then "flush"
  error,          \* an error is displayed
  operations,     \* operations created so far: the keys are 1, 2, ...
  failures,       \* requests failed so far
  asked,          \* history: generation at the last flush that had work
  loaded          \* history: the last load's revision, and the operations the
                  \* tab had created by then: the load gives them up

store == <<versions, deleted, ledger>>
coordinator == <<pending, flushRequested, conflict, loop, put, operations>>
vars == <<store, doc, coordinator, late, get, run, error, failures, asked,
          loaded>>

-----------------------------------------------------------------------------
(* Data. *)

\* A cell's output is named by the source whose execution produced it.
Contents == [Cells -> [source : Sources, output : Sources \union {None}]]

Keys == 1 .. MaxOperations

Store == INSTANCE DocumentStore WITH
           NotebookIds <- {Notebook}, CreateKeys <- {0},
           SaveKeys <- Keys \union OtherKeys, BaseRevisions <- Nat

\* idempotencyKey and body, with the generation the coordinator notes.
SaveOperations == [key : Keys, base : Nat \ {0}, content : Contents,
                   generation : 0 .. MaxGeneration]

ASSUME NoneAssumption == None \notin SaveOperations

Operation(key, d) == [key |-> key, base |-> d.revision,
                      content |-> d.content, generation |-> d.generation]

NoPut == [phase |-> "none", op |-> None, status |-> "none", revision |-> 0]
Sent(op) == [NoPut EXCEPT !.phase = "sent", !.op = op]

NoGet == [phase |-> "none", revision |-> 0, content |-> None]
GetSent == [NoGet EXCEPT !.phase = "sent"]

NoRun == [phase |-> "none", cell |-> None, source |-> None]

NothingLoaded == [revision |-> 0, operations |-> 0]

NoDocument == [revision |-> 0, content |-> None, generation |-> 0, saved |-> 0]

Loading == get.phase # "none"
Saving == loop # "idle"
Dirty == doc.generation # doc.saved

\* Something on the page can be clicked: `loading` replaces the whole page.
Shown == ~ Loading /\ doc.revision # 0

FirstContents == [Cells -> [source : Sources \ Rejected, output : {None}]]

Init ==
  /\ \E c \in FirstContents :
       /\ versions = {[notebook |-> Notebook, revision |-> 1, content |-> c]}
       /\ ledger = {[scope |-> "POST", key |-> 0, base |-> 0,
                     notebook |-> Notebook, revision |-> 1, content |-> c]}
  /\ deleted = {}
  /\ doc = NoDocument
  /\ pending = None /\ flushRequested = FALSE /\ conflict = FALSE
  /\ loop = "idle" /\ put = NoPut /\ late = {}
  /\ get = GetSent /\ run = NoRun /\ error = FALSE
  /\ operations = 0 /\ failures = 0 /\ asked = 0
  /\ loaded = NothingLoaded

-----------------------------------------------------------------------------
(* SaveCoordinator. *)

\* resolveOperation, then the PUT of phase 2.  Its reuse branch is dead: phase
\* 1 has always cleared pendingOperation.
SaveLatest(d) ==
  LET op == Operation(operations + 1, d) IN
  /\ operations' = operations + 1
  /\ pending' = op
  /\ put' = Sent(op)
  /\ loop' = "save"
  /\ flushRequested' = FALSE

\* Mutants of EndLoop: the PUT is still counted as in flight; the run that
\* awaited the flush is not released.
EndLoopKeepsPut ==
  /\ loop' = "idle"
  /\ run' = IF run.phase = "flush" THEN NoRun ELSE run
  /\ UNCHANGED <<put, operations>>

EndLoopKeepsRun ==
  /\ loop' = "idle"
  /\ put' = NoPut
  /\ UNCHANGED <<operations, run>>

\* runLoop returns; a cell run that awaited the flush ends with it.
EndLoop ==
  /\ loop' = "idle"
  /\ put' = NoPut
  /\ run' = IF run.phase = "flush" THEN NoRun ELSE run
  /\ UNCHANGED operations

\* Mutant of ContinueLoop: a flush requested meanwhile is forgotten.
ContinueLoopOnce(d) == EndLoop /\ pending' = None /\ flushRequested' = FALSE

\* From a settled PUT to the next await: phase 2 if a flush was requested and
\* the document, now d, has changes; otherwise the loop ends.
ContinueLoop(d) ==
  IF flushRequested /\ d.generation # d.saved
  THEN SaveLatest(d) /\ UNCHANGED run
  ELSE /\ EndLoop
       /\ pending' = None
       /\ flushRequested' = FALSE

\* Mutant of HasWork: flush returns while an operation is pending.
HasWorkUnlessPending(d) ==
  ~ conflict /\ d.generation # d.saved /\ pending = None

HasWork(d) == ~ conflict /\ (d.generation # d.saved \/ pending # None)

\* One more operation may become necessary now or when the loop gets to it.
MayFlush ==
  operations + (IF flushRequested THEN 1 ELSE 0) < MaxOperations

\* flush() up to its first await.
Flush(d) ==
  /\ MayFlush
  /\ HasWork(d)
  /\ asked' = d.generation
  /\ \/ /\ Saving
        /\ flushRequested' = TRUE
        /\ UNCHANGED <<pending, loop, put, operations>>
     \/ /\ ~ Saving /\ pending # None
        /\ flushRequested' = TRUE
        /\ loop' = "replay"
        /\ put' = Sent(pending)
        /\ UNCHANGED <<pending, operations>>
     \/ /\ ~ Saving /\ pending = None
        /\ SaveLatest(d)
  /\ UNCHANGED conflict

\* Mutant of PutSucceeds: everything local counts as saved.
PutSucceedsForAll ==
  /\ put.phase = "answered" /\ put.status = "ok"
  /\ doc' = [doc EXCEPT !.revision = put.revision, !.saved = doc.generation]
  /\ error' = FALSE
  /\ ContinueLoop(doc')
  /\ UNCHANGED <<store, conflict, late, get, failures, asked, loaded>>

\* onSaveSuccess: server fields only, local content stays.
PutSucceeds ==
  /\ put.phase = "answered" /\ put.status = "ok"
  /\ doc' = [doc EXCEPT !.revision = put.revision,
                        !.saved = put.op.generation]
  /\ error' = FALSE
  /\ ContinueLoop(doc')
  /\ UNCHANGED <<store, conflict, late, get, failures, asked, loaded>>

\* Mutants of PutConflicts: the base is moved on to save over the other
\* version; the same operation is sent again at once.
PutConflictsMoveBase ==
  /\ put.phase = "answered" /\ put.status = "conflict"
  /\ pending' = None
  /\ error' = TRUE
  /\ doc' = [doc EXCEPT !.revision = @ + 1]
  /\ EndLoop
  /\ UNCHANGED <<store, conflict, flushRequested, late, get, failures, asked,
                 loaded>>

PutConflictsRetry ==
  /\ put.phase = "answered" /\ put.status = "conflict"
  /\ put' = Sent(put.op)
  /\ UNCHANGED <<store, doc, pending, flushRequested, conflict, loop,
                 operations, late, get, run, error, failures, asked, loaded>>

\* REVISION_CONFLICT: local content stays and flushing stops.
PutConflicts ==
  /\ put.phase = "answered" /\ put.status = "conflict"
  /\ pending' = None
  /\ conflict' = TRUE
  /\ error' = TRUE
  /\ EndLoop
  /\ UNCHANGED <<store, doc, flushRequested, late, get, failures, asked, loaded>>

\* Any other 4xx: the operation is over, a queued save may follow.
PutRefused ==
  /\ put.phase = "answered" /\ put.status = "refused"
  /\ error' = TRUE
  /\ ContinueLoop(doc)
  /\ UNCHANGED <<store, doc, conflict, late, get, failures, asked, loaded>>

\* Mutant of PutFails: an unknown outcome is taken for a failure.
PutFailsForgets ==
  /\ put.phase # "none"
  /\ failures < MaxFailures
  /\ failures' = failures + 1
  /\ late' = late
  /\ error' = TRUE
  /\ pending' = None
  /\ EndLoop
  /\ UNCHANGED <<store, doc, flushRequested, conflict, get, asked, loaded>>

\* Network error or 5xx: the outcome is unknown, the operation is kept for the
\* next flush.  The request, or the answer, may have been lost, or the request
\* is still on its way.
PutFails ==
  /\ put.phase # "none"
  /\ failures < MaxFailures
  /\ failures' = failures + 1
  /\ \/ late' = late
     \/ put.phase = "sent" /\ late' = late \union {put.op}
  /\ error' = TRUE
  /\ EndLoop
  /\ UNCHANGED <<store, doc, pending, flushRequested, conflict, get, asked,
                 loaded>>

-----------------------------------------------------------------------------
(* The user. *)

\* Mutant of Edit: the cell being run stays editable.
EditAnyCell ==
  /\ Shown
  /\ doc.generation < MaxGeneration
  /\ \E c \in Cells, s \in Sources :
       /\ s # doc.content[c].source
       /\ doc' = [doc EXCEPT !.content[c].source = s, !.generation = @ + 1]
  /\ UNCHANGED <<store, coordinator, late, get, run, error, failures, asked,
                 loaded>>

\* updateCellSource.  The cell being run cannot be edited.
Edit ==
  /\ Shown
  /\ doc.generation < MaxGeneration
  /\ \E c \in Cells \ {run.cell}, s \in Sources :
       /\ s # doc.content[c].source
       /\ doc' = [doc EXCEPT !.content[c].source = s, !.generation = @ + 1]
  /\ UNCHANGED <<store, coordinator, late, get, run, error, failures, asked,
                 loaded>>

\* The Save button.
Save ==
  /\ Shown
  /\ Dirty /\ ~ Saving /\ ~ conflict
  /\ Flush(doc)
  /\ UNCHANGED <<store, doc, late, get, run, error, failures, loaded>>

\* The Run button: runCell captures the source it was rendered with.
RunCell ==
  /\ "run" \in Features
  /\ Shown
  /\ run = NoRun
  /\ \E c \in Cells :
       run' = [phase |-> "kernel", cell |-> c, source |-> doc.content[c].source]
  /\ UNCHANGED <<store, doc, coordinator, late, get, error, failures, asked,
                 loaded>>

\* applyExecutionResult: the outputs join the document as it is now, whatever
\* else happened to it, and are flushed.
ApplyExecutionResult ==
  LET d == [doc EXCEPT !.content[run.cell].output = run.source,
                       !.generation = @ + 1]
  IN
  /\ run.phase = "kernel"
  /\ doc.generation < MaxGeneration
  /\ doc' = d
  /\ IF HasWork(d)
     THEN Flush(d) /\ run' = [run EXCEPT !.phase = "flush"]
     ELSE run' = NoRun /\ UNCHANGED <<coordinator, asked>>
  /\ UNCHANGED <<store, late, get, error, failures, loaded>>

\* No runtime, no kernel, or the connection broke.
RunFails ==
  /\ run.phase = "kernel"
  /\ run' = NoRun
  /\ UNCHANGED <<store, doc, coordinator, late, get, error, failures, asked,
                 loaded>>

\* Mutant of Reload: the button stays enabled while saving.
ReloadAlways ==
  /\ "reload" \in Features
  /\ Shown
  /\ get' = GetSent
  /\ error' = FALSE
  /\ UNCHANGED <<store, doc, coordinator, late, run, failures, asked, loaded>>

\* The Reload button: disabled only while saving.
Reload ==
  /\ "reload" \in Features
  /\ Shown
  /\ ~ Saving
  /\ get' = GetSent
  /\ error' = FALSE
  /\ UNCHANGED <<store, doc, coordinator, late, run, failures, asked, loaded>>

\* The page is opened again: the heap is gone, requests under way are not.
Refresh ==
  /\ "refresh" \in Features \/ (doc.revision = 0 /\ ~ Loading)
  /\ doc' = NoDocument
  /\ pending' = None /\ flushRequested' = FALSE /\ conflict' = FALSE
  /\ loop' = "idle" /\ put' = NoPut
  /\ late' = IF put.phase = "sent" THEN late \union {put.op} ELSE late
  /\ get' = GetSent /\ run' = NoRun /\ error' = FALSE
  /\ asked' = 0 /\ loaded' = NothingLoaded
  /\ UNCHANGED <<store, operations, failures>>

\* Mutant of GetSucceeds: the coordinator is not reset, so the next flush sends
\* the operation of the document before.
GetSucceedsKeepsPending ==
  /\ get.phase = "answered" /\ get.revision # 0
  /\ doc' = [revision |-> get.revision, content |-> get.content,
             generation |-> 0, saved |-> 0]
  /\ conflict' = FALSE
  /\ get' = NoGet
  /\ asked' = 0
  /\ loaded' = [revision |-> get.revision, operations |-> operations]
  /\ UNCHANGED <<store, pending, flushRequested, loop, put, operations, late, run,
                 error, failures>>

\* commitLoadedDocument, after reset() of the coordinator when there is one.
GetSucceeds ==
  /\ get.phase = "answered" /\ get.revision # 0
  /\ doc' = [revision |-> get.revision, content |-> get.content,
             generation |-> 0, saved |-> 0]
  /\ pending' = None
  /\ conflict' = FALSE
  /\ get' = NoGet
  /\ asked' = 0
  /\ loaded' = [revision |-> get.revision, operations |-> operations]
  /\ UNCHANGED <<store, flushRequested, loop, put, operations, late, run,
                 error, failures>>

\* 404, or no usable answer: what is displayed stays.
GetFails ==
  /\ \/ get.phase = "answered" /\ get.revision = 0 /\ UNCHANGED failures
     \/ /\ Loading
        /\ failures < MaxFailures
        /\ failures' = failures + 1
  /\ get' = NoGet
  /\ error' = TRUE
  /\ UNCHANGED <<store, doc, coordinator, late, run, asked, loaded>>

-----------------------------------------------------------------------------
(* The service, one atomic operation of the store per request. *)

Refusable(op) == \E c \in Cells : op.content[c].source \in Rejected

\* The service's answer to PUT `op`, and its effect.
Serve(op, status, revision) ==
  \/ /\ Refusable(op)
     /\ status = "refused" /\ revision = 0
     /\ UNCHANGED store
  \/ /\ ~ Refusable(op)
     /\ \E e \in ledger : /\ e.scope = "PUT" /\ e.key = op.key
                          /\ revision = e.revision
     /\ status = "ok"
     /\ UNCHANGED store
  \/ /\ ~ Refusable(op)
     /\ Store!Unused("PUT", op.key)
     /\ \/ /\ Notebook \in deleted
           /\ status = "refused" /\ revision = 0
           /\ UNCHANGED store
        \/ /\ Notebook \notin deleted
           /\ ~ Store!Latest(Notebook, op.base)
           /\ status = "conflict" /\ revision = 0
           /\ UNCHANGED store
        \/ /\ Store!StoreSave(op.key, Notebook, op.base, op.content)
           /\ status = "ok" /\ revision = op.base + 1
        \/ /\ Store!StoreConfirm(op.key, Notebook, op.base, op.content)
           /\ status = "ok" /\ revision = op.base

Revisions == {v.revision : v \in versions}

ServePut ==
  /\ put.phase = "sent"
  /\ \E status \in {"ok", "conflict", "refused"},
        revision \in {0} \union Revisions \union {r + 1 : r \in Revisions} :
       /\ Serve(put.op, status, revision)
       /\ put' = [put EXCEPT !.phase = "answered", !.status = status,
                             !.revision = revision]
  /\ UNCHANGED <<doc, pending, flushRequested, conflict, loop, operations,
                 late, get, run, error, failures, asked, loaded>>

\* A request nobody waits for any more reaches the service.
ServeLate ==
  /\ \E op \in late, status \in {"ok", "conflict", "refused"},
        revision \in {0} \union Revisions \union {r + 1 : r \in Revisions} :
       /\ Serve(op, status, revision)
       /\ late' = late \ {op}
  /\ UNCHANGED <<doc, coordinator, get, run, error, failures, asked, loaded>>

ServeGet ==
  /\ get.phase = "sent"
  /\ \E v \in versions :
       /\ Store!Latest(Notebook, v.revision)
       /\ get' = IF Notebook \in deleted
                 THEN [get EXCEPT !.phase = "answered"]
                 ELSE [phase |-> "answered", revision |-> v.revision,
                       content |-> v.content]
  /\ UNCHANGED <<store, doc, coordinator, late, run, error, failures, asked,
                 loaded>>

\* The other client saves over the latest version, or deletes the notebook.
OtherSave ==
  /\ \E key \in OtherKeys, v \in versions, c \in Cells, s \in Sources \ Rejected :
       Store!StoreSave(key, Notebook, v.revision,
                       [v.content EXCEPT ![c] = [source |-> s, output |-> None]])
  /\ UNCHANGED <<doc, coordinator, late, get, run, error, failures, asked,
                 loaded>>

OtherDelete ==
  /\ OtherKeys # {}
  /\ Store!StoreDelete(Notebook)
  /\ UNCHANGED <<doc, coordinator, late, get, run, error, failures, asked,
                 loaded>>

Next ==
  \/ PutSucceeds \/ PutConflicts \/ PutRefused \/ PutFails
  \/ Edit \/ Save \/ RunCell \/ ApplyExecutionResult \/ RunFails
  \/ Reload \/ Refresh \/ GetSucceeds \/ GetFails
  \/ ServePut \/ ServeLate \/ ServeGet \/ OtherSave \/ OtherDelete

Spec == Init /\ [][Next]_vars

\* What the browser, the network and the service do by themselves, and a user
\* who presses Save as long as it is enabled.  Failures are finitely many.
Fairness ==
  /\ WF_vars(PutSucceeds \/ PutConflicts \/ PutRefused)
  /\ WF_vars(ServePut) /\ WF_vars(ServeGet)
  /\ WF_vars(GetSucceeds \/ GetFails)
  /\ WF_vars(ApplyExecutionResult \/ RunFails)
  /\ WF_vars(Save)

FairSpec == Spec /\ Fairness

-----------------------------------------------------------------------------
(* Properties. *)

\* Shapes, and that a PUT is awaited exactly while the loop runs.
TypeOK ==
  /\ doc = NoDocument \/ (doc.revision > 0 /\ doc.content \in Contents)
  /\ doc.generation \in 0 .. MaxGeneration
  /\ doc.saved \in 0 .. MaxGeneration
  /\ pending # None => pending \in SaveOperations
  /\ {flushRequested, conflict, error} \subseteq BOOLEAN
  /\ loop \in {"idle", "replay", "save"}
  /\ put.phase \in {"none", "sent", "answered"}
  /\ (put.phase = "none") <=> (loop = "idle")
  /\ put.phase # "none" => put.op \in SaveOperations
  /\ late \subseteq SaveOperations
  /\ get.phase \in {"none", "sent", "answered"}
  /\ run.phase \in {"none", "kernel", "flush"}
  /\ operations \in 0 .. MaxOperations
  /\ failures \in 0 .. MaxFailures

\* A page that shows "Saved" shows a version the service has: not dirty means
\* that the local content is the content of the revision displayed.
SavedIsStored ==
  doc.revision # 0 /\ ~ Dirty =>
    [notebook |-> Notebook, revision |-> doc.revision,
     content |-> doc.content] \in versions

\* A version that may have been written behind the back of the document: by
\* another client, or by an operation of this tab that a load has given up.
Foreign(e) == e.key \in OtherKeys \union 1 .. loaded.operations

\* The revision a tab saves on never moves past such a version that it has not
\* loaded, so no save overwrites one unseen.
NothingOverwrittenUnseen ==
  \A e \in ledger :
    Foreign(e) /\ e.revision > loaded.revision => doc.revision < e.revision

\* "Modified elsewhere" is true: the tab never meets a conflict with its own
\* earlier save, however many of its answers were lost or late.
ConflictIsForeign ==
  conflict => \E e \in ledger : e.key \in OtherKeys
                                /\ e.revision > doc.revision

\* A flush never ends without effect or notice: when nothing is under way and
\* no error is displayed, the generation last asked for is saved, even if the
\* request joined a loop already running.
QuietMeansSaved ==
  Shown /\ ~ Saving /\ ~ error => doc.saved >= asked

\* The outputs of a run are written into a cell that still holds the source
\* that was run, so they are never displayed as the result of another one.
OutputsMatchSource ==
  [][run.phase = "kernel" /\ run'.phase # "kernel"
       /\ doc'.generation > doc.generation
     => doc'.content[run.cell].source = run.source]_vars

\* Saving ends, whatever is edited, run, lost or refused meanwhile.
SavingEnds == Saving ~> ~ Saving

\* A run ends, so the Run buttons are enabled again.
RunEnds == (run # NoRun) ~> (run = NoRun)

\* Pressing Save again after failures finally saves, unless the notebook was
\* changed or deleted elsewhere: an unknown result never blocks the tab.
FinallySaved == Dirty ~> (~ Dirty \/ conflict \/ Notebook \in deleted)
=============================================================================
