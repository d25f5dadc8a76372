----------------------- MODULE NotebookEditor_proofs -----------------------
(***************************************************************************)
(* What the editor keeps true for any cells, sources, keys and bounds.     *)
(***************************************************************************)
EXTENDS NotebookEditor, TLAPS

USE EditorAssumption, NoneAssumption

Documents == [revision : Nat, content : Contents \union {None},
              generation : 0 .. MaxGeneration, saved : 0 .. MaxGeneration]

\* Shapes, and that only a loaded document is saved or run.
CoordinatorTypes ==
  /\ pending \in SaveOperations \union {None}
  /\ flushRequested \in BOOLEAN
  /\ loop \in {"idle", "replay", "save"}
  /\ put \in [phase : {"none", "sent", "answered"},
              op : SaveOperations \union {None},
              status : {"none", "ok", "conflict", "refused"}, revision : Nat]
  /\ (put.phase = "none") <=> (loop = "idle")
  /\ put.phase # "none" => put.op \in SaveOperations
  /\ put.phase = "answered" /\ put.status = "ok" => put.revision # 0
  /\ operations \in 0 .. MaxOperations
  /\ flushRequested => operations < MaxOperations
  /\ late \subseteq SaveOperations

TypeInv ==
  /\ CoordinatorTypes
  /\ doc \in Documents
  /\ doc.revision # 0 => doc.content \in Contents
  /\ doc.revision = 0 => /\ doc = NoDocument /\ pending = None
                         /\ loop = "idle" /\ run.phase = "none"
  /\ conflict \in BOOLEAN /\ error \in BOOLEAN
  /\ get \in [phase : {"none", "sent", "answered"}, revision : Nat,
              content : Contents \union {None}]
  /\ get.revision # 0 => get.content \in Contents
  /\ run \in [phase : {"none", "kernel", "flush"}, cell : Cells \union {None},
              source : Sources \union {None}]
  /\ run.phase # "none" => run.cell \in Cells /\ run.source \in Sources
  /\ run.phase = "none" => run = NoRun
  /\ failures \in 0 .. MaxFailures
  /\ asked \in 0 .. MaxGeneration
  /\ loaded \in [revision : Nat, operations : Nat]

VersionOf(e) == [notebook |-> Notebook, revision |-> e.revision,
                 content |-> e.content]

\* An effect that added its version, not one that confirmed the latest.
Adds(e) == e.revision = e.base + 1

\* The versions are those the ledger has added, one per revision.
StoreOK ==
  /\ versions \subseteq [notebook : {Notebook}, revision : Nat \ {0},
                         content : Contents]
  /\ ledger \subseteq [scope : {"POST", "PUT"}, key : Nat \union OtherKeys,
                       base : Nat, notebook : {Notebook},
                       revision : Nat \ {0}, content : Contents]
  /\ \E v \in versions : Store!Latest(Notebook, v.revision)
  /\ \A v \in versions : \E e \in ledger : Adds(e) /\ VersionOf(e) = v
  /\ \A e \in ledger :
       /\ VersionOf(e) \in versions
       /\ Adds(e) \/ e.revision = e.base
       /\ e.scope = "POST" => e.revision = 1 /\ e.key = 0
       /\ e.key \in OtherKeys => Adds(e)
  /\ \A e, f \in ledger :
       /\ Adds(e) /\ Adds(f) /\ e.revision = f.revision => e = f
       /\ e.scope = "PUT" /\ f.scope = "PUT" /\ e.key = f.key => e = f

\* The operations of this tab whose PUT may still have an effect.
Live == late \union (IF put.phase = "none" THEN {} ELSE {put.op})
             \union ({pending} \ {None})

Recorded(op, e) == e.scope = "PUT" /\ e.key = op.key

Used(op) == \E e \in ledger : Recorded(op, e)

\* The service will not carry out op any more.
Dead(op) == \/ Refusable(op) \/ Notebook \in deleted
            \/ \E v \in versions : v.revision > op.base

\* A key names one operation, and what the ledger has of it is its effect.
OperationsOK ==
  /\ \A op \in Live : op.key <= operations
  /\ \A op, other \in Live : op.key = other.key => op = other
  /\ \A e \in ledger : e.scope = "PUT" /\ e.key \in Nat => e.key <= operations
  /\ \A op \in Live, e \in ledger :
       Recorded(op, e) => e.base = op.base /\ e.content = op.content
  /\ put.phase = "answered" /\ put.status = "ok" =>
       \E e \in ledger : Recorded(put.op, e) /\ e.revision = put.revision

IInv == TypeInv /\ StoreOK /\ OperationsOK

-----------------------------------------------------------------------------
(* The bounds, and assignments to fields as whole records. *)

\* The bounds are numbers.
LEMMA BoundsAreNaturals ==
  MaxGeneration \in Nat /\ MaxOperations \in Nat /\ MaxFailures \in Nat
OBVIOUS

\* The request of an operation.
LEMMA SentIs ==
  ASSUME NEW op
  PROVE  Sent(op) = [phase |-> "sent", op |-> op, status |-> "none", revision |-> 0]
<1>. DEFINE mid == [phase |-> "sent", op |-> None, status |-> "none", revision |-> 0]
<1>1. [NoPut EXCEPT !.phase = "sent"] = mid
  BY DEF NoPut
<1>2. [mid EXCEPT !.op = op]
        = [phase |-> "sent", op |-> op, status |-> "none", revision |-> 0]
  OBVIOUS
<1>3. Sent(op) = [[NoPut EXCEPT !.phase = "sent"] EXCEPT !.op = op]
  BY Zenon DEF Sent
<1>. QED BY <1>1, <1>2, <1>3, Zenon

\* onSaveSuccess: revision and savedGeneration.
LEMMA SavedDocument ==
  ASSUME doc \in Documents, NEW r, NEW s
  PROVE  [doc EXCEPT !.revision = r, !.saved = s]
           = [revision |-> r, content |-> doc.content,
              generation |-> doc.generation, saved |-> s]
<1>. DEFINE mid == [revision |-> r, content |-> doc.content,
                    generation |-> doc.generation, saved |-> doc.saved]
<1>0. doc = [revision |-> doc.revision, content |-> doc.content,
             generation |-> doc.generation, saved |-> doc.saved]
  BY DEF Documents
<1>1. [doc EXCEPT !.revision = r] = mid
  BY <1>0
<1>2. [mid EXCEPT !.saved = s] = [revision |-> r, content |-> doc.content,
                                  generation |-> doc.generation, saved |-> s]
  OBVIOUS
<1>3. [doc EXCEPT !.revision = r, !.saved = s]
        = [[doc EXCEPT !.revision = r] EXCEPT !.saved = s]
  BY Zenon
<1>. QED BY <1>1, <1>2, <1>3, Zenon

\* A local change: another content and the next generation.
LEMMA ChangedDocument ==
  ASSUME doc \in Documents, NEW content
  PROVE  [[doc EXCEPT !.content = content] EXCEPT !.generation = doc.generation + 1]
           = [revision |-> doc.revision, content |-> content,
              generation |-> doc.generation + 1, saved |-> doc.saved]
<1>. DEFINE mid == [revision |-> doc.revision, content |-> content,
                    generation |-> doc.generation, saved |-> doc.saved]
<1>0. doc = [revision |-> doc.revision, content |-> doc.content,
             generation |-> doc.generation, saved |-> doc.saved]
  BY DEF Documents
<1>1. [doc EXCEPT !.content = content] = mid
  BY <1>0
<1>2. [mid EXCEPT !.generation = doc.generation + 1]
        = [revision |-> doc.revision, content |-> content,
           generation |-> doc.generation + 1, saved |-> doc.saved]
  OBVIOUS
<1>. QED BY <1>1, <1>2, Zenon

\* updateCellSource changes the source of one cell.
LEMMA EditedContent ==
  ASSUME NEW k \in Contents, NEW c \in Cells, NEW s \in Sources
  PROVE  LET edited == [k EXCEPT ![c].source = s] IN
         /\ edited \in Contents /\ edited[c].source = s
         /\ \A other \in Cells \ {c} : edited[other] = k[other]
<1>1. k[c] = [source |-> k[c].source, output |-> k[c].output]
  BY DEF Contents
<1>2. [k[c] EXCEPT !.source = s] = [source |-> s, output |-> k[c].output]
  BY <1>1
<1>3. [k EXCEPT ![c].source = s] = [k EXCEPT ![c] = [source |-> s, output |-> k[c].output]]
  BY <1>2, Zenon
<1>. QED BY <1>3 DEF Contents

\* applyExecutionResult changes the output of one cell.
LEMMA RunContent ==
  ASSUME NEW k \in Contents, NEW c \in Cells, NEW s \in Sources
  PROVE  LET shown == [k EXCEPT ![c].output = s] IN
         /\ shown \in Contents
         /\ \A other \in Cells : shown[other].source = k[other].source
<1>1. k[c] = [source |-> k[c].source, output |-> k[c].output]
  BY DEF Contents
<1>2. [k[c] EXCEPT !.output = s] = [source |-> k[c].source, output |-> s]
  BY <1>1
<1>3. [k EXCEPT ![c].output = s] = [k EXCEPT ![c] = [source |-> k[c].source, output |-> s]]
  BY <1>2, Zenon
<1>. QED BY <1>3 DEF Contents

-----------------------------------------------------------------------------
(* The moves of the coordinator. *)

Begins(d) ==
  LET op == Operation(operations + 1, d) IN
  /\ operations' = operations + 1 /\ operations < MaxOperations
  /\ pending' = op /\ loop' = "save" /\ flushRequested' = FALSE
  /\ put' = [phase |-> "sent", op |-> op, status |-> "none", revision |-> 0]

Ends == loop' = "idle" /\ put' = NoPut /\ operations' = operations

RunReleased == run' = IF run.phase = "flush" THEN NoRun ELSE run

Queues ==
  /\ Saving /\ flushRequested' = TRUE /\ operations < MaxOperations
  /\ UNCHANGED <<pending, loop, put, operations>>

Replays ==
  /\ ~ Saving /\ pending # None /\ flushRequested' = TRUE /\ loop' = "replay"
  /\ put' = [phase |-> "sent", op |-> pending, status |-> "none", revision |-> 0]
  /\ operations < MaxOperations
  /\ UNCHANGED <<pending, operations>>

\* Any of them, with d to be saved next, or at most giving an operation up.
Moves(d) ==
  \/ Begins(d)
  \/ /\ Ends /\ pending' \in {None, pending}
     /\ flushRequested' \in {FALSE, flushRequested}
  \/ Queues
  \/ Replays
  \/ /\ pending' \in {None, pending}
     /\ UNCHANGED <<flushRequested, loop, put, operations>>

\* ContinueLoop starts the next save or ends the loop.
LEMMA ContinueLoopIs ==
  ASSUME TypeInv, NEW d, ContinueLoop(d)
  PROVE  \/ /\ flushRequested /\ d.generation # d.saved
            /\ Begins(d) /\ run' = run
         \/ /\ ~ flushRequested \/ d.generation = d.saved
            /\ Ends /\ RunReleased /\ pending' = None /\ flushRequested' = FALSE
BY SentIs DEF ContinueLoop, SaveLatest, EndLoop, Begins, Ends, RunReleased, TypeInv,
              CoordinatorTypes

\* flush queues, sends the pending operation again, or starts a save.
LEMMA FlushIs ==
  ASSUME TypeInv, NEW d, Flush(d)
  PROVE  /\ ~ conflict /\ asked' = d.generation /\ conflict' = conflict
         /\ \/ Queues
            \/ Replays
            \/ ~ Saving /\ pending = None /\ d.generation # d.saved /\ Begins(d)
<1>1. operations < MaxOperations
  BY DEF Flush, MayFlush, TypeInv, CoordinatorTypes
<1>. QED BY <1>1, SentIs DEF Flush, HasWork, SaveLatest, Begins, Queues, Replays

-----------------------------------------------------------------------------
(* The store. *)

SaveEffect(key, base, r, c) ==
  [scope |-> "PUT", key |-> key, base |-> base, notebook |-> Notebook,
   revision |-> r, content |-> c]

\* A save on the latest version adds the next one.
LEMMA SaveAdds ==
  ASSUME StoreOK, NEW key \in Nat \union OtherKeys, NEW base \in Nat \ {0},
         NEW c \in Contents, Store!StoreSave(key, Notebook, base, c)
  PROVE  /\ StoreOK' /\ versions \subseteq versions' /\ deleted' = deleted
         /\ Notebook \notin deleted /\ \A v \in versions : v.revision <= base
         /\ ledger' = ledger \union {SaveEffect(key, base, base + 1, c)}
         /\ \A e \in ledger : ~ (e.scope = "PUT" /\ e.key = key)
<1>. DEFINE new == SaveEffect(key, base, base + 1, c)
            version == [notebook |-> Notebook, revision |-> base + 1, content |-> c]
<1>1. /\ \A e \in ledger : e.scope # "PUT" \/ e.key # key
      /\ Notebook \notin deleted /\ deleted' = deleted
      /\ \E v \in versions : v.revision = base
      /\ \A v \in versions : v.revision <= base
      /\ versions' = versions \union {version} /\ ledger' = ledger \union {new}
  BY DEF Store!StoreSave, Store!Unused, Store!Latest, Store!AddVersion, Store!Record,
         SaveEffect, StoreOK
<1>2. /\ new.scope = "PUT" /\ new.key = key /\ new.base = base /\ new.content = c
      /\ new.revision = base + 1 /\ new.notebook = Notebook /\ Adds(new)
      /\ VersionOf(new) = version
      /\ new \in [scope : {"POST", "PUT"}, key : Nat \union OtherKeys, base : Nat,
                  notebook : {Notebook}, revision : Nat \ {0}, content : Contents]
      /\ version \in [notebook : {Notebook}, revision : Nat \ {0}, content : Contents]
  BY DEF SaveEffect, Adds, VersionOf
<1>. HIDE DEF new
<1>3. \A e \in ledger : e.revision <= base
  <2>. SUFFICES ASSUME NEW e \in ledger PROVE e.revision <= base
    OBVIOUS
  <2>1. VersionOf(e) \in versions
    BY DEF StoreOK
  <2>2. VersionOf(e).revision = e.revision
    BY DEF VersionOf
  <2>. QED BY <1>1, <2>1, <2>2
<1>4. /\ versions' \subseteq [notebook : {Notebook}, revision : Nat \ {0},
                              content : Contents]
      /\ ledger' \subseteq [scope : {"POST", "PUT"}, key : Nat \union OtherKeys,
                            base : Nat, notebook : {Notebook},
                            revision : Nat \ {0}, content : Contents]
  BY <1>1, <1>2 DEF StoreOK
<1>5. \E v \in versions' : Store!Latest(Notebook, v.revision)'
  <2>1. version \in versions' /\ version.revision = base + 1
        /\ version.notebook = Notebook
    BY <1>1
  <2>2. \A v \in versions' : v.revision <= base + 1
    BY <1>1, <1>4, <2>1 DEF StoreOK
  <2>. QED BY <2>1, <2>2 DEF Store!Latest
<1>6. \A v \in versions' : \E e \in ledger' : Adds(e) /\ VersionOf(e) = v
  BY <1>1, <1>2 DEF StoreOK
<1>7. \A e \in ledger' :
        /\ VersionOf(e) \in versions' /\ (Adds(e) \/ e.revision = e.base)
        /\ e.scope = "POST" => e.revision = 1 /\ e.key = 0
        /\ e.key \in OtherKeys => Adds(e)
  BY <1>1, <1>2 DEF StoreOK
<1>8. \A e, f \in ledger' :
        /\ Adds(e) /\ Adds(f) /\ e.revision = f.revision => e = f
        /\ e.scope = "PUT" /\ f.scope = "PUT" /\ e.key = f.key => e = f
  BY <1>1, <1>2, <1>3 DEF StoreOK
<1>9. StoreOK'
  BY <1>4, <1>5, <1>6, <1>7, <1>8 DEF StoreOK
<1>. QED BY <1>1, <1>9 DEF new

\* Saving the latest content again is only recorded.
LEMMA ConfirmRecords ==
  ASSUME StoreOK, NEW key \in Nat, NEW base \in Nat \ {0},
         NEW c \in Contents, Store!StoreConfirm(key, Notebook, base, c)
  PROVE  /\ StoreOK' /\ versions' = versions /\ deleted' = deleted
         /\ Notebook \notin deleted /\ \A v \in versions : v.revision <= base
         /\ ledger' = ledger \union {SaveEffect(key, base, base, c)}
         /\ \A e \in ledger : ~ (e.scope = "PUT" /\ e.key = key)
<1>. DEFINE new == SaveEffect(key, base, base, c)
<1>1. /\ \A e \in ledger : e.scope # "PUT" \/ e.key # key
      /\ Notebook \notin deleted /\ deleted' = deleted
      /\ \A v \in versions : v.revision <= base
      /\ [notebook |-> Notebook, revision |-> base, content |-> c] \in versions
      /\ versions' = versions /\ ledger' = ledger \union {new}
  BY DEF Store!StoreConfirm, Store!Unused, Store!Latest, Store!Record, SaveEffect, StoreOK
<1>2. /\ new.scope = "PUT" /\ new.key = key /\ new.base = base /\ new.content = c
      /\ new.revision = base /\ new.notebook = Notebook /\ ~ Adds(new)
      /\ VersionOf(new) \in versions /\ key \notin OtherKeys
      /\ new \in [scope : {"POST", "PUT"}, key : Nat \union OtherKeys, base : Nat,
                  notebook : {Notebook}, revision : Nat \ {0}, content : Contents]
  BY <1>1 DEF SaveEffect, Adds, VersionOf
<1>. HIDE DEF new
<1>3. \E v \in versions' : Store!Latest(Notebook, v.revision)'
  BY <1>1 DEF StoreOK, Store!Latest
<1>4. /\ versions' \subseteq [notebook : {Notebook}, revision : Nat \ {0},
                              content : Contents]
      /\ ledger' \subseteq [scope : {"POST", "PUT"}, key : Nat \union OtherKeys,
                            base : Nat, notebook : {Notebook},
                            revision : Nat \ {0}, content : Contents]
      /\ \A v \in versions' : \E e \in ledger' : Adds(e) /\ VersionOf(e) = v
  BY <1>1, <1>2 DEF StoreOK
<1>5. \A e \in ledger' :
        /\ VersionOf(e) \in versions' /\ (Adds(e) \/ e.revision = e.base)
        /\ e.scope = "POST" => e.revision = 1 /\ e.key = 0
        /\ e.key \in OtherKeys => Adds(e)
  BY <1>1, <1>2 DEF StoreOK
<1>6. \A e, f \in ledger' :
        /\ Adds(e) /\ Adds(f) /\ e.revision = f.revision => e = f
        /\ e.scope = "PUT" /\ f.scope = "PUT" /\ e.key = f.key => e = f
  BY <1>1, <1>2 DEF StoreOK
<1>7. StoreOK'
  BY <1>3, <1>4, <1>5, <1>6 DEF StoreOK
<1>. QED BY <1>1, <1>7 DEF new

\* What the service does with a PUT, and what its answer says.
LEMMA ServeIs ==
  ASSUME StoreOK, NEW op \in SaveOperations, NEW status, NEW revision,
         Serve(op, status, revision)
  PROVE  /\ StoreOK' /\ versions \subseteq versions' /\ deleted' = deleted
         /\ \/ UNCHANGED store
            \/ /\ status = "ok" /\ ~ Used(op) /\ ~ Dead(op)
               /\ \E r \in {op.base, op.base + 1} :
                    ledger' = ledger
                              \union {SaveEffect(op.key, op.base, r, op.content)}
         /\ status = "ok" => /\ revision \in Nat \ {0}
                             /\ \E e \in ledger' : Recorded(op, e) /\ e.revision = revision
         /\ status = "conflict" =>
              ~ Used(op) /\ ~ Store!Latest(Notebook, op.base) /\ UNCHANGED store
         /\ status = "refused" =>
              UNCHANGED store /\ (Refusable(op) \/ (~ Used(op) /\ Notebook \in deleted))
<1>0. /\ op.key \in Nat /\ op.base \in Nat \ {0} /\ op.content \in Contents
      /\ op.key \in Nat \union OtherKeys
  BY DEF SaveOperations, Keys
<1>1. CASE UNCHANGED store
  <2>1. StoreOK'
    BY <1>1 DEF StoreOK, store, Store!Latest
  <2>2. status = "ok" => \E e \in ledger : Recorded(op, e) /\ e.revision = revision
    <3>. SUFFICES ASSUME status = "ok",
                         Store!StoreSave(op.key, Notebook, op.base, op.content)
                           \/ Store!StoreConfirm(op.key, Notebook, op.base, op.content)
                  PROVE  FALSE
      BY DEF Serve, Recorded
    <3>1. \E r \in Nat : ledger' = ledger
                             \union {SaveEffect(op.key, op.base, r, op.content)}
      BY <1>0, SaveAdds, ConfirmRecords
    <3>2. \A e \in ledger : ~ (e.scope = "PUT" /\ e.key = op.key)
      BY <1>0, SaveAdds, ConfirmRecords
    <3>3. PICK r \in Nat : SaveEffect(op.key, op.base, r, op.content) \in ledger
      BY <1>1, <3>1 DEF store
    <3>. QED BY <3>2, <3>3 DEF SaveEffect
  <2>3. /\ status = "conflict" => ~ Used(op) /\ ~ Store!Latest(Notebook, op.base)
        /\ status = "refused" =>
             Refusable(op) \/ (~ Used(op) /\ Notebook \in deleted)
    BY DEF Serve, Used, Recorded, Store!Unused
  <2>. QED BY <1>1, <2>1, <2>2, <2>3 DEF store, StoreOK
<1>2. CASE /\ Store!StoreSave(op.key, Notebook, op.base, op.content)
           /\ status = "ok" /\ revision = op.base + 1 /\ ~ Refusable(op)
  <2>1. /\ StoreOK' /\ versions \subseteq versions' /\ deleted' = deleted
        /\ Notebook \notin deleted /\ \A v \in versions : v.revision <= op.base
        /\ ledger' = ledger \union {SaveEffect(op.key, op.base, op.base + 1, op.content)}
        /\ \A e \in ledger : ~ (e.scope = "PUT" /\ e.key = op.key)
    BY <1>0, <1>2, SaveAdds
  <2>2. ~ Used(op) /\ ~ Dead(op)
    BY <1>0, <1>2, <2>1 DEF Used, Recorded, Dead, StoreOK
  <2>3. \E e \in ledger' : Recorded(op, e) /\ e.revision = revision
    <3>. DEFINE e == SaveEffect(op.key, op.base, op.base + 1, op.content)
    <3>1. e.scope = "PUT" /\ e.key = op.key /\ e.revision = revision
      BY <1>2 DEF SaveEffect
    <3>. QED BY <2>1, <3>1 DEF Recorded
  <2>. QED BY <1>0, <1>2, <2>1, <2>2, <2>3
<1>3. CASE /\ Store!StoreConfirm(op.key, Notebook, op.base, op.content)
           /\ status = "ok" /\ revision = op.base /\ ~ Refusable(op)
  <2>1. /\ StoreOK' /\ versions' = versions /\ deleted' = deleted
        /\ Notebook \notin deleted /\ \A v \in versions : v.revision <= op.base
        /\ ledger' = ledger \union {SaveEffect(op.key, op.base, op.base, op.content)}
        /\ \A e \in ledger : ~ (e.scope = "PUT" /\ e.key = op.key)
    BY <1>0, <1>3, ConfirmRecords
  <2>2. ~ Used(op) /\ ~ Dead(op)
    BY <1>0, <1>3, <2>1 DEF Used, Recorded, Dead, StoreOK
  <2>3. \E e \in ledger' : Recorded(op, e) /\ e.revision = revision
    <3>. DEFINE e == SaveEffect(op.key, op.base, op.base, op.content)
    <3>1. e.scope = "PUT" /\ e.key = op.key /\ e.revision = revision
      BY <1>3 DEF SaveEffect
    <3>. QED BY <2>1, <3>1 DEF Recorded
  <2>. QED BY <1>0, <1>3, <2>1, <2>2, <2>3
<1>. QED BY <1>1, <1>2, <1>3 DEF Serve

-----------------------------------------------------------------------------
(* Operations and their keys. *)

InFlight == IF put.phase = "none" THEN {} ELSE {put.op}

\* A new operation has the next key.
LEMMA NewOperation ==
  ASSUME TypeInv, NEW d \in Documents, d.revision # 0, d.content \in Contents, Begins(d)
  PROVE  LET op == Operation(operations + 1, d) IN
         /\ op \in SaveOperations /\ op.key = operations' /\ op.key = operations + 1
         /\ op.base = d.revision /\ op.content = d.content
         /\ op.generation = d.generation
         /\ pending' = op /\ put'.op = op /\ put'.phase = "sent"
BY DEF Operation, SaveOperations, Keys, Begins, TypeInv, CoordinatorTypes, Documents

\* No move of the coordinator mixes operations up.
LEMMA MovesKeep ==
  ASSUME IInv, NEW d \in Documents, d.revision # 0 => d.content \in Contents,
         Begins(d) => d.revision # 0, Moves(d),
         late' \subseteq late \union InFlight, UNCHANGED store
  PROVE  CoordinatorTypes' /\ StoreOK' /\ OperationsOK'
<1>. USE DEF IInv
<1>1. StoreOK'
  BY DEF StoreOK, store, Store!Latest
<1>2. ledger' = ledger
  BY DEF store
<1>3. CASE Begins(d)
  <2>. DEFINE op == Operation(operations + 1, d)
  <2>1. /\ op \in SaveOperations /\ op.key = operations' /\ op.key = operations + 1
        /\ pending' = op /\ put'.op = op /\ put'.phase = "sent"
    BY <1>3, NewOperation
  <2>0. /\ operations' = operations + 1 /\ operations < MaxOperations
        /\ loop' = "save" /\ flushRequested' = FALSE
        /\ put' = [phase |-> "sent", op |-> op, status |-> "none", revision |-> 0]
    BY <1>3 DEF Begins
  <2>. HIDE DEF op
  <2>2. CoordinatorTypes'
    <3>1. late' \subseteq SaveOperations
      BY DEF CoordinatorTypes, TypeInv, InFlight
    <3>2. operations' \in 0 .. MaxOperations
      BY <2>0 DEF CoordinatorTypes, TypeInv
    <3>. QED BY <2>0, <2>1, <3>1, <3>2 DEF CoordinatorTypes
  <2>3. Live' \subseteq Live \union {op} /\ Live \subseteq SaveOperations
    BY <2>1 DEF Live, InFlight, CoordinatorTypes, TypeInv
  <2>4. \A other \in Live : other.key \in Nat /\ other.key <= operations
    BY <2>3 DEF OperationsOK, SaveOperations, Keys
  <2>5. /\ operations \in Nat
        /\ \A e \in ledger : Recorded(op, e) => FALSE
    BY <2>1 DEF OperationsOK, TypeInv, CoordinatorTypes, Recorded
  <2>6. /\ \A other \in Live' : other.key <= operations'
        /\ \A o1, o2 \in Live' : o1.key = o2.key => o1 = o2
    BY <2>1, <2>3, <2>4, <2>5 DEF OperationsOK
  <2>7. /\ \A e \in ledger' : e.scope = "PUT" /\ e.key \in Nat => e.key <= operations'
        /\ \A other \in Live', e \in ledger' :
             Recorded(other, e) => e.base = other.base /\ e.content = other.content
    BY <1>2, <2>1, <2>3, <2>5 DEF OperationsOK
  <2>. QED BY <1>1, <2>1, <2>2, <2>6, <2>7 DEF OperationsOK
<1>4. ASSUME CoordinatorTypes', Live' \subseteq Live, operations' = operations,
             put'.phase = "answered" => put' = put
      PROVE  CoordinatorTypes' /\ StoreOK' /\ OperationsOK'
  BY <1>1, <1>2, <1>4 DEF OperationsOK
<1>5. late' \subseteq SaveOperations
  BY DEF CoordinatorTypes, TypeInv, InFlight
<1>6. CASE /\ Ends /\ pending' \in {None, pending}
           /\ flushRequested' \in {FALSE, flushRequested}
  <2>0. /\ loop' = "idle" /\ operations' = operations /\ put'.phase = "none"
        /\ put' \in [phase : {"none", "sent", "answered"},
                     op : SaveOperations \union {None},
                     status : {"none", "ok", "conflict", "refused"}, revision : Nat]
    BY <1>6 DEF Ends, NoPut
  <2>1. CoordinatorTypes'
    <3>1. CASE flushRequested' = FALSE
      BY <1>5, <1>6, <2>0, <3>1 DEF CoordinatorTypes, TypeInv
    <3>2. CASE flushRequested' = flushRequested
      BY <1>5, <1>6, <2>0, <3>2 DEF CoordinatorTypes, TypeInv
    <3>. QED BY <1>6, <3>1, <3>2
  <2>2. Live' \subseteq Live /\ put'.phase = "none"
    BY <1>6 DEF Ends, Live, InFlight, NoPut
  <2>. QED BY <1>4, <1>6, <2>1, <2>2 DEF Ends
<1>7. CASE Queues
  <2>1. CoordinatorTypes'
    BY <1>5, <1>7 DEF Queues, CoordinatorTypes, TypeInv
  <2>2. Live' \subseteq Live
    BY <1>7 DEF Queues, Live, InFlight
  <2>. QED BY <1>4, <1>7, <2>1, <2>2 DEF Queues
<1>8. CASE Replays
  <2>1. CoordinatorTypes'
    BY <1>5, <1>8 DEF Replays, CoordinatorTypes, TypeInv
  <2>2. Live' \subseteq Live /\ put'.phase = "sent"
    BY <1>8 DEF Replays, Live, InFlight
  <2>. QED BY <1>4, <1>8, <2>1, <2>2 DEF Replays
<1>9. CASE /\ pending' \in {None, pending}
           /\ UNCHANGED <<flushRequested, loop, put, operations>>
  <2>1. CoordinatorTypes'
    BY <1>5, <1>9 DEF CoordinatorTypes, TypeInv
  <2>2. Live' \subseteq Live
    BY <1>9 DEF Live, InFlight
  <2>. QED BY <1>4, <1>9, <2>1, <2>2
<1>. QED BY <1>3, <1>6, <1>7, <1>8, <1>9 DEF Moves

-----------------------------------------------------------------------------
(* The actions, spelled out. *)

\* How a loop goes on with the document d, or ends.
Continues(d) ==
  \/ /\ flushRequested /\ d.generation # d.saved
     /\ Begins(d) /\ run' = run
  \/ /\ ~ flushRequested \/ d.generation = d.saved
     /\ Ends /\ RunReleased /\ pending' = None /\ flushRequested' = FALSE

\* What a flush of d does.
Flushes(d) ==
  /\ ~ conflict /\ asked' = d.generation
  /\ \/ Queues
     \/ Replays
     \/ ~ Saving /\ pending = None /\ d.generation # d.saved /\ Begins(d)

\* onSaveSuccess, field by field.
LEMMA PutSucceedsIs ==
  ASSUME TypeInv, PutSucceeds
  PROVE  /\ put.phase = "answered" /\ put.status = "ok" /\ doc.revision # 0
         /\ put.op \in SaveOperations
         /\ doc' \in Documents /\ doc'.revision # 0 /\ doc'.content \in Contents
         /\ doc'.revision = put.revision /\ doc'.content = doc.content
         /\ doc'.generation = doc.generation /\ doc'.saved = put.op.generation
         /\ error' = FALSE /\ Continues(doc')
         /\ UNCHANGED <<store, conflict, late, get, failures, asked, loaded>>
<1>1. /\ put.phase = "answered" /\ put.status = "ok" /\ doc.revision # 0
      /\ put.op \in SaveOperations /\ put.revision \in Nat \ {0}
  BY DEF PutSucceeds, TypeInv, CoordinatorTypes
<1>2. doc' = [revision |-> put.revision, content |-> doc.content,
              generation |-> doc.generation, saved |-> put.op.generation]
  BY SavedDocument, Zenon DEF PutSucceeds, TypeInv
<1>3. ContinueLoop(doc') /\ error' = FALSE
      /\ UNCHANGED <<store, conflict, late, get, failures, asked, loaded>>
  BY DEF PutSucceeds
<1>4. Continues(doc')
  BY <1>3, ContinueLoopIs DEF Continues
<1>. QED BY <1>1, <1>2, <1>3, <1>4 DEF TypeInv, Documents, SaveOperations

\* A refused operation is over; the loop goes on with the same document.
LEMMA PutRefusedIs ==
  ASSUME TypeInv, PutRefused
  PROVE  /\ put.phase = "answered" /\ put.status = "refused" /\ doc.revision # 0
         /\ put.op \in SaveOperations /\ error' = TRUE /\ Continues(doc)
         /\ UNCHANGED <<store, doc, conflict, late, get, failures, asked, loaded>>
BY ContinueLoopIs DEF PutRefused, Continues, TypeInv, CoordinatorTypes

\* A conflict ends the loop and its operation.
LEMMA PutConflictsIs ==
  ASSUME TypeInv, PutConflicts
  PROVE  /\ put.phase = "answered" /\ put.status = "conflict" /\ doc.revision # 0
         /\ put.op \in SaveOperations /\ pending' = None /\ conflict' = TRUE
         /\ error' = TRUE /\ Ends /\ RunReleased
         /\ UNCHANGED <<store, doc, flushRequested, late, get, failures, asked, loaded>>
BY DEF PutConflicts, EndLoop, Ends, RunReleased, TypeInv, CoordinatorTypes

\* An unknown outcome ends the loop and keeps the operation.
LEMMA PutFailsIs ==
  ASSUME TypeInv, PutFails
  PROVE  /\ put.phase # "none" /\ doc.revision # 0 /\ put.op \in SaveOperations
         /\ failures' \in 0 .. MaxFailures
         /\ late' = late \/ late' = late \union {put.op}
         /\ error' = TRUE /\ Ends /\ RunReleased
         /\ UNCHANGED <<store, doc, pending, flushRequested, conflict, get, asked, loaded>>
BY DEF PutFails, EndLoop, Ends, RunReleased, TypeInv, CoordinatorTypes

\* updateCellSource leaves the cell being run alone.
LEMMA EditIs ==
  ASSUME TypeInv, Edit
  PROVE  /\ doc' \in Documents /\ ~ Loading /\ doc.revision # 0
         /\ doc'.revision = doc.revision /\ doc'.content \in Contents
         /\ doc'.generation = doc.generation + 1 /\ doc'.saved = doc.saved
         /\ run.cell \in Cells =>
              doc'.content[run.cell].source = doc.content[run.cell].source
         /\ UNCHANGED <<store, coordinator, late, get, run, error, failures, asked, loaded>>
<1>1. PICK c \in Cells \ {run.cell}, s \in Sources :
        doc' = [doc EXCEPT !.content[c].source = s, !.generation = @ + 1]
  BY DEF Edit
<1>. DEFINE k == [doc.content EXCEPT ![c].source = s]
<1>2. doc' = [[doc EXCEPT !.content = k] EXCEPT !.generation = doc.generation + 1]
  <2>1. doc' = [[doc EXCEPT !.content = k] EXCEPT !.generation = @ + 1]
    BY <1>1, Zenon
  <2>2. [doc EXCEPT !.content = k].generation = doc.generation
    <3>. HIDE DEF k
    <3>1. doc = [revision |-> doc.revision, content |-> doc.content,
                 generation |-> doc.generation, saved |-> doc.saved]
      BY DEF TypeInv, Documents
    <3>2. [doc EXCEPT !.content = k] = [revision |-> doc.revision, content |-> k,
                 generation |-> doc.generation, saved |-> doc.saved]
      BY <3>1
    <3>. QED BY <3>2
  <2>. QED BY <2>1, <2>2, Zenon
<1>3. doc' = [revision |-> doc.revision, content |-> k,
              generation |-> doc.generation + 1, saved |-> doc.saved]
  BY <1>2, ChangedDocument, Zenon DEF TypeInv
<1>4. ~ Loading /\ doc.revision # 0 /\ doc.content \in Contents
      /\ doc.generation < MaxGeneration
  BY DEF Edit, Shown, TypeInv
<1>5. /\ k \in Contents
      /\ \A other \in Cells \ {c} : k[other] = doc.content[other]
  BY <1>4, EditedContent
<1>6. UNCHANGED <<store, coordinator, late, get, run, error, failures, asked, loaded>>
  BY DEF Edit
<1>. HIDE DEF k
<1>. QED BY <1>3, <1>4, <1>5, <1>6 DEF TypeInv, Documents

\* The Save button flushes the document as it is.
LEMMA SaveIs ==
  ASSUME TypeInv, Save
  PROVE  /\ ~ Loading /\ doc.revision # 0 /\ ~ Saving /\ Flushes(doc)
         /\ conflict' = conflict
         /\ UNCHANGED <<store, doc, late, get, run, error, failures, loaded>>
BY FlushIs DEF Save, Shown, Flushes

\* The outputs of a run change no source; they are flushed if there is work.
LEMMA ApplyExecutionResultIs ==
  ASSUME TypeInv, ApplyExecutionResult
  PROVE  /\ run.phase = "kernel" /\ run.cell \in Cells /\ doc.revision # 0
         /\ doc' \in Documents /\ doc'.revision = doc.revision
         /\ doc'.content \in Contents
         /\ doc'.generation = doc.generation + 1 /\ doc'.saved = doc.saved
         /\ \A c \in Cells : doc'.content[c].source = doc.content[c].source
         /\ conflict' = conflict
         /\ \/ /\ Flushes(doc')
               /\ run' = [phase |-> "flush", cell |-> run.cell, source |-> run.source]
            \/ /\ conflict \/ doc'.generation = doc'.saved
               /\ run' = NoRun /\ UNCHANGED <<coordinator, asked>>
         /\ UNCHANGED <<store, late, get, error, failures, loaded>>
<1>. DEFINE k == [doc.content EXCEPT ![run.cell].output = run.source]
            d == [doc EXCEPT !.content[run.cell].output = run.source,
                             !.generation = @ + 1]
<1>1. doc' = d
  BY Zenon DEF ApplyExecutionResult
<1>2. doc' = [[doc EXCEPT !.content = k] EXCEPT !.generation = doc.generation + 1]
  <2>1. doc' = [[doc EXCEPT !.content = k] EXCEPT !.generation = @ + 1]
    BY <1>1, Zenon
  <2>2. [doc EXCEPT !.content = k].generation = doc.generation
    <3>. HIDE DEF k
    <3>1. doc = [revision |-> doc.revision, content |-> doc.content,
                 generation |-> doc.generation, saved |-> doc.saved]
      BY DEF TypeInv, Documents
    <3>2. [doc EXCEPT !.content = k] = [revision |-> doc.revision, content |-> k,
                 generation |-> doc.generation, saved |-> doc.saved]
      BY <3>1
    <3>. QED BY <3>2
  <2>. QED BY <2>1, <2>2, Zenon
<1>3. doc' = [revision |-> doc.revision, content |-> k,
              generation |-> doc.generation + 1, saved |-> doc.saved]
  BY <1>2, ChangedDocument, Zenon DEF TypeInv
<1>4. /\ run.phase = "kernel" /\ run.cell \in Cells /\ run.source \in Sources
      /\ doc.revision # 0 /\ doc.content \in Contents /\ doc.generation < MaxGeneration
      /\ UNCHANGED <<store, late, get, error, failures, loaded>>
  BY DEF ApplyExecutionResult, TypeInv
<1>5. /\ k \in Contents /\ \A c \in Cells : k[c].source = doc.content[c].source
  BY <1>4, RunContent
<1>6. \/ /\ Flush(d) /\ run' = [run EXCEPT !.phase = "flush"]
      \/ ~ HasWork(d) /\ run' = NoRun /\ UNCHANGED <<coordinator, asked>>
  BY Zenon DEF ApplyExecutionResult
<1>7. [run EXCEPT !.phase = "flush"]
        = [phase |-> "flush", cell |-> run.cell, source |-> run.source]
  <2>1. run = [phase |-> run.phase, cell |-> run.cell, source |-> run.source]
    BY DEF TypeInv
  <2>. QED BY <2>1
<1>. HIDE DEF d, k
<1>8. \/ Flushes(d) /\ conflict' = conflict /\ run' = [run EXCEPT !.phase = "flush"]
      \/ /\ conflict \/ d.generation = d.saved
         /\ run' = NoRun /\ UNCHANGED <<coordinator, asked>> /\ conflict' = conflict
  BY <1>6, FlushIs DEF Flushes, HasWork, coordinator
<1>. QED BY <1>1, <1>3, <1>4, <1>5, <1>7, <1>8 DEF TypeInv, Documents

\* commitLoadedDocument, field by field.
LEMMA GetSucceedsIs ==
  ASSUME TypeInv, GetSucceeds
  PROVE  /\ get.phase = "answered" /\ get.revision # 0
         /\ doc' = [revision |-> get.revision, content |-> get.content,
                    generation |-> 0, saved |-> 0]
         /\ doc' \in Documents /\ doc'.revision # 0 /\ doc'.content \in Contents
         /\ pending' = None /\ conflict' = FALSE /\ get' = NoGet /\ asked' = 0
         /\ loaded' = [revision |-> get.revision, operations |-> operations]
         /\ UNCHANGED <<store, flushRequested, loop, put, operations, late, run, error,
                        failures>>
BY DEF GetSucceeds, TypeInv, Documents

-----------------------------------------------------------------------------
(* Shapes, store and keys, action by action. *)

\* The rest of TypeInv, while a document stays loaded.
LEMMA TypesKept ==
  ASSUME TypeInv, CoordinatorTypes', doc' \in Documents, doc'.revision # 0,
         doc'.content \in Contents, conflict' \in BOOLEAN, error' \in BOOLEAN,
         get' = get, run' = run \/ run' = NoRun, failures' \in 0 .. MaxFailures,
         asked' \in 0 .. MaxGeneration, loaded' = loaded
  PROVE  TypeInv'
BY DEF TypeInv, NoRun

\* A run goes on or is released.
LEMMA RunGoesOn ==
  ASSUME NEW d, Continues(d) \/ RunReleased
  PROVE  run' = run \/ run' = NoRun
BY DEF Continues, RunReleased

\* PUTs that end.
LEMMA PutsKeep ==
  ASSUME IInv, PutSucceeds \/ PutRefused \/ PutConflicts \/ PutFails
  PROVE  IInv'
<1>. USE DEF IInv
<1>0. doc \in Documents /\ (doc.revision # 0 => doc.content \in Contents)
  BY DEF TypeInv
<1>1. CASE PutSucceeds
  <2>1. Moves(doc')
    BY <1>1, PutSucceedsIs DEF Continues, Moves
  <2>2. CoordinatorTypes' /\ StoreOK' /\ OperationsOK'
    BY <1>1, <2>1, PutSucceedsIs, MovesKeep
  <2>3. TypeInv'
    <3>1. run' = run \/ run' = NoRun
      BY <1>1, PutSucceedsIs, RunGoesOn
    <3>2. conflict' \in BOOLEAN /\ error' \in BOOLEAN
      BY <1>1, PutSucceedsIs DEF TypeInv
    <3>. QED BY <1>1, <2>2, <3>1, <3>2, PutSucceedsIs, TypesKept DEF TypeInv
  <2>. QED BY <2>2, <2>3
<1>2. CASE PutRefused
  <2>1. Moves(doc)
    BY <1>2, PutRefusedIs DEF Continues, Moves
  <2>2. CoordinatorTypes' /\ StoreOK' /\ OperationsOK'
    BY <1>0, <1>2, <2>1, PutRefusedIs, MovesKeep
  <2>3. TypeInv'
    <3>1. run' = run \/ run' = NoRun
      BY <1>2, PutRefusedIs, RunGoesOn
    <3>2. conflict' \in BOOLEAN /\ error' \in BOOLEAN
      BY <1>2, PutRefusedIs DEF TypeInv
    <3>. QED BY <1>2, <2>2, <3>1, <3>2, PutRefusedIs, TypesKept DEF TypeInv
  <2>. QED BY <2>2, <2>3
<1>3. CASE PutConflicts
  <2>1. Moves(doc)
    BY <1>3, PutConflictsIs DEF Moves
  <2>2. CoordinatorTypes' /\ StoreOK' /\ OperationsOK'
    BY <1>0, <1>3, <2>1, PutConflictsIs, MovesKeep
  <2>3. TypeInv'
    <3>1. run' = run \/ run' = NoRun
      BY <1>3, PutConflictsIs, RunGoesOn
    <3>2. conflict' \in BOOLEAN /\ error' \in BOOLEAN
      BY <1>3, PutConflictsIs DEF TypeInv
    <3>. QED BY <1>3, <2>2, <3>1, <3>2, PutConflictsIs, TypesKept DEF TypeInv
  <2>. QED BY <2>2, <2>3
<1>4. CASE PutFails
  <2>1. Moves(doc) /\ late' \subseteq late \union InFlight
    BY <1>4, PutFailsIs DEF Moves, InFlight
  <2>2. CoordinatorTypes' /\ StoreOK' /\ OperationsOK'
    BY <1>0, <1>4, <2>1, PutFailsIs, MovesKeep
  <2>3. TypeInv'
    <3>1. run' = run \/ run' = NoRun
      BY <1>4, PutFailsIs, RunGoesOn
    <3>2. conflict' \in BOOLEAN /\ error' \in BOOLEAN
      BY <1>4, PutFailsIs DEF TypeInv
    <3>. QED BY <1>4, <2>2, <3>1, <3>2, PutFailsIs, TypesKept DEF TypeInv
  <2>. QED BY <2>2, <2>3
<1>. QED BY <1>1, <1>2, <1>3, <1>4

\* What the user and the run do to a document that stays loaded.
LEMMA LocalKeeps ==
  ASSUME IInv, Edit \/ Save \/ RunCell \/ ApplyExecutionResult \/ RunFails
  PROVE  IInv'
<1>. USE DEF IInv
<1>0. doc \in Documents /\ (doc.revision # 0 => doc.content \in Contents)
  BY DEF TypeInv
<1>1. CASE Edit
  <2>1. Moves(doc)
    BY <1>1, EditIs DEF Moves, coordinator
  <2>2. CoordinatorTypes' /\ StoreOK' /\ OperationsOK'
    BY <1>0, <1>1, <2>1, EditIs, MovesKeep
  <2>3. TypeInv'
    BY <1>1, <2>2, EditIs DEF TypeInv, coordinator
  <2>. QED BY <2>2, <2>3
<1>2. CASE Save
  <2>1. Moves(doc)
    BY <1>2, SaveIs DEF Moves, Flushes
  <2>2. CoordinatorTypes' /\ StoreOK' /\ OperationsOK'
    BY <1>0, <1>2, <2>1, SaveIs, MovesKeep
  <2>3. TypeInv'
    BY <1>2, <2>2, SaveIs DEF TypeInv, Flushes, Documents
  <2>. QED BY <2>2, <2>3
<1>3. CASE RunCell
  <2>1. PICK c \in Cells :
          run' = [phase |-> "kernel", cell |-> c, source |-> doc.content[c].source]
    BY <1>3 DEF RunCell
  <2>2. /\ doc.revision # 0
        /\ UNCHANGED <<store, doc, coordinator, late, get, error, failures, asked, loaded>>
    BY <1>3 DEF RunCell, Shown
  <2>3. Moves(doc)
    BY <2>2 DEF Moves, coordinator
  <2>4. CoordinatorTypes' /\ StoreOK' /\ OperationsOK'
    BY <1>0, <2>2, <2>3, MovesKeep
  <2>5. doc.content[c].source \in Sources
    BY <2>2 DEF TypeInv, Contents
  <2>6. TypeInv'
    BY <2>1, <2>2, <2>4, <2>5 DEF TypeInv, coordinator
  <2>. QED BY <2>4, <2>6
<1>4. CASE ApplyExecutionResult
  <2>1. Moves(doc')
    BY <1>4, ApplyExecutionResultIs DEF Moves, Flushes, coordinator
  <2>2. CoordinatorTypes' /\ StoreOK' /\ OperationsOK'
    BY <1>4, <2>1, ApplyExecutionResultIs, MovesKeep
  <2>3. asked' \in 0 .. MaxGeneration
    BY <1>4, ApplyExecutionResultIs DEF TypeInv, Flushes, Documents
  <2>4. /\ run' \in [phase : {"none", "kernel", "flush"}, cell : Cells \union {None},
                     source : Sources \union {None}]
        /\ run'.phase # "none" => run'.cell \in Cells /\ run'.source \in Sources
        /\ run'.phase = "none" => run' = NoRun
    BY <1>4, ApplyExecutionResultIs DEF TypeInv, NoRun
  <2>5. TypeInv'
    BY <1>4, <2>2, <2>3, <2>4, ApplyExecutionResultIs DEF TypeInv
  <2>. QED BY <2>2, <2>5
<1>5. CASE RunFails
  <2>1. run' = NoRun
        /\ UNCHANGED <<store, doc, coordinator, late, get, error, failures, asked, loaded>>
    BY <1>5 DEF RunFails
  <2>2. Moves(doc) /\ doc.revision # 0
    BY <1>5, <2>1 DEF Moves, coordinator, RunFails, TypeInv
  <2>3. CoordinatorTypes' /\ StoreOK' /\ OperationsOK'
    BY <1>0, <2>1, <2>2, MovesKeep
  <2>4. TypeInv'
    BY <2>1, <2>3 DEF TypeInv, coordinator, NoRun
  <2>. QED BY <2>3, <2>4
<1>. QED BY <1>1, <1>2, <1>3, <1>4, <1>5

\* Loads, reloads and refreshes.
LEMMA LoadsKeep ==
  ASSUME IInv, Reload \/ Refresh \/ GetSucceeds \/ GetFails
  PROVE  IInv'
<1>. USE DEF IInv
<1>0. doc \in Documents /\ (doc.revision # 0 => doc.content \in Contents)
  BY DEF TypeInv
<1>1. GetSent \in [phase : {"none", "sent", "answered"}, revision : Nat,
                   content : Contents \union {None}] /\ GetSent.revision = 0
  <2>1. NoGet = [phase |-> "none", revision |-> 0, content |-> None]
    BY DEF NoGet
  <2>2. [NoGet EXCEPT !.phase = "sent"]
          = [phase |-> "sent", revision |-> 0, content |-> None]
    BY <2>1
  <2>. QED BY <2>2 DEF GetSent
<1>2. CASE Reload
  <2>1. get' = GetSent /\ error' = FALSE
        /\ UNCHANGED <<store, doc, coordinator, late, run, failures, asked, loaded>>
    BY <1>2 DEF Reload
  <2>2. Moves(doc) /\ doc.revision # 0
    BY <1>2, <2>1 DEF Moves, coordinator, Reload, Shown
  <2>3. CoordinatorTypes' /\ StoreOK' /\ OperationsOK'
    BY <1>0, <2>1, <2>2, MovesKeep
  <2>4. TypeInv'
    BY <1>1, <2>1, <2>3 DEF TypeInv, coordinator
  <2>. QED BY <2>3, <2>4
<1>3. CASE Refresh
  <2>1. /\ doc' = NoDocument
        /\ pending' = None /\ flushRequested' = FALSE /\ conflict' = FALSE
        /\ loop' = "idle" /\ put' = NoPut /\ operations' = operations
        /\ late' \subseteq late \union InFlight
        /\ get' = GetSent /\ run' = NoRun /\ error' = FALSE
        /\ asked' = 0 /\ loaded' = NothingLoaded /\ UNCHANGED <<store, failures>>
    BY <1>3 DEF Refresh, InFlight
  <2>2. Moves(doc) /\ ~ Begins(doc)
    BY <2>1 DEF Moves, Ends, Begins, TypeInv, CoordinatorTypes
  <2>3. CoordinatorTypes' /\ StoreOK' /\ OperationsOK'
    BY <1>0, <2>1, <2>2, MovesKeep
  <2>4. TypeInv'
    <3>1. doc' \in Documents /\ doc'.revision = 0
      BY <2>1 DEF NoDocument, Documents
    <3>2. /\ run' \in [phase : {"none", "kernel", "flush"}, cell : Cells \union {None},
                       source : Sources \union {None}]
          /\ run'.phase = "none"
      BY <2>1 DEF NoRun
    <3>3. /\ failures' \in 0 .. MaxFailures
          /\ asked' \in 0 .. MaxGeneration
          /\ loaded' \in [revision : Nat, operations : Nat]
      BY <2>1, BoundsAreNaturals DEF TypeInv, NothingLoaded
    <3>4. conflict' \in BOOLEAN /\ error' \in BOOLEAN
      BY <2>1, Zenon
    <3>. QED BY <3>4, <1>1, <2>1, <2>3, <3>1, <3>2, <3>3 DEF TypeInv
  <2>. QED BY <2>3, <2>4
<1>4. CASE GetSucceeds
  <2>1. Moves(doc')
    BY <1>4, GetSucceedsIs DEF Moves
  <2>2. CoordinatorTypes' /\ StoreOK' /\ OperationsOK'
    BY <1>4, <2>1, GetSucceedsIs, MovesKeep
  <2>3. TypeInv'
    <3>1. /\ get' \in [phase : {"none", "sent", "answered"}, revision : Nat,
                       content : Contents \union {None}]
          /\ get'.revision = 0
      BY <1>4, GetSucceedsIs DEF NoGet
    <3>2. /\ doc' \in Documents /\ doc'.revision # 0 /\ doc'.content \in Contents
          /\ asked' \in 0 .. MaxGeneration
          /\ loaded' \in [revision : Nat, operations : Nat]
      <4>1. asked' = 0 /\ loaded' = [revision |-> get.revision, operations |-> operations]
        BY <1>4, GetSucceedsIs
      <4>2. get.revision \in Nat /\ operations \in Nat
        BY DEF TypeInv, CoordinatorTypes
      <4>. QED BY <1>4, <4>1, <4>2, GetSucceedsIs, BoundsAreNaturals
    <3>4. conflict' \in BOOLEAN
      BY <1>4, GetSucceedsIs, Zenon
    <3>3. UNCHANGED <<run, error, failures>>
      BY <1>4, GetSucceedsIs
    <3>. QED BY <2>2, <3>1, <3>2, <3>3, <3>4 DEF TypeInv
  <2>. QED BY <2>2, <2>3
<1>5. CASE GetFails
  <2>1. /\ get' = NoGet /\ error' = TRUE /\ failures' \in 0 .. MaxFailures
        /\ UNCHANGED <<store, doc, coordinator, late, run, asked, loaded>>
    BY <1>5 DEF GetFails, TypeInv
  <2>2. Moves(doc) /\ ~ Begins(doc)
    BY <2>1 DEF Moves, Begins, coordinator, TypeInv, CoordinatorTypes
  <2>3. CoordinatorTypes' /\ StoreOK' /\ OperationsOK'
    BY <1>0, <2>1, <2>2, MovesKeep
  <2>4. TypeInv'
    BY <2>1, <2>3 DEF TypeInv, coordinator, NoGet
  <2>. QED BY <2>3, <2>4
<1>. QED BY <1>2, <1>3, <1>4, <1>5

\* The service carries out an operation of the tab, or only answers.
LEMMA ServiceKeeps ==
  ASSUME IInv, NEW op \in Live, NEW status, NEW revision, Serve(op, status, revision),
         Live' \subseteq Live, operations' = operations,
         \/ put' = put
         \/ put'.op = op /\ put'.status = status /\ put'.revision = revision
  PROVE  StoreOK' /\ OperationsOK'
<1>. USE DEF IInv
<1>0. Live \subseteq SaveOperations /\ op \in SaveOperations /\ op.key \in Nat
  BY DEF Live, TypeInv, CoordinatorTypes, SaveOperations, Keys
<1>1. /\ StoreOK'
      /\ \/ UNCHANGED store
         \/ \E r \in {op.base, op.base + 1} :
              ledger' = ledger \union {SaveEffect(op.key, op.base, r, op.content)}
      /\ status = "ok" => \E e \in ledger' : Recorded(op, e) /\ e.revision = revision
  BY <1>0, ServeIs
<1>2. /\ ledger \subseteq ledger'
      /\ \A e \in ledger' : e \in ledger
           \/ (e.scope = "PUT" /\ e.key = op.key /\ e.base = op.base /\ e.content = op.content)
  BY <1>1 DEF SaveEffect, store
<1>3. /\ \A other \in Live' : other.key <= operations'
      /\ \A o1, o2 \in Live' : o1.key = o2.key => o1 = o2
  BY DEF OperationsOK
<1>4. \A e \in ledger' : e.scope = "PUT" /\ e.key \in Nat => e.key <= operations'
  BY <1>2 DEF OperationsOK
<1>5. \A other \in Live', e \in ledger' :
        Recorded(other, e) => e.base = other.base /\ e.content = other.content
  BY <1>2 DEF OperationsOK, Recorded
<1>6. put'.phase = "answered" /\ put'.status = "ok" =>
        \E e \in ledger' : Recorded(put'.op, e) /\ e.revision = put'.revision
  BY <1>1, <1>2 DEF OperationsOK
<1>. QED BY <1>1, <1>3, <1>4, <1>5, <1>6 DEF OperationsOK

\* The service answers the PUT the tab waits for.
LEMMA ServePutIs ==
  ASSUME IInv, ServePut
  PROVE  /\ put.phase = "sent" /\ put.op \in SaveOperations /\ doc.revision # 0
         /\ \E status \in {"ok", "conflict", "refused"}, revision \in Nat :
              /\ Serve(put.op, status, revision)
              /\ put' = [phase |-> "answered", op |-> put.op, status |-> status,
                         revision |-> revision]
         /\ UNCHANGED <<doc, pending, flushRequested, conflict, loop, operations,
                        late, get, run, error, failures, asked, loaded>>
<1>1. PICK status \in {"ok", "conflict", "refused"},
           revision \in {0} \union Revisions \union {r + 1 : r \in Revisions} :
        /\ Serve(put.op, status, revision)
        /\ put' = [put EXCEPT !.phase = "answered", !.status = status,
                              !.revision = revision]
  BY DEF ServePut
<1>2. /\ put.phase = "sent" /\ put.op \in SaveOperations /\ doc.revision # 0
      /\ put = [phase |-> put.phase, op |-> put.op, status |-> put.status,
                revision |-> put.revision]
      /\ UNCHANGED <<doc, pending, flushRequested, conflict, loop, operations,
                     late, get, run, error, failures, asked, loaded>>
  BY DEF ServePut, IInv, TypeInv, CoordinatorTypes
<1>3. Revisions \subseteq Nat
  BY DEF Revisions, IInv, StoreOK
<1>4. revision \in Nat
  BY <1>1, <1>3
<1>5. put' = [phase |-> "answered", op |-> put.op, status |-> status,
              revision |-> revision]
  <2>1. [put EXCEPT !.phase = "answered"]
          = [phase |-> "answered", op |-> put.op, status |-> put.status,
             revision |-> put.revision]
    BY <1>2
  <2>2. [[phase |-> "answered", op |-> put.op, status |-> put.status,
          revision |-> put.revision] EXCEPT !.status = status]
          = [phase |-> "answered", op |-> put.op, status |-> status,
             revision |-> put.revision]
    OBVIOUS
  <2>3. [[phase |-> "answered", op |-> put.op, status |-> status,
          revision |-> put.revision] EXCEPT !.revision = revision]
          = [phase |-> "answered", op |-> put.op, status |-> status,
             revision |-> revision]
    OBVIOUS
  <2>4. put' = [[[put EXCEPT !.phase = "answered"] EXCEPT !.status = status]
                 EXCEPT !.revision = revision]
    BY <1>1, Zenon
  <2>. QED BY <2>1, <2>2, <2>3, <2>4, Zenon
<1>. QED BY <1>1, <1>2, <1>4, <1>5

\* The answer to a load: the latest version, or that there is none.
LEMMA ServeGetIs ==
  ASSUME IInv, ServeGet
  PROVE  /\ get.phase = "sent" /\ get'.phase = "answered"
         /\ get' \in [phase : {"none", "sent", "answered"}, revision : Nat,
                      content : Contents \union {None}]
         /\ \/ get'.revision = get.revision /\ get'.content = get.content
            \/ get'.revision # 0 /\ get'.content \in Contents
               /\ VersionOf(get') \in versions /\ Store!Latest(Notebook, get'.revision)
         /\ UNCHANGED <<store, doc, coordinator, late, run, error, failures, asked,
                        loaded>>
<1>1. PICK v \in versions :
        /\ Store!Latest(Notebook, v.revision)
        /\ get' = IF Notebook \in deleted
                  THEN [get EXCEPT !.phase = "answered"]
                  ELSE [phase |-> "answered", revision |-> v.revision,
                        content |-> v.content]
  BY DEF ServeGet
<1>2. v = [notebook |-> Notebook, revision |-> v.revision, content |-> v.content]
      /\ v.revision \in Nat \ {0} /\ v.content \in Contents
  BY DEF IInv, StoreOK
<1>3. /\ get.phase = "sent"
      /\ get \in [phase : {"none", "sent", "answered"}, revision : Nat,
                  content : Contents \union {None}]
      /\ UNCHANGED <<store, doc, coordinator, late, run, error, failures, asked, loaded>>
  BY DEF ServeGet, IInv, TypeInv
<1>4. [get EXCEPT !.phase = "answered"]
        = [phase |-> "answered", revision |-> get.revision, content |-> get.content]
  BY <1>3
<1>5. CASE Notebook \in deleted
  BY <1>1, <1>3, <1>4, <1>5
<1>6. CASE Notebook \notin deleted
  BY <1>1, <1>2, <1>3, <1>6 DEF VersionOf
<1>. QED BY <1>5, <1>6

\* The other client changes one cell of the latest version.
LEMMA OtherSaveIs ==
  ASSUME IInv, OtherSave
  PROVE  /\ \E key \in OtherKeys, v \in versions, c \in Contents :
              /\ StoreOK' /\ versions \subseteq versions' /\ deleted' = deleted
              /\ \A w \in versions : w.revision <= v.revision
              /\ ledger' = ledger
                           \union {SaveEffect(key, v.revision, v.revision + 1, c)}
              /\ \A k \in Cells : c[k].source \in Rejected
                                    => v.content[k].source \in Rejected
         /\ UNCHANGED <<doc, coordinator, late, get, run, error, failures, asked,
                        loaded>>
<1>1. PICK key \in OtherKeys, v \in versions, k \in Cells, s \in Sources \ Rejected :
        Store!StoreSave(key, Notebook, v.revision,
                        [v.content EXCEPT ![k] = [source |-> s, output |-> None]])
  BY DEF OtherSave
<1>. DEFINE c == [v.content EXCEPT ![k] = [source |-> s, output |-> None]]
<1>2. v.revision \in Nat \ {0} /\ v.content \in Contents
  BY DEF IInv, StoreOK
<1>3. /\ c \in Contents
      /\ \A j \in Cells : c[j].source \in Rejected => v.content[j].source \in Rejected
  BY <1>2 DEF Contents
<1>. HIDE DEF c
<1>4. /\ StoreOK' /\ versions \subseteq versions' /\ deleted' = deleted
      /\ \A w \in versions : w.revision <= v.revision
      /\ ledger' = ledger \union {SaveEffect(key, v.revision, v.revision + 1, c)}
  <2>1. Store!StoreSave(key, Notebook, v.revision, c)
    BY <1>1 DEF c
  <2>. QED BY <1>2, <1>3, <2>1, SaveAdds DEF IInv
<1>5. UNCHANGED <<doc, coordinator, late, get, run, error, failures, asked, loaded>>
  BY DEF OtherSave
<1>. QED BY <1>3, <1>4, <1>5

\* What the service does, for this tab and for the other client.
LEMMA ServiceStepsKeep ==
  ASSUME IInv, ServePut \/ ServeLate \/ ServeGet \/ OtherSave \/ OtherDelete
  PROVE  IInv'
<1>1. CASE ServePut
  <2>1. PICK status \in {"ok", "conflict", "refused"}, revision \in Nat :
          /\ Serve(put.op, status, revision)
          /\ put' = [phase |-> "answered", op |-> put.op, status |-> status,
                     revision |-> revision]
    BY <1>1, ServePutIs
  <2>2. /\ put.phase = "sent" /\ put.op \in SaveOperations /\ doc.revision # 0
        /\ UNCHANGED <<doc, pending, flushRequested, conflict, loop, operations,
                       late, get, run, error, failures, asked, loaded>>
    BY <1>1, ServePutIs
  <2>3. put.op \in Live /\ Live' \subseteq Live
    BY <2>1, <2>2 DEF Live
  <2>4. StoreOK' /\ OperationsOK'
    BY <2>1, <2>2, <2>3, ServiceKeeps
  <2>5. status = "ok" => revision # 0
    BY <2>1, <2>2, ServeIs DEF IInv
  <2>6. CoordinatorTypes'
    BY <2>1, <2>2, <2>5 DEF IInv, TypeInv, CoordinatorTypes
  <2>7. TypeInv'
    BY <2>2, <2>6 DEF IInv, TypeInv
  <2>. QED BY <2>4, <2>7 DEF IInv
<1>2. CASE ServeLate
  <2>1. PICK op \in late, status \in {"ok", "conflict", "refused"},
             revision \in {0} \union Revisions \union {r + 1 : r \in Revisions} :
          Serve(op, status, revision) /\ late' = late \ {op}
    BY <1>2 DEF ServeLate
  <2>2. UNCHANGED <<doc, coordinator, get, run, error, failures, asked, loaded>>
    BY <1>2 DEF ServeLate
  <2>3. op \in Live /\ Live' \subseteq Live
    BY <2>1, <2>2 DEF Live, coordinator
  <2>4. StoreOK' /\ OperationsOK'
    BY <2>1, <2>2, <2>3, ServiceKeeps DEF coordinator
  <2>5. TypeInv'
    BY <2>1, <2>2 DEF IInv, TypeInv, CoordinatorTypes, coordinator
  <2>. QED BY <2>4, <2>5 DEF IInv
<1>3. CASE ServeGet
  <2>1. TypeInv'
    BY <1>3, ServeGetIs DEF IInv, TypeInv, CoordinatorTypes, coordinator
  <2>2. StoreOK'
    BY <1>3, ServeGetIs DEF IInv, StoreOK, store, Store!Latest
  <2>3. OperationsOK'
    BY <1>3, ServeGetIs DEF IInv, OperationsOK, Live, store, coordinator
  <2>. QED BY <2>1, <2>2, <2>3 DEF IInv
<1>4. CASE OtherSave
  <2>1. PICK key \in OtherKeys, v \in versions, c \in Contents :
          /\ StoreOK' /\ versions \subseteq versions' /\ deleted' = deleted
          /\ ledger' = ledger \union {SaveEffect(key, v.revision, v.revision + 1, c)}
    BY <1>4, OtherSaveIs
  <2>2. UNCHANGED <<doc, coordinator, late, get, run, error, failures, asked, loaded>>
    BY <1>4, OtherSaveIs
  <2>3. TypeInv'
    BY <2>2 DEF IInv, TypeInv, CoordinatorTypes, coordinator
  <2>4. key \notin Nat /\ \A op \in Live : op.key \in Nat
    BY DEF IInv, Live, TypeInv, CoordinatorTypes, SaveOperations, Keys
  <2>5. /\ ledger \subseteq ledger'
        /\ \A e \in ledger' : e \in ledger \/ e.key \notin Nat
    BY <2>1, <2>4 DEF SaveEffect
  <2>6. OperationsOK'
    BY <2>2, <2>4, <2>5 DEF IInv, OperationsOK, Live, Recorded, coordinator
  <2>. QED BY <2>1, <2>3, <2>6 DEF IInv
<1>5. CASE OtherDelete
  <2>1. UNCHANGED <<versions, ledger, doc, coordinator, late, get, run, error,
                    failures, asked, loaded>>
    BY <1>5 DEF OtherDelete, Store!StoreDelete
  <2>2. TypeInv'
    BY <2>1 DEF IInv, TypeInv, CoordinatorTypes, coordinator
  <2>3. StoreOK'
    BY <2>1 DEF IInv, StoreOK, Store!Latest
  <2>4. OperationsOK'
    BY <2>1 DEF IInv, OperationsOK, Live, coordinator
  <2>. QED BY <2>2, <2>3, <2>4 DEF IInv
<1>. QED BY <1>1, <1>2, <1>3, <1>4, <1>5

-----------------------------------------------------------------------------
(* The invariant. *)

\* It holds when the page is opened.
LEMMA InitIInv ==
  ASSUME Init
  PROVE  IInv
<1>1. PICK c \in FirstContents :
        /\ versions = {[notebook |-> Notebook, revision |-> 1, content |-> c]}
        /\ ledger = {[scope |-> "POST", key |-> 0, base |-> 0,
                      notebook |-> Notebook, revision |-> 1, content |-> c]}
  BY DEF Init
<1>2. c \in Contents
  BY <1>1 DEF FirstContents, Contents
<1>3. /\ doc = NoDocument
      /\ pending = None /\ flushRequested = FALSE /\ conflict = FALSE
      /\ loop = "idle" /\ put = NoPut /\ late = {}
      /\ get = GetSent /\ run = NoRun /\ error = FALSE
      /\ operations = 0 /\ failures = 0 /\ asked = 0
      /\ loaded = NothingLoaded
  BY DEF Init
<1>4. /\ get \in [phase : {"none", "sent", "answered"}, revision : Nat,
                  content : Contents \union {None}]
      /\ get.revision = 0
  <2>1. NoGet = [phase |-> "none", revision |-> 0, content |-> None]
    BY DEF NoGet
  <2>2. [NoGet EXCEPT !.phase = "sent"]
          = [phase |-> "sent", revision |-> 0, content |-> None]
    BY <2>1
  <2>. QED BY <1>3, <2>2 DEF GetSent
<1>5. CoordinatorTypes
  <2>1. flushRequested \in BOOLEAN /\ ~ flushRequested
    BY <1>3, Zenon
  <2>2. /\ put \in [phase : {"none", "sent", "answered"},
                    op : SaveOperations \union {None},
                    status : {"none", "ok", "conflict", "refused"}, revision : Nat]
        /\ put.phase = "none"
    BY <1>3 DEF NoPut
  <2>3. operations \in 0 .. MaxOperations
    BY <1>3, BoundsAreNaturals
  <2>. QED BY <1>3, <2>1, <2>2, <2>3 DEF CoordinatorTypes
<1>6. TypeInv
  <2>1. doc \in Documents /\ doc.revision = 0
    BY <1>3, BoundsAreNaturals DEF NoDocument, Documents
  <2>2. /\ run \in [phase : {"none", "kernel", "flush"}, cell : Cells \union {None},
                    source : Sources \union {None}]
        /\ run.phase = "none"
    BY <1>3 DEF NoRun
  <2>3. /\ failures \in 0 .. MaxFailures
        /\ asked \in 0 .. MaxGeneration
        /\ loaded \in [revision : Nat, operations : Nat]
    BY <1>3, BoundsAreNaturals DEF NothingLoaded
  <2>4. conflict \in BOOLEAN /\ error \in BOOLEAN
    BY <1>3, Zenon
  <2>. QED BY <1>3, <1>4, <1>5, <2>1, <2>2, <2>3, <2>4 DEF TypeInv
<1>7. StoreOK
  BY <1>1, <1>2 DEF StoreOK, Store!Latest, Adds, VersionOf
<1>8. OperationsOK
  BY <1>1, <1>3 DEF OperationsOK, Live, NoPut
<1>. QED BY <1>6, <1>7, <1>8 DEF IInv

\* Every step keeps it.
LEMMA StepIInv ==
  ASSUME IInv, [Next]_vars
  PROVE  IInv'
<1>1. CASE UNCHANGED vars
  <2>1. TypeInv'
    BY <1>1 DEF IInv, TypeInv, CoordinatorTypes, vars, store, coordinator
  <2>2. StoreOK'
    BY <1>1 DEF IInv, StoreOK, Store!Latest, vars, store
  <2>3. OperationsOK'
    BY <1>1 DEF IInv, OperationsOK, Live, vars, store, coordinator
  <2>. QED BY <2>1, <2>2, <2>3 DEF IInv
<1>. QED BY <1>1, PutsKeep, LocalKeeps, LoadsKeep, ServiceStepsKeep DEF Next

\* The invariant holds in every behaviour.
THEOREM Invariance == Spec => []IInv
BY InitIInv, StepIInv, PTL DEF Spec

\* Shapes, and that a PUT is awaited exactly while the loop runs.
THEOREM TypeCorrect == Spec => []TypeOK
<1>1. IInv => TypeOK
  <2>. SUFFICES ASSUME IInv PROVE TypeOK
    OBVIOUS
  <2>1. doc = NoDocument \/ (doc.revision > 0 /\ doc.content \in Contents)
    BY DEF IInv, TypeInv, Documents
  <2>2. {flushRequested, conflict, error} \subseteq BOOLEAN
    BY Zenon DEF IInv, TypeInv, CoordinatorTypes
  <2>. QED BY <2>1, <2>2 DEF IInv, TypeInv, CoordinatorTypes, Documents, TypeOK
<1>. QED BY <1>1, Invariance, PTL

-----------------------------------------------------------------------------
(* A tab whose reloads never meet a run. *)

\* NotebookPage disables Reload while saving but not while a cell runs.
RaceFree == ~ ({"run", "reload"} \subseteq Features)

\* While the page loads nothing else is under way, and the PUT under way is the
\* pending operation.
NoRace ==
  /\ Loading => loop = "idle" /\ run.phase = "none"
  /\ put.phase # "none" => pending = put.op
  /\ "run" \notin Features => run.phase = "none"

\* Operation p was created from d, or from an earlier state of it.
CreatedFrom(p, d) ==
  p # None => /\ p.base = d.revision
              /\ p.generation <= d.generation
              /\ p.generation = d.generation => p.content = d.content

\* The document descends from the version whose revision it carries.
DocumentOK ==
  /\ CreatedFrom(pending, doc)
  /\ doc.saved <= doc.generation
  /\ doc.revision # 0 => \E v \in versions : v.revision = doc.revision
  /\ get.revision # 0 => VersionOf(get) \in versions
  /\ SavedIsStored
  /\ NothingOverwrittenUnseen

\* The generation last asked for is saved, under way, or queued.
RequestsKept ==
  /\ asked <= doc.generation
  /\ Saving => flushRequested \/ asked <= put.op.generation
  /\ ~ error /\ ~ Saving /\ ~ Loading => asked <= doc.saved

\* What a load has given up was begun on a version it has seen; operations that
\* the document's saves use are newer.
GivenUpOK ==
  /\ loaded.operations <= operations
  /\ pending # None => pending.key > loaded.operations
  /\ \A op \in late : /\ op.key <= loaded.operations => op.base <= loaded.revision
                      /\ \E v \in versions : op.base <= v.revision
                      /\ get.revision # 0 => op.base <= get.revision
  /\ \A e \in ledger :
       /\ e.key \in 1 .. loaded.operations => e.base <= loaded.revision
       /\ e.key \in Nat /\ get.revision # 0 => e.base <= get.revision
  /\ ~ Loading => get.revision = 0

RunOK == run.phase = "kernel" => doc.content[run.cell].source = run.source

TabInv == NoRace /\ DocumentOK /\ GivenUpOK /\ RequestsKept /\ RunOK

\* What one state of TabInv says of the document, for its successors.
LEMMA Naturals ==
  ASSUME IInv
  PROVE  /\ doc.revision \in Nat /\ doc.generation \in Nat /\ doc.saved \in Nat
         /\ asked \in Nat /\ operations \in Nat
         /\ loaded.revision \in Nat /\ loaded.operations \in Nat
         /\ \A op \in SaveOperations : /\ op.base \in Nat /\ op.generation \in Nat
                                       /\ op # None /\ op.key \in Nat
         /\ \A e \in ledger : e.revision \in Nat \ {0} /\ e.base \in Nat
         /\ \A v \in versions : v.revision \in Nat \ {0}
         /\ pending # None => pending \in SaveOperations
BY BoundsAreNaturals DEF IInv, TypeInv, Documents, StoreOK, SaveOperations, Keys,
                         CoordinatorTypes

\* An operation begun now is created from the document it saves.
LEMMA BeginsFrom ==
  ASSUME IInv, NEW d \in Documents, d.revision # 0, d.content \in Contents, Begins(d)
  PROVE  /\ CreatedFrom(pending', d) /\ pending' = put'.op /\ put'.phase = "sent"
         /\ put'.op.generation = d.generation /\ loop' = "save"
<1>. DEFINE op == Operation(operations + 1, d)
<1>1. /\ op.base = d.revision /\ op.content = d.content /\ op.generation = d.generation
      /\ pending' = op /\ put'.op = op /\ put'.phase = "sent" /\ loop' = "save"
  BY NewOperation DEF IInv, Begins
<1>. HIDE DEF op
<1>2. d.generation <= d.generation
  BY BoundsAreNaturals DEF Documents
<1>. QED BY <1>1, <1>2 DEF CreatedFrom

\* Unless something is loaded, nothing is given up.
LEMMA GivenUpStays ==
  ASSUME IInv, TabInv, NEW d \in Documents, d.revision # 0, d.content \in Contents,
         \/ Begins(d)
         \/ pending' \in {None, pending} /\ operations' = operations,
         late' = late \/ (~ Loading /\ put.phase # "none" /\ doc.revision # 0
                         /\ late' = late \union {put.op}),
         get' = get \/ (get'.revision = 0 /\ get'.phase # "none") \/ get' = NoGet,
         loaded' = loaded, UNCHANGED store
  PROVE  GivenUpOK'
<1>0. /\ operations \in Nat /\ loaded.operations \in Nat
      /\ \A op \in SaveOperations : op.key \in Nat /\ op # None
  BY Naturals
<1>1. versions' = versions /\ ledger' = ledger
  BY DEF store
<1>2. /\ loaded.operations <= operations'
      /\ pending' # None => pending'.key > loaded.operations
  <2>0. loaded.operations <= operations
        /\ (pending # None => pending.key > loaded.operations)
    BY DEF TabInv, GivenUpOK
  <2>1. CASE Begins(d)
    <3>1. pending'.key = operations + 1 /\ operations' = operations + 1
      BY <2>1, NewOperation DEF IInv, Begins
    <3>. QED BY <1>0, <2>0, <3>1
  <2>2. CASE pending' \in {None, pending} /\ operations' = operations
    BY <2>0, <2>2
  <2>. QED BY <2>1, <2>2
<1>3. get'.revision # 0 => get' = get
  BY DEF NoGet
<1>4. \A op \in late' : /\ op.key <= loaded.operations => op.base <= loaded.revision
                        /\ \E v \in versions : op.base <= v.revision
                        /\ get'.revision # 0 => op.base <= get'.revision
  <2>0. \A op \in late :
          /\ op.key <= loaded.operations => op.base <= loaded.revision
          /\ \E v \in versions : op.base <= v.revision
          /\ get.revision # 0 => op.base <= get.revision
    BY Zenon DEF TabInv, GivenUpOK
  <2>1. CASE late' = late
    BY <1>3, <2>0, <2>1
  <2>2. CASE ~ Loading /\ put.phase # "none" /\ doc.revision # 0
             /\ late' = late \union {put.op}
    <3>1. put.op = pending /\ pending # None /\ put.op.base = doc.revision
          /\ put.op.key > loaded.operations /\ put.op \in SaveOperations
      BY <1>0, <2>2 DEF TabInv, NoRace, DocumentOK, CreatedFrom, GivenUpOK, IInv,
                        TypeInv, CoordinatorTypes
    <3>2. \E v \in versions : put.op.base <= v.revision
      BY <2>2, <3>1, Naturals DEF TabInv, DocumentOK
    <3>3. get'.revision = 0
      BY <1>3, <2>2 DEF TabInv, GivenUpOK
    <3>4. ~ (put.op.key <= loaded.operations)
      BY <1>0, <3>1
    <3>. QED BY <2>0, <2>2, <3>2, <3>3, <3>4
  <2>. QED BY <2>1, <2>2
<1>5. \A e \in ledger :
        /\ e.key \in 1 .. loaded.operations => e.base <= loaded.revision
        /\ e.key \in Nat /\ get'.revision # 0 => e.base <= get'.revision
  BY <1>3 DEF TabInv, GivenUpOK
<1>6. (~ Loading => get.revision = 0)'
  BY DEF TabInv, GivenUpOK, Loading, NoGet
<1>. QED BY <1>1, <1>2, <1>4, <1>5, <1>6 DEF GivenUpOK

\* A PUT that succeeds has stored what the tab sent, on top of what it loaded.
LEMMA PutSucceedsKeeps ==
  ASSUME IInv, TabInv, PutSucceeds
  PROVE  TabInv'
<1>0. /\ put.phase = "answered" /\ put.status = "ok" /\ doc.revision # 0
      /\ put.op \in SaveOperations
      /\ doc' \in Documents /\ doc'.revision # 0 /\ doc'.content \in Contents
      /\ doc'.revision = put.revision /\ doc'.content = doc.content
      /\ doc'.generation = doc.generation /\ doc'.saved = put.op.generation
      /\ error' = FALSE /\ Continues(doc')
      /\ versions' = versions /\ ledger' = ledger /\ get' = get
      /\ asked' = asked /\ loaded' = loaded /\ UNCHANGED <<store, late>>
  BY PutSucceedsIs DEF IInv, store
<1>1. PICK e \in ledger : Recorded(put.op, e) /\ e.revision = put.revision
  BY <1>0 DEF IInv, OperationsOK
<1>2. /\ e.base = put.op.base /\ e.content = put.op.content /\ VersionOf(e) \in versions
      /\ e.revision \in {e.base, e.base + 1} /\ e.key \in Nat
  <2>1. put.op \in Live
    BY <1>0 DEF Live
  <2>. QED BY <1>0, <1>1, <2>1, Naturals DEF IInv, OperationsOK, StoreOK, Adds, Recorded
<1>3. /\ loop # "idle" /\ ~ Loading /\ pending = put.op
      /\ put.op.base = doc.revision /\ put.op.generation <= doc.generation
      /\ put.op.generation = doc.generation => put.op.content = doc.content
  BY <1>0, Naturals DEF TabInv, NoRace, DocumentOK, CreatedFrom, IInv, TypeInv,
                        CoordinatorTypes
<1>4. CreatedFrom(pending', doc') /\ (put'.phase # "none" => pending' = put'.op)
  BY <1>0, BeginsFrom DEF Continues, CreatedFrom, Ends, NoPut
<1>5. NoRace'
  BY <1>0, <1>3, <1>4 DEF Continues, RunReleased, NoRun, TabInv, NoRace, Loading
<1>6. DocumentOK'
  <2>1. VersionOf(e).revision = doc'.revision
    BY <1>0, <1>1 DEF VersionOf
  <2>2. SavedIsStored'
    BY <1>0, <1>1, <1>2, <1>3 DEF SavedIsStored, VersionOf, Dirty
  <2>3. NothingOverwrittenUnseen'
    <3>. SUFFICES ASSUME NEW f \in ledger, Foreign(f), f.revision > loaded.revision
                  PROVE  doc'.revision < f.revision
      BY <1>0 DEF NothingOverwrittenUnseen, Foreign
    <3>1. doc.revision < f.revision
      BY DEF TabInv, DocumentOK, NothingOverwrittenUnseen
    <3>2. Adds(f) /\ e # f
      <4>1. CASE f.key \in OtherKeys
        BY <1>2, <4>1 DEF IInv, StoreOK
      <4>2. CASE f.key \in 1 .. loaded.operations
        <5>1. f.base <= loaded.revision /\ e.key > loaded.operations
          BY <1>0, <1>1, <1>3, <4>2, Naturals DEF TabInv, GivenUpOK, Recorded
        <5>2. Adds(f) \/ f.revision = f.base
          BY DEF IInv, StoreOK
        <5>. QED BY <4>2, <5>1, <5>2, Naturals
      <4>. QED BY <4>1, <4>2 DEF Foreign
    <3>3. Adds(e) => e.revision # f.revision
      BY <3>2 DEF IInv, StoreOK
    <3>. QED BY <1>0, <1>1, <1>2, <1>3, <3>1, <3>2, <3>3, Naturals DEF Adds
  <2>4. (get.revision # 0 => VersionOf(get) \in versions)'
    BY <1>0 DEF TabInv, DocumentOK, VersionOf
  <2>. QED BY <1>0, <1>2, <1>3, <1>4, <2>1, <2>2, <2>3, <2>4 DEF DocumentOK
<1>7. RequestsKept'
  <2>1. asked <= doc.generation /\ (flushRequested \/ asked <= put.op.generation)
    BY <1>3 DEF TabInv, RequestsKept, Saving
  <2>2. CASE Begins(doc')
    BY <1>0, <2>1, <2>2, BeginsFrom DEF RequestsKept, Saving
  <2>3. CASE Ends /\ (~ flushRequested \/ doc'.generation = doc'.saved)
    BY <1>0, <2>1, <2>3 DEF RequestsKept, Saving, Ends
  <2>. QED BY <1>0, <2>2, <2>3 DEF Continues
<1>8. RunOK'
  BY <1>0 DEF Continues, RunReleased, NoRun, TabInv, RunOK
<1>9. GivenUpOK'
  BY <1>0, GivenUpStays DEF Continues, Ends
<1>. QED BY <1>5, <1>6, <1>7, <1>8, <1>9 DEF TabInv

\* PUTs that end otherwise leave the document and say so.
LEMMA PutEndsKeep ==
  ASSUME IInv, TabInv, PutRefused \/ PutConflicts \/ PutFails
  PROVE  TabInv'
<1>0. /\ put.phase # "none" /\ doc.revision # 0 /\ doc' = doc /\ error' = TRUE
      /\ versions' = versions /\ ledger' = ledger /\ get' = get
      /\ asked' = asked /\ loaded' = loaded /\ UNCHANGED store
      /\ late' = late \/ late' = late \union {put.op}
      /\ \/ Continues(doc)
         \/ Ends /\ RunReleased /\ pending' \in {None, pending}
  BY PutRefusedIs, PutConflictsIs, PutFailsIs DEF IInv, store
<1>1. doc \in Documents /\ doc.content \in Contents /\ ~ Loading
  BY <1>0 DEF IInv, TypeInv, CoordinatorTypes, TabInv, NoRace
<1>2. \/ /\ Begins(doc) /\ CreatedFrom(pending', doc') /\ run' = run
         /\ pending' = put'.op /\ put'.phase = "sent"
         /\ put'.op.generation = doc.generation
      \/ /\ Ends /\ RunReleased /\ pending' \in {None, pending} /\ put'.phase = "none"
         /\ loop' = "idle"
  BY <1>0, <1>1, BeginsFrom DEF Continues, Ends, NoPut
<1>3. NoRace'
  BY <1>0, <1>1, <1>2 DEF TabInv, NoRace, Loading, RunReleased, NoRun
<1>4. DocumentOK'
  BY <1>0, <1>2 DEF TabInv, DocumentOK, CreatedFrom, SavedIsStored, Dirty, VersionOf,
                    NothingOverwrittenUnseen, Foreign
<1>5. RequestsKept'
  BY <1>0, <1>2, Naturals DEF TabInv, RequestsKept, Saving
<1>6. RunOK'
  BY <1>0, <1>2 DEF TabInv, RunOK, RunReleased, NoRun
<1>7. GivenUpOK'
  BY <1>0, <1>1, <1>2, GivenUpStays DEF Ends
<1>. QED BY <1>3, <1>4, <1>5, <1>6, <1>7 DEF TabInv

\* What a flush leaves to the loop, for the document d it saves.
LEMMA FlushesKeeps ==
  ASSUME IInv, TabInv, ~ Loading, doc.revision # 0,
         NEW d \in Documents, d.revision = doc.revision, d.content \in Contents,
         CreatedFrom(pending, d), Flushes(d)
  PROVE  /\ CreatedFrom(pending', d) /\ loop' # "idle"
         /\ put'.phase # "none" => pending' = put'.op
         /\ flushRequested' = TRUE \/ d.generation <= put'.op.generation
<1>1. CASE Queues
  BY <1>1 DEF Queues, Flushes, TabInv, NoRace, Saving
<1>2. CASE Replays
  BY <1>2 DEF Replays
<1>3. CASE Begins(d)
  BY <1>3, BeginsFrom, BoundsAreNaturals DEF Documents
<1>. QED BY <1>1, <1>2, <1>3 DEF Flushes

\* Local changes make the document dirty, and flushes are not forgotten.
LEMMA LocalKeepsTab ==
  ASSUME IInv, TabInv, Edit \/ Save \/ RunCell \/ ApplyExecutionResult \/ RunFails
  PROVE  TabInv'
<1>0. doc \in Documents /\ (doc.revision # 0 => doc.content \in Contents)
  BY DEF IInv, TypeInv
<1>1. ASSUME doc'.revision = doc.revision, doc'.generation = doc.generation + 1,
             doc'.saved = doc.saved, doc.revision # 0, UNCHANGED <<store, get, loaded>>
      PROVE  CreatedFrom(pending, doc')
             /\ (CreatedFrom(pending', doc') => DocumentOK')
             /\ asked <= doc'.generation
  <2>1. CreatedFrom(pending, doc')
    BY <1>1, Naturals DEF TabInv, DocumentOK, CreatedFrom
  <2>2. doc'.saved < doc'.generation /\ asked <= doc'.generation
    BY <1>1, Naturals DEF TabInv, DocumentOK, RequestsKept
  <2>3. versions' = versions /\ ledger' = ledger
    BY <1>1 DEF store
  <2>4. SavedIsStored' /\ NothingOverwrittenUnseen'
    BY <1>1, <2>2, <2>3, Naturals DEF TabInv, DocumentOK, SavedIsStored, Dirty,
                                      NothingOverwrittenUnseen, Foreign
  <2>5. (get.revision # 0 => VersionOf(get) \in versions)'
    BY <1>1, <2>3 DEF TabInv, DocumentOK, VersionOf
  <2>6. doc'.saved <= doc'.generation
    BY <1>1, <2>2, Naturals
  <2>. QED BY <1>1, <2>1, <2>2, <2>3, <2>4, <2>5, <2>6 DEF TabInv, DocumentOK
<1>2. CASE Edit
  <2>1. /\ UNCHANGED <<store, coordinator, late, get, run, error, failures, asked, loaded>>
        /\ ~ Loading /\ doc.revision # 0 /\ doc'.revision = doc.revision
        /\ doc'.generation = doc.generation + 1 /\ doc'.saved = doc.saved
        /\ run.cell \in Cells =>
             doc'.content[run.cell].source = doc.content[run.cell].source
    BY <1>2, EditIs DEF IInv
  <2>2. DocumentOK' /\ asked <= doc'.generation
    BY <1>1, <2>1 DEF coordinator
  <2>3. NoRace' /\ RequestsKept'
    BY <2>1, <2>2 DEF TabInv, NoRace, RequestsKept, coordinator, Loading, Saving
  <2>4. RunOK'
    BY <2>1 DEF TabInv, RunOK, IInv, TypeInv
  <2>5. GivenUpOK'
    BY <1>0, <2>1, GivenUpStays DEF coordinator
  <2>. QED BY <2>2, <2>3, <2>4, <2>5 DEF TabInv
<1>3. CASE Save
  <2>1. /\ ~ Loading /\ doc.revision # 0 /\ ~ Saving /\ Flushes(doc)
        /\ UNCHANGED <<store, doc, late, get, run, error, failures, loaded>>
    BY <1>3, SaveIs DEF IInv
  <2>2. /\ CreatedFrom(pending', doc) /\ loop' # "idle" /\ asked' = doc.generation
        /\ put'.phase # "none" => pending' = put'.op
        /\ flushRequested' = TRUE \/ doc.generation <= put'.op.generation
    BY <1>0, <2>1, FlushesKeeps DEF TabInv, DocumentOK, Flushes
  <2>3. DocumentOK'
    BY <2>1, <2>2 DEF TabInv, DocumentOK, SavedIsStored, Dirty, VersionOf,
                      NothingOverwrittenUnseen, Foreign, store
  <2>4. NoRace'
    BY <2>1, <2>2 DEF TabInv, NoRace, Loading
  <2>5. RequestsKept'
    BY <2>1, <2>2, Naturals DEF RequestsKept, Saving
  <2>6. RunOK'
    BY <2>1 DEF TabInv, RunOK
  <2>7. GivenUpOK'
    BY <1>0, <2>1, GivenUpStays DEF Flushes, Queues, Replays
  <2>. QED BY <2>3, <2>4, <2>5, <2>6, <2>7 DEF TabInv
<1>4. CASE RunCell
  <2>1. PICK c \in Cells :
          run' = [phase |-> "kernel", cell |-> c, source |-> doc.content[c].source]
    BY <1>4 DEF RunCell
  <2>2. /\ "run" \in Features /\ ~ Loading /\ doc.revision # 0
        /\ UNCHANGED <<store, doc, coordinator, late, get, error, failures, asked, loaded>>
    BY <1>4 DEF RunCell, Shown
  <2>3. DocumentOK'
    BY <2>2 DEF TabInv, DocumentOK, CreatedFrom, SavedIsStored, Dirty, VersionOf,
                NothingOverwrittenUnseen, Foreign, store, coordinator
  <2>4. NoRace' /\ RequestsKept'
    BY <2>2 DEF TabInv, NoRace, RequestsKept, Loading, Saving, coordinator
  <2>5. RunOK'
    BY <2>1, <2>2 DEF RunOK
  <2>6. GivenUpOK'
    BY <1>0, <2>2, GivenUpStays DEF coordinator
  <2>. QED BY <2>3, <2>4, <2>5, <2>6 DEF TabInv
<1>5. CASE ApplyExecutionResult
  <2>1. /\ run.phase = "kernel" /\ doc.revision # 0 /\ run.cell \in Cells
        /\ doc' \in Documents /\ doc'.revision = doc.revision
        /\ doc'.content \in Contents
        /\ doc'.generation = doc.generation + 1 /\ doc'.saved = doc.saved
        /\ UNCHANGED <<store, late, get, error, failures, loaded>>
        /\ \/ Flushes(doc') /\ run'.phase = "flush"
           \/ run'.phase = "none" /\ UNCHANGED <<coordinator, asked>>
    BY <1>5, ApplyExecutionResultIs DEF IInv, NoRun
  <2>2. CreatedFrom(pending, doc') /\ (CreatedFrom(pending', doc') => DocumentOK')
        /\ asked <= doc'.generation
    BY <1>1, <2>1
  <2>3. ~ Loading /\ "run" \in Features
    BY <2>1 DEF TabInv, NoRace
  <2>4. RunOK'
    BY <2>1 DEF RunOK
  <2>7. GivenUpOK'
    BY <2>1, GivenUpStays DEF Flushes, Queues, Replays, coordinator
  <2>5. CASE Flushes(doc') /\ run'.phase = "flush"
    <3>1. /\ CreatedFrom(pending', doc') /\ loop' # "idle" /\ asked' = doc'.generation
          /\ put'.phase # "none" => pending' = put'.op
          /\ flushRequested' = TRUE \/ doc'.generation <= put'.op.generation
      BY <2>1, <2>2, <2>3, <2>5, FlushesKeeps DEF Flushes
    <3>2. NoRace'
      BY <2>1, <2>3, <3>1 DEF NoRace, Loading
    <3>3. RequestsKept'
      BY <2>1, <3>1, Naturals DEF RequestsKept, Saving
    <3>. QED BY <2>2, <2>4, <2>7, <3>1, <3>2, <3>3 DEF TabInv
  <2>6. CASE run'.phase = "none" /\ UNCHANGED <<coordinator, asked>>
    <3>1. NoRace' /\ RequestsKept'
      BY <2>1, <2>2, <2>3, <2>6 DEF TabInv, NoRace, RequestsKept, Loading, Saving,
                                    coordinator
    <3>. QED BY <2>2, <2>4, <2>6, <2>7, <3>1 DEF TabInv, coordinator
  <2>. QED BY <2>1, <2>5, <2>6
<1>6. CASE RunFails
  <2>1. run'.phase = "none" /\ doc.revision # 0
        /\ UNCHANGED <<store, doc, coordinator, late, get, error, failures, asked, loaded>>
    BY <1>6 DEF RunFails, NoRun, IInv, TypeInv
  <2>2. DocumentOK'
    BY <2>1 DEF TabInv, DocumentOK, CreatedFrom, SavedIsStored, Dirty, VersionOf,
                NothingOverwrittenUnseen, Foreign, store, coordinator
  <2>3. NoRace' /\ RequestsKept' /\ RunOK'
    BY <2>1 DEF TabInv, NoRace, RequestsKept, RunOK, Loading, Saving, coordinator
  <2>4. GivenUpOK'
    BY <1>0, <2>1, GivenUpStays DEF coordinator
  <2>. QED BY <2>2, <2>3, <2>4 DEF TabInv
<1>. QED BY <1>2, <1>3, <1>4, <1>5, <1>6

\* A load starts from nothing under way and ends on a version of the store.
LEMMA LoadsKeepTab ==
  ASSUME RaceFree, IInv, TabInv, Reload \/ Refresh \/ GetSucceeds \/ GetFails
  PROVE  TabInv'
<1>0. /\ GetSent.revision = 0 /\ GetSent.phase = "sent"
      /\ NoGet.revision = 0 /\ NoGet.phase = "none"
  <2>1. NoGet = [phase |-> "none", revision |-> 0, content |-> None]
    BY DEF NoGet
  <2>2. [NoGet EXCEPT !.phase = "sent"]
          = [phase |-> "sent", revision |-> 0, content |-> None]
    BY <2>1
  <2>. QED BY <2>1, <2>2 DEF GetSent
<1>1. CASE Reload
  <2>1. /\ "reload" \in Features /\ ~ Saving /\ ~ Loading /\ doc.revision # 0
        /\ get' = GetSent
        /\ UNCHANGED <<store, doc, coordinator, late, run, failures, asked, loaded>>
    BY <1>1 DEF Reload, Shown
  <2>2. loop = "idle" /\ run.phase = "none"
    BY <2>1 DEF RaceFree, TabInv, NoRace, Saving
  <2>3. DocumentOK'
    BY <1>0, <2>1 DEF TabInv, DocumentOK, CreatedFrom, SavedIsStored, Dirty, VersionOf,
                      NothingOverwrittenUnseen, Foreign, store, coordinator
  <2>4. NoRace' /\ RunOK'
    BY <2>1, <2>2 DEF TabInv, NoRace, RunOK, coordinator
  <2>5. Loading'
    <3>1. [NoGet EXCEPT !.phase = "sent"].phase = "sent"
      BY DEF NoGet
    <3>. QED BY <2>1, <3>1 DEF GetSent, Loading
  <2>6. RequestsKept'
    BY <2>1, <2>2, <2>5 DEF TabInv, RequestsKept, Saving, coordinator
  <2>7. GivenUpOK'
    <3>1. doc \in Documents /\ doc.content \in Contents
      BY <2>1 DEF IInv, TypeInv
    <3>. QED BY <1>0, <2>1, <2>5, <3>1, GivenUpStays DEF coordinator, Loading
  <2>. QED BY <2>3, <2>4, <2>6, <2>7 DEF TabInv
<1>2. CASE Refresh
  <2>1. /\ doc' = NoDocument /\ pending' = None /\ loop' = "idle" /\ put' = NoPut
        /\ get' = GetSent /\ run' = NoRun /\ asked' = 0 /\ loaded' = NothingLoaded
        /\ UNCHANGED <<versions, ledger, operations>>
        /\ late' = IF put.phase = "sent" THEN late \union {put.op} ELSE late
    BY <1>2 DEF Refresh, store
  <2>2. doc'.revision = 0 /\ doc'.generation = 0 /\ doc'.saved = 0
        /\ put'.phase = "none" /\ run'.phase = "none"
    BY <2>1 DEF NoDocument, NoPut, NoRun
  <2>3. NothingOverwrittenUnseen'
    BY <2>1, <2>2, Naturals DEF NothingOverwrittenUnseen
  <2>4. DocumentOK'
    BY <1>0, <2>1, <2>2, <2>3 DEF DocumentOK, CreatedFrom, SavedIsStored
  <2>5. NoRace' /\ RequestsKept' /\ RunOK'
    BY <2>1, <2>2 DEF NoRace, RequestsKept, RunOK, Saving
  <2>6. GivenUpOK'
    <3>1. /\ loaded'.operations = 0 /\ loaded'.revision = 0 /\ get'.revision = 0
          /\ get'.phase # "none" /\ operations' \in Nat
      BY <1>0, <2>1, Naturals DEF NothingLoaded
    <3>0. \A op \in late : /\ op \in SaveOperations
                           /\ \E v \in versions : op.base <= v.revision
      BY Zenon DEF TabInv, GivenUpOK, IInv, TypeInv, CoordinatorTypes
    <3>2. \A op \in late' : /\ op \in SaveOperations
                            /\ \E v \in versions : op.base <= v.revision
      <4>1. CASE put.phase = "sent"
        <5>1. /\ put.op = pending /\ put.op \in SaveOperations /\ pending # None
              /\ doc.revision # 0 /\ put.op.base = doc.revision
          BY <4>1, Naturals DEF TabInv, NoRace, DocumentOK, CreatedFrom, IInv, TypeInv,
                                CoordinatorTypes
        <5>2. \E v \in versions : put.op.base <= v.revision
          BY <5>1, Naturals DEF TabInv, DocumentOK
        <5>. QED BY <2>1, <3>0, <4>1, <5>1, <5>2
      <4>2. CASE put.phase # "sent"
        BY <2>1, <3>0, <4>2
      <4>. QED BY <4>1, <4>2
    <3>3. \A op \in late' : op.key > 0
      BY <3>2 DEF SaveOperations, Keys
    <3>. QED BY <2>1, <3>1, <3>2, <3>3, Naturals DEF GivenUpOK, Loading
  <2>. QED BY <2>4, <2>5, <2>6 DEF TabInv
<1>3. CASE GetSucceeds
  <2>1. /\ get.phase = "answered" /\ get.revision # 0
        /\ doc' = [revision |-> get.revision, content |-> get.content,
                   generation |-> 0, saved |-> 0]
        /\ pending' = None /\ get' = NoGet /\ asked' = 0
        /\ loaded' = [revision |-> get.revision, operations |-> operations]
        /\ versions' = versions /\ ledger' = ledger
        /\ UNCHANGED <<flushRequested, loop, put, run, error, operations, late>>
    BY <1>3, GetSucceedsIs DEF IInv, store
  <2>2. /\ loop = "idle" /\ put.phase = "none" /\ run.phase = "none"
        /\ VersionOf(get) \in versions
    BY <2>1 DEF TabInv, NoRace, DocumentOK, Loading, IInv, TypeInv, CoordinatorTypes
  <2>3. /\ doc'.revision = get.revision /\ doc'.content = get.content
        /\ doc'.generation = 0 /\ doc'.saved = 0
    BY <2>1
  <2>4. VersionOf(get) = [notebook |-> Notebook, revision |-> doc'.revision,
                          content |-> doc'.content]
    BY <2>3 DEF VersionOf
  <2>5. SavedIsStored' /\ \E v \in versions' : v.revision = doc'.revision
    BY <2>1, <2>2, <2>4, Zenon DEF SavedIsStored, VersionOf
  <2>6. NothingOverwrittenUnseen'
    BY <2>1, <2>3 DEF NothingOverwrittenUnseen, Foreign
  <2>7. DocumentOK'
    BY <1>0, <2>1, <2>3, <2>5, <2>6 DEF DocumentOK, CreatedFrom
  <2>8. NoRace' /\ RequestsKept' /\ RunOK'
    BY <2>1, <2>2, <2>3 DEF NoRace, RequestsKept, RunOK, Saving
  <2>9. GivenUpOK'
    <3>1. /\ loaded'.revision = get.revision /\ loaded'.operations = operations
          /\ get'.revision = 0 /\ pending' = None
      BY <1>0, <2>1
    <3>2. \A op \in late : /\ \E v \in versions : op.base <= v.revision
                           /\ op.base <= get.revision
      BY <2>1, Zenon DEF TabInv, GivenUpOK
    <3>3. \A e \in ledger : e.key \in Nat => e.base <= get.revision
      BY <2>1 DEF TabInv, GivenUpOK
    <3>. QED BY <2>1, <3>1, <3>2, <3>3, Naturals DEF GivenUpOK
  <2>. QED BY <2>7, <2>8, <2>9 DEF TabInv
<1>4. CASE GetFails
  <2>1. /\ get' = NoGet /\ error' = TRUE
        /\ UNCHANGED <<store, doc, coordinator, late, run, asked, loaded>>
    BY <1>4 DEF GetFails
  <2>2. DocumentOK'
    BY <1>0, <2>1 DEF TabInv, DocumentOK, CreatedFrom, SavedIsStored, Dirty, VersionOf,
                      NothingOverwrittenUnseen, Foreign, store, coordinator
  <2>3. NoRace' /\ RequestsKept' /\ RunOK'
    BY <1>0, <2>1 DEF TabInv, NoRace, RequestsKept, RunOK, Saving, Loading, coordinator
  <2>4. GivenUpOK'
    BY <1>0, <2>1 DEF TabInv, GivenUpOK, Loading, store, coordinator
  <2>. QED BY <2>2, <2>3, <2>4 DEF TabInv
<1>. QED BY <1>1, <1>2, <1>3, <1>4

\* The service only adds versions; those of the other client come after the
\* version the tab is at.
LEMMA ServiceKeepsTab ==
  ASSUME IInv, TabInv, ServePut \/ ServeLate \/ ServeGet \/ OtherSave \/ OtherDelete
  PROVE  TabInv'
<1>. DEFINE SeenOrAhead(e) ==
              Foreign(e) /\ e.revision > loaded.revision => doc.revision < e.revision
<1>1. ASSUME UNCHANGED <<doc, pending, flushRequested, loop, run, error, asked, loaded>>,
             versions \subseteq versions',
             get' = get \/ (get'.phase # "none" /\ get.phase # "none"
                            /\ (get'.revision # 0 => VersionOf(get') \in versions)),
             put' = put \/ (put'.op = put.op /\ put'.phase # "none" /\ put.phase # "none"),
             \A e \in ledger' : e \in ledger \/ SeenOrAhead(e),
             GivenUpOK'
      PROVE  TabInv'
  <2>1. NoRace' /\ RequestsKept' /\ RunOK'
    BY <1>1 DEF TabInv, NoRace, RequestsKept, RunOK, Loading, Saving
  <2>2. SavedIsStored'
    BY <1>1 DEF TabInv, DocumentOK, SavedIsStored, Dirty
  <2>3. NothingOverwrittenUnseen'
    BY <1>1 DEF TabInv, DocumentOK, NothingOverwrittenUnseen, Foreign
  <2>4. (get.revision # 0 => VersionOf(get) \in versions)'
    BY <1>1 DEF TabInv, DocumentOK, VersionOf
  <2>5. DocumentOK'
    BY <1>1, <2>2, <2>3, <2>4 DEF TabInv, DocumentOK, CreatedFrom
  <2>. QED BY <1>1, <2>1, <2>5 DEF TabInv
<1>2. ASSUME NEW op \in Live, op.key > loaded.operations
                             \/ (op \in late /\ op.base <= loaded.revision),
             NEW status, NEW revision, Serve(op, status, revision),
             UNCHANGED <<doc, pending, operations, get, loaded>>, late' \subseteq late,
             \/ op \in late
             \/ get.revision = 0
      PROVE  /\ versions \subseteq versions' /\ GivenUpOK'
             /\ \A e \in ledger' : e \in ledger \/ SeenOrAhead(e)
  <2>0. op \in SaveOperations /\ op.key \in Nat /\ op.base \in Nat
    BY DEF Live, IInv, TypeInv, CoordinatorTypes, SaveOperations, Keys
  <2>1. /\ versions \subseteq versions'
        /\ \/ UNCHANGED store
           \/ /\ ~ Dead(op)
              /\ \E r \in {op.base, op.base + 1} :
                   ledger' = ledger \union {SaveEffect(op.key, op.base, r, op.content)}
    BY <1>2, <2>0, ServeIs DEF IInv
  <2>2. CASE UNCHANGED store
    <3>1. versions' = versions /\ ledger' = ledger
      BY <2>2 DEF store
    <3>. QED BY <1>2, <3>1 DEF TabInv, GivenUpOK, Loading
  <2>3. CASE ~ UNCHANGED store
    <3>1. PICK r \in {op.base, op.base + 1} :
            ledger' = ledger \union {SaveEffect(op.key, op.base, r, op.content)}
      BY <2>1, <2>3
    <3>. DEFINE new == SaveEffect(op.key, op.base, r, op.content)
    <3>2. new.key = op.key /\ new.base = op.base /\ new.revision = r
      BY DEF SaveEffect
    <3>3. ledger' = ledger \union {new}
      BY <3>1
    <3>. HIDE DEF new
    <3>4. \A v \in versions : v.revision <= op.base
      BY <2>0, <2>1, <2>3, Naturals DEF Dead
    <3>5. doc.revision <= op.base
      BY <2>0, <3>4, Naturals DEF TabInv, DocumentOK
    <3>6. new.key \in OtherKeys \union 1 .. loaded.operations => new.base <= loaded.revision
      BY <1>2, <2>0, <3>2, Naturals
    <3>7. SeenOrAhead(new)
      <4>. SUFFICES ASSUME Foreign(new), new.revision > loaded.revision
                    PROVE  doc.revision < new.revision
        OBVIOUS
      <4>1. op.base <= loaded.revision /\ r > loaded.revision
        BY <3>2, <3>6 DEF Foreign
      <4>2. loaded.revision \in Nat /\ doc.revision \in Nat
        BY Naturals
      <4>. QED BY <2>0, <3>2, <3>5, <4>1, <4>2
    <3>8. get.revision # 0 => op.base <= get.revision
      BY <1>2, Zenon DEF TabInv, GivenUpOK
    <3>9. GivenUpOK'
      <4>1. \A e \in ledger' :
              /\ e.key \in 1 .. loaded.operations => e.base <= loaded.revision
              /\ e.key \in Nat /\ get.revision # 0 => e.base <= get.revision
        BY <3>2, <3>3, <3>6, <3>8 DEF TabInv, GivenUpOK
      <4>. QED BY <1>2, <2>1, <4>1 DEF TabInv, GivenUpOK, Loading
    <3>. QED BY <2>1, <3>3, <3>7, <3>9
  <2>. QED BY <2>2, <2>3
<1>3. CASE ServePut
  <2>1. PICK status, revision :
          /\ Serve(put.op, status, revision)
          /\ put' = [phase |-> "answered", op |-> put.op, status |-> status,
                     revision |-> revision]
    BY <1>3, ServePutIs
  <2>2. /\ put.phase = "sent" /\ put.op \in SaveOperations
        /\ UNCHANGED <<doc, pending, flushRequested, conflict, loop, operations,
                       late, get, run, error, asked, loaded>>
    BY <1>3, ServePutIs
  <2>3. put.op \in Live /\ put.op.key > loaded.operations /\ get.revision = 0
    <3>1. put.op \in Live /\ put.op # None
      BY <2>2, Naturals DEF Live
    <3>2. loop # "idle" /\ pending = put.op
      BY <2>2 DEF TabInv, NoRace, IInv, TypeInv, CoordinatorTypes
    <3>. QED BY <3>1, <3>2 DEF TabInv, NoRace, GivenUpOK
  <2>4. /\ versions \subseteq versions' /\ GivenUpOK'
        /\ \A e \in ledger' : e \in ledger \/ SeenOrAhead(e)
    BY <1>2, <2>1, <2>2, <2>3
  <2>. QED BY <1>1, <2>1, <2>2, <2>4
<1>4. CASE ServeLate
  <2>1. PICK op \in late, status \in {"ok", "conflict", "refused"},
             revision \in {0} \union Revisions \union {r + 1 : r \in Revisions} :
          Serve(op, status, revision) /\ late' = late \ {op}
    BY <1>4 DEF ServeLate
  <2>2. UNCHANGED <<doc, coordinator, get, run, error, failures, asked, loaded>>
    BY <1>4 DEF ServeLate
  <2>3. /\ op \in Live
        /\ op.key > loaded.operations \/ op.base <= loaded.revision
    <3>1. op \in Live /\ op \in SaveOperations
      BY DEF Live, IInv, TypeInv, CoordinatorTypes
    <3>2. op.key <= loaded.operations => op.base <= loaded.revision
      BY DEF TabInv, GivenUpOK
    <3>. QED BY <3>1, <3>2, Naturals
  <2>4. /\ versions \subseteq versions' /\ GivenUpOK'
        /\ \A e \in ledger' : e \in ledger \/ SeenOrAhead(e)
    BY <1>2, <2>1, <2>2, <2>3 DEF coordinator
  <2>. QED BY <1>1, <2>2, <2>4 DEF coordinator
<1>5. CASE ServeGet
  <2>1. UNCHANGED <<store, doc, coordinator, late, run, error, failures, asked, loaded>>
        /\ get.phase # "none" /\ get'.phase # "none"
    BY <1>5, ServeGetIs
  <2>2. get'.revision # 0 => VersionOf(get') \in versions
    BY <1>5, ServeGetIs DEF TabInv, DocumentOK, VersionOf
  <2>3. GivenUpOK'
    <3>1. get'.revision = get.revision \/ \A v \in versions : v.revision <= get'.revision
      <4>1. \A v \in versions : v.notebook = Notebook
        BY DEF IInv, StoreOK
      <4>2. get'.revision = get.revision \/ Store!Latest(Notebook, get'.revision)
        BY <1>5, ServeGetIs
      <4>. QED BY <4>1, <4>2 DEF Store!Latest
    <3>2. \A e \in ledger : e.base <= e.revision
                            /\ \E v \in versions : v.revision = e.revision
      <4>. SUFFICES ASSUME NEW e \in ledger
                    PROVE  e.base <= e.revision
                           /\ \E v \in versions : v.revision = e.revision
        OBVIOUS
      <4>1. VersionOf(e) \in versions /\ (Adds(e) \/ e.revision = e.base)
        BY DEF IInv, StoreOK
      <4>2. VersionOf(e).revision = e.revision
        BY DEF VersionOf
      <4>. QED BY <4>1, <4>2, Naturals DEF Adds
    <3>3. get'.revision \in Nat
      BY <1>5, ServeGetIs
    <3>4. \A op \in late : get'.revision # 0 => op.base <= get'.revision
      <4>. SUFFICES ASSUME NEW op \in late, get'.revision # 0
                    PROVE  op.base <= get'.revision
        OBVIOUS
      <4>0. /\ \E v \in versions : op.base <= v.revision
            /\ get.revision # 0 => op.base <= get.revision
        BY Zenon DEF TabInv, GivenUpOK
      <4>1. PICK v \in versions : op.base <= v.revision
        BY <4>0
      <4>2. op \in SaveOperations
        BY DEF IInv, TypeInv, CoordinatorTypes
      <4>3. op.base \in Nat /\ v.revision \in Nat
        BY <4>2, Naturals
      <4>. QED BY <3>1, <3>3, <4>0, <4>1, <4>3
    <3>5. \A e \in ledger : e.key \in Nat /\ get'.revision # 0 => e.base <= get'.revision
      BY <3>1, <3>2, <3>3, Naturals DEF TabInv, GivenUpOK
    <3>. QED BY <2>1, <3>4, <3>5 DEF TabInv, GivenUpOK, Loading, store, coordinator
  <2>. QED BY <1>1, <2>1, <2>2, <2>3 DEF store, coordinator
<1>6. CASE OtherSave
  <2>1. PICK key \in OtherKeys, v \in versions, c \in Contents :
          /\ versions \subseteq versions'
          /\ \A w \in versions : w.revision <= v.revision
          /\ ledger' = ledger \union {SaveEffect(key, v.revision, v.revision + 1, c)}
    BY <1>6, OtherSaveIs
  <2>2. UNCHANGED <<doc, coordinator, late, get, run, error, failures, asked, loaded>>
    BY <1>6, OtherSaveIs
  <2>3. doc.revision < v.revision + 1
    BY <2>1, Naturals DEF TabInv, DocumentOK
  <2>4. \A e \in ledger' : e \in ledger \/ (e.key \in OtherKeys
                                            /\ e.revision = v.revision + 1)
    BY <2>1 DEF SaveEffect
  <2>5. GivenUpOK'
    BY <2>1, <2>2, <2>4, Naturals DEF TabInv, GivenUpOK, Loading, coordinator
  <2>. QED BY <1>1, <2>1, <2>2, <2>3, <2>4, <2>5 DEF coordinator
<1>7. CASE OtherDelete
  <2>1. UNCHANGED <<versions, ledger, doc, coordinator, late, get, run, error, asked,
                    loaded>>
    BY <1>7 DEF OtherDelete, Store!StoreDelete
  <2>2. GivenUpOK'
    BY <2>1 DEF TabInv, GivenUpOK, Loading, coordinator
  <2>. QED BY <1>1, <2>1, <2>2 DEF coordinator
<1>. QED BY <1>3, <1>4, <1>5, <1>6, <1>7

\* A page that has just been opened.
LEMMA InitTabInv ==
  ASSUME Init
  PROVE  TabInv
<1>1. /\ doc = NoDocument /\ pending = None /\ loop = "idle" /\ put = NoPut
      /\ get = GetSent /\ run = NoRun /\ asked = 0 /\ loaded = NothingLoaded
  BY DEF Init
<1>2. /\ doc.revision = 0 /\ doc.generation = 0 /\ doc.saved = 0
      /\ put.phase = "none" /\ run.phase = "none"
  BY <1>1 DEF NoDocument, NoPut, NoRun
<1>3. get.revision = 0
  <2>1. NoGet = [phase |-> "none", revision |-> 0, content |-> None]
    BY DEF NoGet
  <2>2. [NoGet EXCEPT !.phase = "sent"]
          = [phase |-> "sent", revision |-> 0, content |-> None]
    BY <2>1
  <2>. QED BY <1>1, <2>2 DEF GetSent
<1>4. NothingOverwrittenUnseen
  BY <1>2, InitIInv, Naturals DEF NothingOverwrittenUnseen
<1>5. DocumentOK
  BY <1>1, <1>2, <1>3, <1>4 DEF DocumentOK, CreatedFrom, SavedIsStored
<1>6. NoRace /\ RequestsKept /\ RunOK
  BY <1>1, <1>2 DEF NoRace, RequestsKept, RunOK, Saving
<1>7. GivenUpOK
  <2>1. /\ late = {} /\ operations = 0 /\ loaded.operations = 0 /\ Loading
    BY <1>1 DEF Init, NothingLoaded, GetSent, NoGet, Loading
  <2>. QED BY <1>1, <1>3, <2>1 DEF GivenUpOK
<1>. QED BY <1>5, <1>6, <1>7 DEF TabInv

\* Every step keeps it.
LEMMA StepTabInv ==
  ASSUME RaceFree, IInv, TabInv, [Next]_vars
  PROVE  TabInv'
<1>1. CASE UNCHANGED vars
  <2>1. NoRace' /\ RequestsKept' /\ RunOK'
    BY <1>1 DEF TabInv, NoRace, RequestsKept, RunOK, Loading, Saving, vars, coordinator
  <2>2. DocumentOK'
    BY <1>1 DEF TabInv, DocumentOK, CreatedFrom, SavedIsStored, Dirty, VersionOf,
                NothingOverwrittenUnseen, Foreign, vars, store, coordinator
  <2>3. GivenUpOK'
    BY <1>1 DEF TabInv, GivenUpOK, Loading, vars, store, coordinator
  <2>. QED BY <2>1, <2>2, <2>3 DEF TabInv
<1>. QED BY <1>1, PutSucceedsKeeps, PutEndsKeep, LocalKeepsTab, LoadsKeepTab,
            ServiceKeepsTab DEF Next

\* So does TabInv, unless reloads meet runs.
LEMMA TabInvariance ==
  ASSUME RaceFree
  PROVE  Spec => []TabInv
<1>1. IInv /\ TabInv /\ [Next]_vars => TabInv'
  BY StepTabInv
<1>. QED BY <1>1, InitTabInv, Invariance, PTL DEF Spec

\* A page that shows "Saved" shows a version the service has, whatever was
\* lost, repeated or saved elsewhere, unless reloads meet runs.
THEOREM SavedMeansStored ==
  ASSUME RaceFree
  PROVE  Spec => []SavedIsStored
<1>1. TabInv => SavedIsStored
  BY DEF TabInv, DocumentOK
<1>. QED BY <1>1, TabInvariance, PTL

\* The base of a save never moves past a version of another client, or of an
\* operation a load has given up, that the tab has not loaded, unless reloads
\* meet runs.
THEOREM NoLostUpdate ==
  ASSUME RaceFree
  PROVE  Spec => []NothingOverwrittenUnseen
<1>1. TabInv => NothingOverwrittenUnseen
  BY DEF TabInv, DocumentOK
<1>. QED BY <1>1, TabInvariance, PTL

\* A flush never ends without effect or notice, unless reloads meet runs.
THEOREM FlushesAreKept ==
  ASSUME RaceFree
  PROVE  Spec => []QuietMeansSaved
<1>1. IInv /\ TabInv => QuietMeansSaved
  BY Naturals DEF TabInv, RequestsKept, QuietMeansSaved, Shown
<1>. QED BY <1>1, Invariance, TabInvariance, PTL

\* Outputs are only ever written under the source that produced them, unless
\* reloads meet runs.
THEOREM OutputsBelong ==
  ASSUME RaceFree
  PROVE  Spec => OutputsMatchSource
<1>. DEFINE Belongs ==
       run.phase = "kernel" /\ run'.phase # "kernel"
         /\ doc'.generation > doc.generation
       => doc'.content[run.cell].source = run.source
<1>1. IInv /\ TabInv /\ [Next]_vars => [Belongs]_vars
  <2>. SUFFICES ASSUME IInv, TabInv, Next, run.phase = "kernel", run'.phase # "kernel",
                       doc'.generation > doc.generation
                PROVE  doc'.content[run.cell].source = run.source
    BY DEF vars
  <2>1. run.cell \in Cells /\ doc.content[run.cell].source = run.source
    BY DEF TabInv, RunOK, IInv, TypeInv
  <2>2. CASE ApplyExecutionResult
    BY <2>1, <2>2, ApplyExecutionResultIs DEF IInv
  <2>3. CASE ~ ApplyExecutionResult
    <3>1. doc' = doc \/ run' = run \/ doc'.generation <= doc.generation
      <4>1. CASE PutSucceeds
        BY <4>1, PutSucceedsIs, Naturals DEF IInv
      <4>2. CASE Refresh
        BY <4>2, Naturals DEF Refresh, NoDocument
      <4>3. CASE GetSucceeds
        BY <4>3, Naturals DEF GetSucceeds
      <4>4. CASE Edit
        BY <4>4 DEF Edit
      <4>5. CASE \/ PutConflicts \/ PutRefused \/ PutFails \/ Save \/ RunCell
                 \/ RunFails \/ Reload \/ GetFails \/ ServePut \/ ServeLate \/ ServeGet
                 \/ OtherSave \/ OtherDelete
        BY <4>5 DEF PutConflicts, PutRefused, PutFails, Save, RunCell, RunFails, Reload,
                    GetFails, ServePut, ServeLate, ServeGet, OtherSave, OtherDelete
      <4>. QED BY <2>3, <4>1, <4>2, <4>3, <4>4, <4>5 DEF Next
    <3>2. doc'.generation \in Nat
      BY StepIInv, BoundsAreNaturals DEF IInv, TypeInv, Documents
    <3>. QED BY <3>1, <3>2, Naturals
  <2>. QED BY <2>2, <2>3
<1>. QED BY <1>1, Invariance, TabInvariance, PTL DEF Spec, OutputsMatchSource

-----------------------------------------------------------------------------
(* A tab that stays open: it only edits, saves and runs. *)

StaysOpen == Features \subseteq {"run"}

ByOther(e) == e.key \in OtherKeys

\* Nothing of this tab precedes its first document, and a conflict stops it.
Fresh ==
  /\ doc.revision = 0 =>
       operations = 0 /\ \A e \in ledger : ByOther(e) \/ e.revision = 1
  /\ Loading => doc.revision = 0
  /\ conflict => loop = "idle"

\* The versions the service has accepted.
Acceptable == \A v \in versions, c \in Cells : v.content[c].source \notin Rejected

\* An answer other than "ok" is final, and a conflict is with another client.
AnswersOK ==
  /\ put.phase = "answered" /\ put.status # "ok" => ~ Used(put.op) /\ Dead(put.op)
  /\ put.phase = "answered" /\ put.status = "conflict" =>
       \E e \in ledger : ByOther(e) /\ e.revision > put.op.base

\* Of the requests given up on only the pending one may still have an effect.
LateOK == \A op \in late : op = pending \/ Used(op) \/ Dead(op)

\* A version of this tab that it does not know of is that of its pending
\* operation.
OwnVersions ==
  \A e \in ledger : doc.revision # 0 /\ ~ ByOther(e) /\ e.revision > doc.revision =>
                      pending # None /\ Recorded(pending, e)

ConflictInv ==
  Fresh /\ Acceptable /\ AnswersOK /\ LateOK /\ OwnVersions /\ ConflictIsForeign

\* Steps that leave the store and the base of the document alone.
LEMMA SameBaseKeeps ==
  ASSUME IInv, TabInv, ConflictInv, UNCHANGED store,
         doc.revision # 0, doc'.revision = doc.revision, get' = get,
         late' \subseteq late \union ({pending'} \ {None}),
         \/ pending' = pending
         \/ pending = None
         \/ ~ Used(pending) /\ Dead(pending),
         put' = put \/ put'.phase # "answered",
         conflict' => /\ loop' = "idle"
                      /\ \E e \in ledger : ByOther(e) /\ e.revision > doc.revision
  PROVE  ConflictInv'
<1>1. versions' = versions /\ ledger' = ledger /\ deleted' = deleted
  BY DEF store
<1>2. \A op : Used(op)' = Used(op) /\ Dead(op)' = Dead(op)
  BY <1>1 DEF Used, Recorded, Dead
<1>3. Fresh'
  BY DEF ConflictInv, Fresh, Loading
<1>4. Acceptable'
  BY <1>1 DEF ConflictInv, Acceptable
<1>5. AnswersOK'
  BY <1>1, <1>2 DEF ConflictInv, AnswersOK, Used, Dead, Recorded
<1>6. LateOK'
  <2>. SUFFICES ASSUME NEW op \in late, op # pending' PROVE Used(op) \/ Dead(op)
    BY <1>2 DEF LateOK
  <2>1. op # None
    BY DEF IInv, TypeInv, CoordinatorTypes
  <2>. QED BY <2>1 DEF ConflictInv, LateOK
<1>7. OwnVersions'
  <2>. SUFFICES ASSUME NEW e \in ledger, ~ ByOther(e), e.revision > doc.revision
                PROVE  pending' # None /\ Recorded(pending', e)
    BY <1>1 DEF OwnVersions, ByOther, Recorded
  <2>1. pending # None /\ Recorded(pending, e)
    BY DEF ConflictInv, OwnVersions
  <2>. QED BY <2>1 DEF Used
<1>8. ConflictIsForeign'
  BY <1>1 DEF ConflictIsForeign, ByOther
<1>. QED BY <1>3, <1>4, <1>5, <1>6, <1>7, <1>8 DEF ConflictInv

\* A PUT that succeeds leaves no version of the tab unknown to it.
LEMMA PutSucceedsKeepsConflict ==
  ASSUME IInv, TabInv, ConflictInv, PutSucceeds
  PROVE  ConflictInv'
<1>0. /\ put.phase = "answered" /\ put.status = "ok" /\ doc.revision # 0
      /\ put.op \in SaveOperations /\ doc'.revision = put.revision
      /\ doc'.revision # 0 /\ Continues(doc')
      /\ versions' = versions /\ ledger' = ledger /\ deleted' = deleted
      /\ get' = get /\ late' = late /\ conflict' = conflict
  BY PutSucceedsIs DEF IInv, store
<1>1. PICK f \in ledger : Recorded(put.op, f) /\ f.revision = put.revision
  BY <1>0 DEF IInv, OperationsOK
<1>2. pending = put.op /\ put.op.base = doc.revision /\ put.op # None /\ Used(put.op)
  BY <1>0, <1>1, Naturals DEF TabInv, NoRace, DocumentOK, CreatedFrom, Used
<1>3. f.revision >= doc.revision
  <2>1. put.op \in Live
    BY <1>0 DEF Live
  <2>2. f.base = doc.revision
    BY <1>1, <1>2, <2>1 DEF IInv, OperationsOK
  <2>. QED BY <2>2, Naturals DEF IInv, StoreOK, Adds
<1>4. \A op : Used(op)' = Used(op) /\ Dead(op)' = Dead(op)
  BY <1>0 DEF Used, Recorded, Dead
<1>5. ~ conflict
  BY <1>0 DEF ConflictInv, Fresh, IInv, TypeInv, CoordinatorTypes
<1>6. Fresh' /\ ConflictIsForeign'
  BY <1>0, <1>5 DEF ConflictInv, Fresh, Loading, ConflictIsForeign
<1>7. Acceptable'
  BY <1>0 DEF ConflictInv, Acceptable
<1>8. AnswersOK'
  <2>1. put'.phase # "answered"
    BY <1>0 DEF Continues, Begins, Ends, NoPut
  <2>. QED BY <2>1 DEF AnswersOK
<1>9. LateOK'
  BY <1>0, <1>2, <1>4 DEF ConflictInv, LateOK
<1>10. OwnVersions'
  <2>. SUFFICES ASSUME NEW e \in ledger, ~ ByOther(e), e.revision > put.revision
                PROVE  FALSE
    BY <1>0 DEF OwnVersions, ByOther
  <2>1. e.revision > doc.revision
    BY <1>1, <1>3, Naturals
  <2>2. Recorded(put.op, e)
    BY <1>0, <1>2, <2>1 DEF ConflictInv, OwnVersions
  <2>3. e = f
    BY <1>1, <2>2 DEF IInv, StoreOK, Recorded
  <2>. QED BY <1>1, <2>3, Naturals
<1>. QED BY <1>6, <1>7, <1>8, <1>9, <1>10 DEF ConflictInv

\* What the tab does by itself while its document stays.
LEMMA TabKeepsConflict ==
  ASSUME IInv, TabInv, ConflictInv,
         \/ PutRefused \/ PutConflicts \/ PutFails
         \/ Edit \/ Save \/ RunCell \/ ApplyExecutionResult \/ RunFails
  PROVE  ConflictInv'
<1>0. conflict => /\ loop = "idle"
                  /\ \E e \in ledger : ByOther(e) /\ e.revision > doc.revision
  BY DEF ConflictInv, Fresh, ConflictIsForeign, ByOther
<1>1. put.phase # "none" => /\ pending = put.op /\ put.op # None /\ ~ conflict
                            /\ put.op.base = doc.revision
  BY Naturals DEF ConflictInv, Fresh, IInv, TypeInv, CoordinatorTypes, TabInv, NoRace,
                  DocumentOK, CreatedFrom
<1>2. \A d : Begins(d) => put'.phase # "answered"
  BY DEF Begins
<1>3. Ends => put'.phase # "answered" /\ loop' = "idle"
  BY DEF Ends, NoPut
<1>4. CASE PutRefused
  <2>1. /\ put.phase = "answered" /\ put.status = "refused" /\ doc.revision # 0
        /\ Continues(doc)
        /\ UNCHANGED <<store, doc, conflict, late, get>>
    BY <1>4, PutRefusedIs DEF IInv
  <2>2. ~ conflict' /\ ~ Used(pending) /\ Dead(pending)
    BY <1>1, <2>1 DEF ConflictInv, AnswersOK
  <2>3. put'.phase # "answered"
    BY <1>2, <1>3, <2>1 DEF Continues
  <2>. QED BY <2>1, <2>2, <2>3, SameBaseKeeps
<1>5. CASE PutConflicts
  <2>1. \E e \in ledger : ByOther(e) /\ e.revision > doc.revision
    BY <1>1, <1>5, PutConflictsIs DEF IInv, ConflictInv, AnswersOK
  <2>. QED BY <1>1, <1>3, <1>5, <2>1, PutConflictsIs, SameBaseKeeps
           DEF IInv, ConflictInv, AnswersOK
<1>6. CASE PutFails
  BY <1>0, <1>1, <1>3, <1>6, PutFailsIs, SameBaseKeeps DEF IInv
<1>7. CASE Edit \/ RunCell \/ RunFails
  <2>1. /\ UNCHANGED <<store, coordinator, late, get>> /\ doc.revision # 0
        /\ doc'.revision = doc.revision
    BY <1>7, EditIs DEF IInv, RunCell, Shown, RunFails, TypeInv
  <2>. QED BY <1>0, <2>1, SameBaseKeeps DEF coordinator
<1>8. \A d : Flushes(d) => /\ ~ conflict /\ (pending' = pending \/ pending = None)
                           /\ put' = put \/ put'.phase # "answered"
  BY DEF Flushes, Queues, Replays, Begins
<1>9. CASE Save
  BY <1>8, <1>9, SaveIs, SameBaseKeeps DEF IInv
<1>10. CASE ApplyExecutionResult
  BY <1>0, <1>8, <1>10, ApplyExecutionResultIs, SameBaseKeeps DEF IInv, coordinator
<1>. QED BY <1>4, <1>5, <1>6, <1>7, <1>9, <1>10

\* A load finds no version of the tab's own: it has not saved yet.
LEMMA LoadsKeepConflict ==
  ASSUME StaysOpen, IInv, TabInv, ConflictInv,
         Reload \/ Refresh \/ GetSucceeds \/ GetFails
  PROVE  ConflictInv'
<1>1. versions' = versions /\ ledger' = ledger /\ deleted' = deleted
  BY DEF Reload, Refresh, GetSucceeds, GetFails, store
<1>2. \A op : Used(op)' = Used(op) /\ Dead(op)' = Dead(op)
  BY <1>1 DEF Used, Recorded, Dead
<1>3. Acceptable'
  BY <1>1 DEF ConflictInv, Acceptable
<1>4. NoGet.phase = "none"
  BY DEF NoGet
<1>5. ~ Reload
  BY DEF StaysOpen, Reload
<1>6. CASE Refresh
  <2>1. doc.revision = 0
    BY <1>6 DEF StaysOpen, Refresh
  <2>2. doc = NoDocument /\ pending = None /\ loop = "idle" /\ put.phase = "none"
    BY <2>1 DEF IInv, TypeInv, CoordinatorTypes
  <2>3. /\ doc' = doc /\ pending' = pending /\ loop' = loop /\ put' = NoPut /\ ~ conflict'
        /\ late' = late /\ operations' = operations
    BY <1>6, <2>2 DEF Refresh
  <2>4. Fresh' /\ OwnVersions' /\ ConflictIsForeign'
    BY <1>1, <2>1, <2>3 DEF ConflictInv, Fresh, OwnVersions, ConflictIsForeign, ByOther
  <2>5. AnswersOK'
    BY <2>3 DEF AnswersOK, NoPut
  <2>6. LateOK'
    BY <1>2, <2>3 DEF ConflictInv, LateOK
  <2>. QED BY <1>3, <2>4, <2>5, <2>6 DEF ConflictInv
<1>7. CASE GetSucceeds
  <2>1. doc.revision = 0
    BY <1>7 DEF ConflictInv, Fresh, Loading, GetSucceeds
  <2>2. pending = None /\ loop = "idle" /\ put.phase = "none"
    BY <2>1 DEF IInv, TypeInv, CoordinatorTypes
  <2>3. /\ doc'.revision = get.revision /\ get.revision \in Nat /\ get.revision # 0
        /\ pending' = pending /\ loop' = loop
        /\ put' = put /\ ~ conflict' /\ get' = NoGet /\ late' = late
    BY <1>7, <2>2 DEF GetSucceeds, IInv, TypeInv
  <2>4. Fresh' /\ ConflictIsForeign'
    BY <1>4, <2>3 DEF Fresh, Loading, ConflictIsForeign
  <2>5. OwnVersions'
    BY <1>1, <2>1, <2>3, Naturals DEF ConflictInv, Fresh, OwnVersions, ByOther
  <2>6. AnswersOK'
    BY <2>2, <2>3 DEF AnswersOK
  <2>7. LateOK'
    BY <1>2, <2>3 DEF ConflictInv, LateOK
  <2>. QED BY <1>3, <2>4, <2>5, <2>6, <2>7 DEF ConflictInv
<1>8. CASE GetFails
  <2>1. get' = NoGet /\ UNCHANGED <<store, doc, coordinator, late>>
    BY <1>8 DEF GetFails
  <2>2. Fresh' /\ ConflictIsForeign' /\ OwnVersions'
    BY <1>1, <1>4, <2>1 DEF ConflictInv, Fresh, Loading, ConflictIsForeign, OwnVersions,
                            ByOther, Recorded, coordinator
  <2>3. AnswersOK' /\ LateOK'
    BY <1>1, <1>2, <2>1 DEF ConflictInv, AnswersOK, LateOK, Used, Recorded, Dead,
                            coordinator
  <2>. QED BY <1>3, <2>2, <2>3 DEF ConflictInv
<1>. QED BY <1>5, <1>6, <1>7, <1>8

\* An effect of the service is that of the pending operation, whose version the
\* tab will learn of when the operation is answered or repeated.
LEMMA ServeKeepsConflict ==
  ASSUME IInv, TabInv, ConflictInv, NEW op \in Live, op = pending \/ op \in late,
         NEW status, NEW revision, Serve(op, status, revision), late' \subseteq late,
         UNCHANGED <<doc, pending, conflict, loop, operations, get>>
  PROVE  /\ Fresh' /\ Acceptable' /\ LateOK' /\ OwnVersions' /\ ConflictIsForeign'
         /\ ledger \subseteq ledger'
         /\ \A o \in Live : ~ Used(o) /\ Dead(o) => ~ Used(o)' /\ Dead(o)'
<1>0. op \in SaveOperations /\ op.key \in Nat \ {0} /\ op.key <= operations
  BY DEF Live, IInv, TypeInv, CoordinatorTypes, SaveOperations, Keys, OperationsOK
<1>1. /\ StoreOK' /\ versions \subseteq versions' /\ deleted' = deleted
      /\ \/ UNCHANGED store
         \/ /\ ~ Used(op) /\ ~ Dead(op)
            /\ \E r \in {op.base, op.base + 1} :
                 ledger' = ledger \union {SaveEffect(op.key, op.base, r, op.content)}
  BY <1>0, ServeIs DEF IInv
<1>2. /\ ledger \subseteq ledger'
      /\ \A e \in ledger' : \/ e \in ledger
                            \/ /\ ~ Used(op) /\ ~ Dead(op)
                               /\ Recorded(op, e) /\ e.content = op.content
  BY <1>1 DEF SaveEffect, Recorded, store
<1>3. doc.revision # 0
  BY <1>0 DEF ConflictInv, Fresh
<1>4. Fresh'
  BY <1>3 DEF ConflictInv, Fresh, Loading
<1>5. Acceptable'
  <2>. SUFFICES ASSUME NEW v \in versions', NEW c \in Cells
                PROVE  v.content[c].source \notin Rejected
    BY DEF Acceptable
  <2>1. PICK e \in ledger' : VersionOf(e) = v
    BY <1>1 DEF StoreOK, VersionOf
  <2>2. CASE e \in ledger
    BY <2>1, <2>2 DEF IInv, StoreOK, ConflictInv, Acceptable
  <2>3. CASE ~ Dead(op) /\ e.content = op.content
    BY <2>1, <2>3 DEF Dead, Refusable, VersionOf
  <2>. QED BY <1>2, <2>2, <2>3
<1>6. \A o : (Used(o) => Used(o)') /\ (Dead(o) => Dead(o)')
  BY <1>1, <1>2 DEF Used, Dead, Recorded
<1>7. LateOK'
  BY <1>6 DEF ConflictInv, LateOK
<1>8. OwnVersions'
  <2>. SUFFICES ASSUME NEW e \in ledger', ~ ByOther(e), e.revision > doc.revision
                PROVE  pending # None /\ Recorded(pending, e)
    BY <1>3 DEF OwnVersions, ByOther, Recorded
  <2>1. CASE e \in ledger
    BY <1>3, <2>1 DEF ConflictInv, OwnVersions
  <2>2. CASE ~ Used(op) /\ ~ Dead(op) /\ Recorded(op, e)
    BY <1>0, <2>2, Naturals DEF ConflictInv, LateOK
  <2>. QED BY <1>2, <2>1, <2>2
<1>9. ConflictIsForeign'
  BY <1>2 DEF ConflictInv, ConflictIsForeign
<1>10. \A o \in Live : ~ Used(o) /\ Dead(o) => ~ Used(o)'
  <2>. SUFFICES ASSUME NEW o \in Live, ~ Used(o), Dead(o), NEW e \in ledger', Recorded(o, e)
                PROVE  FALSE
    BY DEF Used, Recorded
  <2>1. e \notin ledger
    BY DEF Used
  <2>2. o.key = op.key /\ ~ Dead(op)
    BY <1>2, <2>1 DEF Recorded
  <2>. QED BY <2>2 DEF IInv, OperationsOK
<1>. QED BY <1>2, <1>4, <1>5, <1>6, <1>7, <1>8, <1>9, <1>10

\* The service, for this tab and for the other client.
LEMMA ServiceKeepsConflict ==
  ASSUME IInv, TabInv, ConflictInv,
         ServePut \/ ServeLate \/ ServeGet \/ OtherSave \/ OtherDelete
  PROVE  ConflictInv'
<1>1. CASE ServePut
  <2>1. PICK status \in {"ok", "conflict", "refused"}, revision \in Nat :
          /\ Serve(put.op, status, revision)
          /\ put' = [phase |-> "answered", op |-> put.op, status |-> status,
                     revision |-> revision]
    BY <1>1, ServePutIs
  <2>2. /\ put.phase = "sent" /\ put.op \in SaveOperations /\ doc.revision # 0
        /\ UNCHANGED <<doc, pending, conflict, loop, operations, late, get>>
    BY <1>1, ServePutIs
  <2>3. put.op = pending /\ put.op \in Live /\ put.op.base = doc.revision
    BY <2>2, Naturals DEF TabInv, NoRace, DocumentOK, CreatedFrom, Live
  <2>4. /\ Fresh' /\ Acceptable' /\ LateOK' /\ OwnVersions' /\ ConflictIsForeign'
        /\ ledger \subseteq ledger'
        /\ ~ Used(put.op) /\ Dead(put.op) => (~ Used(put.op) /\ Dead(put.op))'
    <3>1. \A o \in Live : ~ Used(o) /\ Dead(o) => ~ Used(o)' /\ Dead(o)'
      BY <2>1, <2>2, <2>3, ServeKeepsConflict
    <3>. QED BY <2>1, <2>2, <2>3, <3>1, ServeKeepsConflict DEF Used, Dead, Recorded
  <2>5. status = "conflict" =>
          /\ ~ Used(put.op) /\ Dead(put.op)
          /\ \E e \in ledger : ByOther(e) /\ e.revision > put.op.base
    <3>. SUFFICES ASSUME status = "conflict"
                  PROVE  /\ ~ Used(put.op) /\ Dead(put.op)
                         /\ \E e \in ledger : ByOther(e) /\ e.revision > put.op.base
      OBVIOUS
    <3>1. ~ Used(put.op) /\ ~ Store!Latest(Notebook, put.op.base)
      BY <2>1, <2>2, ServeIs DEF IInv
    <3>2. PICK w \in versions : w.revision = put.op.base
      BY <2>2, <2>3 DEF TabInv, DocumentOK
    <3>3. PICK v \in versions : v.revision > put.op.base
      BY <3>1, <3>2, Naturals DEF Store!Latest, IInv, StoreOK
    <3>4. PICK e \in ledger : e.revision = v.revision
      <4>1. PICK e \in ledger : VersionOf(e) = v
        BY DEF IInv, StoreOK
      <4>2. VersionOf(e).revision = e.revision
        BY DEF VersionOf
      <4>. QED BY <4>1, <4>2
    <3>5. ByOther(e)
      BY <2>2, <2>3, <3>1, <3>3, <3>4 DEF ConflictInv, OwnVersions, Used
    <3>. QED BY <3>1, <3>3, <3>4, <3>5 DEF Dead
  <2>6. status = "refused" => ~ Used(put.op) /\ Dead(put.op)
    <3>1. status = "refused" => Refusable(put.op) \/ (~ Used(put.op) /\ Notebook \in deleted)
      BY <2>1, <2>2, ServeIs DEF IInv
    <3>2. ASSUME Refusable(put.op) PROVE ~ Used(put.op)
      <4>. SUFFICES ASSUME NEW e \in ledger, Recorded(put.op, e) PROVE FALSE
        BY DEF Used
      <4>1. e.content = put.op.content /\ VersionOf(e) \in versions
        BY <2>3 DEF IInv, OperationsOK, StoreOK
      <4>. QED BY <3>2, <4>1 DEF Refusable, ConflictInv, Acceptable, VersionOf
    <3>. QED BY <3>1, <3>2 DEF Dead
  <2>7. AnswersOK'
    <3>1. put'.op = put.op /\ put'.status = status
      BY <2>1
    <3>. QED BY <2>1, <2>4, <2>5, <2>6, <3>1 DEF AnswersOK, ByOther, Used, Dead, Recorded
  <2>. QED BY <2>4, <2>7 DEF ConflictInv
<1>2. CASE ServeLate
  <2>1. PICK op \in late, status \in {"ok", "conflict", "refused"},
             revision \in {0} \union Revisions \union {r + 1 : r \in Revisions} :
          Serve(op, status, revision) /\ late' = late \ {op}
    BY <1>2 DEF ServeLate
  <2>2. UNCHANGED <<doc, pending, conflict, loop, put, operations, get>>
    BY <1>2 DEF ServeLate, coordinator
  <2>3. op \in Live
    BY DEF Live
  <2>4. /\ Fresh' /\ Acceptable' /\ LateOK' /\ OwnVersions' /\ ConflictIsForeign'
        /\ ledger \subseteq ledger'
        /\ \A o \in Live : ~ Used(o) /\ Dead(o) => ~ Used(o)' /\ Dead(o)'
    BY <2>1, <2>2, <2>3, ServeKeepsConflict
  <2>5. AnswersOK'
    <3>1. put.phase # "none" => put.op \in Live
      BY DEF Live
    <3>. QED BY <2>2, <2>4, <3>1 DEF ConflictInv, AnswersOK, ByOther, Used, Dead, Recorded
  <2>. QED BY <2>4, <2>5 DEF ConflictInv
<1>3. ASSUME versions \subseteq versions', ledger \subseteq ledger',
             deleted \subseteq deleted',
             \A e \in ledger' : e \in ledger \/ ByOther(e),
             Acceptable', (Loading') = Loading, UNCHANGED <<doc, coordinator, late>>
      PROVE  ConflictInv'
  <2>1. \A op \in SaveOperations : /\ Dead(op) => Dead(op)'
                                   /\ Used(op)' = Used(op)
    BY <1>3, Naturals DEF Dead, Used, Recorded, ByOther
  <2>2. Fresh' /\ ConflictIsForeign' /\ OwnVersions'
    BY <1>3 DEF ConflictInv, Fresh, ConflictIsForeign, OwnVersions, ByOther, Recorded,
                coordinator
  <2>3. LateOK'
    BY <1>3, <2>1 DEF ConflictInv, LateOK, IInv, TypeInv, CoordinatorTypes, coordinator
  <2>4. AnswersOK'
    <3>1. put.phase # "none" => put.op \in SaveOperations
      BY DEF IInv, TypeInv, CoordinatorTypes
    <3>. QED BY <1>3, <2>1, <3>1 DEF ConflictInv, AnswersOK, ByOther, Used, Dead,
                                     Recorded, coordinator
  <2>. QED BY <1>3, <2>2, <2>3, <2>4 DEF ConflictInv
<1>4. CASE ServeGet
  BY <1>3, <1>4, ServeGetIs DEF ConflictInv, Acceptable, Loading, store
<1>5. CASE OtherSave
  <2>1. PICK key \in OtherKeys, v \in versions, c \in Contents :
          /\ StoreOK' /\ versions \subseteq versions' /\ deleted' = deleted
          /\ ledger' = ledger \union {SaveEffect(key, v.revision, v.revision + 1, c)}
          /\ \A k \in Cells : c[k].source \in Rejected => v.content[k].source \in Rejected
    BY <1>5, OtherSaveIs
  <2>2. UNCHANGED <<doc, coordinator, late, get>>
    BY <1>5, OtherSaveIs
  <2>3. \A e \in ledger' : e \in ledger \/ (ByOther(e) /\ e.content = c)
    BY <2>1 DEF SaveEffect, ByOther
  <2>4. Acceptable'
    <3>. SUFFICES ASSUME NEW w \in versions', NEW k \in Cells
                  PROVE  w.content[k].source \notin Rejected
      BY DEF Acceptable
    <3>1. PICK e \in ledger' : VersionOf(e) = w
      BY <2>1 DEF StoreOK, VersionOf
    <3>2. CASE e \in ledger
      BY <3>1, <3>2 DEF IInv, StoreOK, ConflictInv, Acceptable
    <3>3. CASE e.content = c
      BY <2>1, <3>1, <3>3 DEF ConflictInv, Acceptable, VersionOf
    <3>. QED BY <2>3, <3>2, <3>3
  <2>. QED BY <1>3, <2>1, <2>2, <2>3, <2>4 DEF Loading
<1>6. CASE OtherDelete
  BY <1>3, <1>6 DEF OtherDelete, Store!StoreDelete, ConflictInv, Acceptable, Loading
<1>. QED BY <1>1, <1>2, <1>4, <1>5, <1>6

\* A page that has just been opened.
LEMMA InitConflictInv ==
  ASSUME Init
  PROVE  ConflictInv
<1>1. PICK c \in FirstContents :
        /\ versions = {[notebook |-> Notebook, revision |-> 1, content |-> c]}
        /\ ledger = {[scope |-> "POST", key |-> 0, base |-> 0,
                      notebook |-> Notebook, revision |-> 1, content |-> c]}
  BY DEF Init
<1>2. /\ doc = NoDocument /\ ~ conflict /\ put = NoPut /\ late = {} /\ operations = 0
  BY DEF Init
<1>3. doc.revision = 0 /\ put.phase = "none"
  BY <1>2 DEF NoDocument, NoPut
<1>4. \A e \in ledger : e.revision = 1
  BY <1>1
<1>5. \A v \in versions, k \in Cells : v.content[k].source \notin Rejected
  BY <1>1 DEF FirstContents
<1>6. Fresh /\ Acceptable /\ AnswersOK /\ LateOK
  BY <1>2, <1>3, <1>4, <1>5 DEF Fresh, Acceptable, AnswersOK, LateOK
<1>7. OwnVersions /\ ConflictIsForeign
  BY <1>2, <1>3 DEF OwnVersions, ConflictIsForeign
<1>. QED BY <1>6, <1>7 DEF ConflictInv

\* Every step keeps it.
LEMMA StepConflictInv ==
  ASSUME StaysOpen, IInv, TabInv, ConflictInv, [Next]_vars
  PROVE  ConflictInv'
<1>1. CASE UNCHANGED vars
  <2>1. Fresh' /\ Acceptable' /\ OwnVersions' /\ ConflictIsForeign'
    BY <1>1 DEF ConflictInv, Fresh, Acceptable, OwnVersions, ConflictIsForeign, ByOther,
                Recorded, Loading, vars, store, coordinator
  <2>2. AnswersOK' /\ LateOK'
    BY <1>1 DEF ConflictInv, AnswersOK, LateOK, Used, Dead, Recorded, ByOther, vars,
                store, coordinator
  <2>. QED BY <2>1, <2>2 DEF ConflictInv
<1>. QED BY <1>1, PutSucceedsKeepsConflict, TabKeepsConflict, LoadsKeepConflict,
            ServiceKeepsConflict DEF Next

\* "Modified elsewhere" is true in a tab that is neither reloaded nor opened
\* again: its own earlier saves never conflict with it.
THEOREM ConflictsAreForeign ==
  ASSUME StaysOpen
  PROVE  Spec => []ConflictIsForeign
<1>1. RaceFree
  BY DEF StaysOpen, RaceFree
<1>2. IInv /\ TabInv /\ ConflictInv /\ [Next]_vars => ConflictInv'
  BY StepConflictInv
<1>3. Spec => []TabInv
  BY <1>1, TabInvariance
<1>4. ConflictInv => ConflictIsForeign
  BY DEF ConflictInv
<1>. QED BY <1>2, <1>3, <1>4, InitConflictInv, Invariance, PTL DEF Spec

-----------------------------------------------------------------------------
(* The editor and the store it is composed with. *)

\* To the store every step of the tab, the network and the other client is one of
\* its operations or none.
LEMMA StepIsStoreStep ==
  IInv /\ [Next]_vars => [Store!StoreNext]_(Store!storeVars)
<1>. SUFFICES ASSUME IInv, [Next]_vars, ~ UNCHANGED store
              PROVE  Store!StoreNext
  BY DEF store, Store!storeVars
<1>1. ASSUME NEW op \in SaveOperations, NEW status, NEW revision, Serve(op, status, revision)
      PROVE  Store!StoreNext
  <2>1. /\ op.key \in Keys \union OtherKeys /\ op.base \in Nat /\ op.content \in Contents
    BY DEF SaveOperations
  <2>2. \/ Store!StoreSave(op.key, Notebook, op.base, op.content)
        \/ Store!StoreConfirm(op.key, Notebook, op.base, op.content)
    BY <1>1 DEF Serve
  <2>. QED BY <2>1, <2>2 DEF Store!StoreNext
<1>2. CASE ServePut \/ ServeLate
  <2>1. \E op \in SaveOperations : \E status, revision : Serve(op, status, revision)
    BY <1>2 DEF ServePut, ServeLate, IInv, TypeInv, CoordinatorTypes
  <2>. QED BY <1>1, <2>1
<1>3. CASE OtherSave
  <2>1. PICK key \in OtherKeys, v \in versions, k \in Cells, s \in Sources \ Rejected :
          Store!StoreSave(key, Notebook, v.revision,
                          [v.content EXCEPT ![k] = [source |-> s, output |-> None]])
    BY <1>3 DEF OtherSave
  <2>. DEFINE c == [v.content EXCEPT ![k] = [source |-> s, output |-> None]]
  <2>2. v.revision \in Nat /\ c \in Contents
    BY DEF IInv, StoreOK, Contents
  <2>. HIDE DEF c
  <2>3. Store!StoreSave(key, Notebook, v.revision, c)
    BY <2>1 DEF c
  <2>. QED BY <2>2, <2>3 DEF Store!StoreNext
<1>4. CASE OtherDelete
  BY <1>4 DEF OtherDelete, Store!StoreNext
<1>5. CASE \/ PutSucceeds \/ PutConflicts \/ PutRefused \/ PutFails
           \/ Edit \/ Save \/ RunCell \/ ApplyExecutionResult \/ RunFails
           \/ Reload \/ Refresh \/ GetSucceeds \/ GetFails \/ ServeGet \/ UNCHANGED vars
  BY <1>5 DEF PutSucceeds, PutConflicts, PutRefused, PutFails, Edit, Save, RunCell,
              ApplyExecutionResult, RunFails, Reload, Refresh, GetSucceeds, GetFails,
              ServeGet, vars
<1>. QED BY <1>2, <1>3, <1>4, <1>5 DEF Next

\* Whatever the tab sends, repeats or gives up, it uses the service as the store
\* allows, which is what the service is proved to implement.  Its notebook is there
\* from the beginning, as StoreCreate makes it.
THEOREM RespectsStore == Spec => [][Store!StoreNext]_(Store!storeVars)
BY StepIsStoreStep, Invariance, PTL DEF Spec
=============================================================================
