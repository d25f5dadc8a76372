--------------------- MODULE RuntimeService_refinement ----------------------
(***************************************************************************)
(* With one thread that no crash and no Docker failure interrupts, the     *)
(* Runtime Service implements RuntimePool, for any number of notebooks and *)
(* runtimes and whatever containers die: the copy the thread holds is then *)
(* as good as its row, a notebook never has two active rows, and a         *)
(* container that runs has an active one.                                  *)
(***************************************************************************)
EXTENDS RuntimeService_proofs

OneActive ==
  \A r, s \in RuntimeIds :
    Active(r) /\ Active(s) /\ rows[r].notebook = rows[s].notebook => r = s

RunningIsActive == \A r \in RuntimeIds : containers[r] \in Running => Active(r)

\* No runtime of notebook n is active.
Vacant(n) == \A r \in RuntimeIds : rows[r].notebook = n => ~ Active(r)

\* The row of the thread's runtime exists, but does not name a container yet.
Unnamed(w) == pc[w] \in {"provision", "run", "start"}

RowsNamed(w) ==
  \A r \in RuntimeIds :
    Exists(r) => rows[r].ref \/ (Unnamed(w) /\ record[w].id = r)

\* The thread's runtime is the active one of the notebook it was asked for.
Owns(w) == /\ rows[record[w].id].notebook = request[w].notebook
           /\ Active(record[w].id)

\* What the only thread knows of the rows at each step, besides ThreadOK.
CopyOK(w) ==
  /\ pc[w] \in {"find", "insert"} \/ Unnamed(w) \/ request[w].op = "existing"
       => request[w].notebook \in Notebooks
  /\ pc[w] = "insert" => Vacant(request[w].notebook)
  /\ Unnamed(w) => Owns(w)
  /\ pc[w] \in {"reconcile", "update"} /\ request[w].op = "existing" => Owns(w)
  /\ pc[w] = "reconcile" => record[w] = RecordOf(record[w].id)
  /\ pc[w] \in {"reconcile", "update", "terminate", "stop"} => record[w].ref
  /\ pc[w] \in {"reconcile", "update", "endpoint"} => request[w].op # "delete"
  /\ pc[w] = "update" =>
       IF record[w].state \in ActiveStates THEN Active(record[w].id)
       ELSE containers[record[w].id] \notin Running
  /\ pc[w] = "answer" /\ request[w].op = "delete" =>
       containers[record[w].id] = "removed"
  /\ pc[w] # "fail"

\* The invariant of a service with one thread w.
Alone(w) == /\ boot = {}
            /\ OneActive /\ RunningIsActive
            /\ RowsNamed(w) /\ CopyOK(w)

-----------------------------------------------------------------------------
(* Alone is kept by every action. *)

\* The start of a request.
LEMMA AcceptAlone ==
  ASSUME NEW w \in Workers, IInv, Alone(w), AcceptPost(w) \/ AcceptById(w)
  PROVE  Alone(w)'
<1>. USE DEF IInv, TypeOK
<1>1. /\ pc[w] = "idle" /\ UNCHANGED <<rows, containers, boot>>
      /\ pc'[w] \in {"find", "read"}
      /\ pc'[w] = "find" => request'[w].notebook \in Notebooks
      /\ request'[w].op # "existing"
  <2>1. CASE AcceptPost(w)
    BY <2>1 DEF AcceptPost, Accept, Goto
  <2>2. CASE AcceptById(w)
    <3>1. PICK op \in Operations, r \in RuntimeIds : AcceptFor(w, op, r)
      BY <2>2 DEF AcceptById
    <3>2. op # "existing"
      BY RuntimeAssumption
    <3>3. /\ Goto(w, "idle", "read") /\ UNCHANGED <<rows, containers, boot>>
          /\ request' = [request EXCEPT ![w] = [op |-> op, notebook |-> rows[r].notebook]]
      BY <3>1 DEF AcceptFor, Accept
    <3>. QED BY <3>2, <3>3 DEF Goto
  <2>. QED BY <2>1, <2>2
<1>2. (boot = {} /\ OneActive /\ RunningIsActive)'
  BY <1>1 DEF Alone, OneActive, RunningIsActive, Active
<1>3. RowsNamed(w)'
  BY <1>1 DEF Alone, RowsNamed, Unnamed, Exists
<1>4. CopyOK(w)'
  BY <1>1 DEF CopyOK, Unnamed
<1>. QED BY <1>2, <1>3, <1>4 DEF Alone

\* A notebook without an active row gets a new record, one with an active row
\* the copy of that row.
LEMMA FindActiveAlone ==
  ASSUME NEW w \in Workers, IInv, Alone(w), FindActive(w)
  PROVE  Alone(w)'
<1>. USE DEF IInv, TypeOK
<1>1. pc[w] = "find" /\ UNCHANGED <<rows, containers, boot>>
  BY DEF FindActive
<1>2. (boot = {} /\ OneActive /\ RunningIsActive)'
  BY <1>1 DEF Alone, OneActive, RunningIsActive, Active
<1>3. request[w].notebook \in Notebooks /\ ~ Unnamed(w)
  BY <1>1 DEF Alone, CopyOK, Unnamed
<1>4. CASE NewRecord(w, "find") /\ UNCHANGED request /\ Vacant(request[w].notebook)
  <2>1. pc'[w] = "insert"
    BY <1>4 DEF NewRecord, Goto
  <2>2. RowsNamed(w)'
    BY <1>1, <1>3, <2>1 DEF Alone, RowsNamed, Unnamed, Exists
  <2>3. CopyOK(w)'
    BY <1>1, <1>3, <1>4, <2>1 DEF CopyOK, Unnamed, Vacant, Active, ThreadsOK, ThreadOK
  <2>. QED BY <1>2, <2>2, <2>3 DEF Alone
<1>5. ASSUME NEW r \in RuntimeIds, Active(r), rows[r].notebook = request[w].notebook,
             record' = [record EXCEPT ![w] = RecordOf(r)],
             request' = [request EXCEPT ![w].op = "existing"],
             Goto(w, "find", "reconcile")
      PROVE  Alone(w)'
  <2>1. /\ pc'[w] = "reconcile" /\ record'[w] = RecordOf(r) /\ record'[w].id = r
        /\ request'[w].op = "existing" /\ request'[w].notebook = request[w].notebook
    BY <1>5 DEF Goto, RecordOf
  <2>2. rows[r].ref
    BY <1>3, <1>5 DEF Alone, RowsNamed, Exists, Active, ActiveStates
  <2>3. RowsNamed(w)'
    BY <1>1, <1>3, <2>1 DEF Alone, RowsNamed, Unnamed, Exists
  <2>4. CopyOK(w)'
    BY <1>1, <1>3, <1>5, <2>1, <2>2 DEF CopyOK, Unnamed, Owns, Active, RecordOf
  <2>. QED BY <1>2, <2>3, <2>4 DEF Alone
<1>. QED BY <1>4, <1>5 DEF FindActive, Vacant

\* An unconditional UPDATE, read as what it does to the row and to the others.
LEMMA UpdateWrites ==
  ASSUME TypeOK, NEW r \in RuntimeIds, NEW rec,
         rec.id = r, rec.state \in States, rec.ref \in BOOLEAN, Update(rec)
  PROVE  /\ rows'[r].notebook = rows[r].notebook
         /\ rows'[r].state = rec.state /\ rows'[r].ref = rec.ref
         /\ \A other \in RuntimeIds \ {r} : rows'[other] = rows[other]
BY DEF Update, TypeOK

\* The row of a vacant notebook becomes its only active one.
LEMMA InsertAlone ==
  ASSUME NEW w \in Workers, IInv, IInv', Alone(w), Insert(w)
  PROVE  Alone(w)'
<1>. USE DEF IInv, TypeOK
<1>. DEFINE id == record[w].id
<1>1. /\ pc[w] = "insert" /\ pc'[w] = "provision" /\ id \in RuntimeIds
      /\ containers[id] = "absent" /\ ~ Unnamed(w) /\ Unnamed(w)'
      /\ UNCHANGED <<containers, boot, record>>
      /\ request'[w].notebook = request[w].notebook /\ request'[w].op = "create"
  BY DEF Insert, Goto, ThreadsOK, ThreadOK, Creating, Unnamed
<1>2. /\ rows'[id].notebook = request[w].notebook /\ Active(id)'
      /\ \A other \in RuntimeIds \ {id} : rows'[other] = rows[other]
  BY <1>1 DEF Insert, Active, ActiveStates
<1>3. /\ Vacant(request[w].notebook) /\ request[w].notebook \in Notebooks
  BY <1>1 DEF Alone, CopyOK
<1>4. OneActive'
  BY <1>2, <1>3 DEF Alone, OneActive, Vacant, Active
<1>5. RunningIsActive'
  BY <1>1, <1>2 DEF Alone, RunningIsActive, Active, Running
<1>6. RowsNamed(w)'
  BY <1>1, <1>2 DEF Alone, RowsNamed, Exists
<1>7. CopyOK(w)'
  BY <1>1, <1>2, <1>3 DEF CopyOK, Owns, Unnamed
<1>. QED BY <1>1, <1>4, <1>5, <1>6, <1>7 DEF Alone

\* The row of the runtime under construction stays active.
LEMMA ConstructionAlone ==
  ASSUME NEW w \in Workers, IInv, IInv', Alone(w),
         Provision(w) \/ RunContainer(w) \/ Start(w)
  PROVE  Alone(w)'
<1>. USE DEF IInv, TypeOK
<1>. DEFINE id == record[w].id
<1>1. /\ Unnamed(w) /\ UNCHANGED <<boot, request>> /\ id \in RuntimeIds /\ Exists(id)
      /\ record'[w].id = id /\ request[w].op = "create"
      /\ pc'[w] \in {"run", "start", "reconcile"}
  BY DEF Provision, RunContainer, Start, Goto, Unnamed, ThreadsOK, ThreadOK, HasRow
<1>2. request[w].notebook \in Notebooks /\ Owns(w)
  BY <1>1 DEF Alone, CopyOK
<1>3. /\ \A other \in RuntimeIds \ {id} : /\ rows'[other] = rows[other]
                                          /\ containers'[other] = containers[other]
      /\ rows'[id].notebook = rows[id].notebook /\ Active(id)'
      /\ pc'[w] = "reconcile" => record'[w] = RecordOf(id)' /\ record'[w].ref
  <2>1. CASE RunContainer(w)
    BY <1>1, <1>2, <2>1 DEF RunContainer, Goto, Owns, Active
  <2>2. CASE Provision(w)
    <3>1. /\ record'[w].state = "PROVISIONING" /\ Update(record'[w])
          /\ UNCHANGED containers /\ pc'[w] = "run"
      BY <2>2 DEF Provision, Goto
    <3>2. record'[w].ref \in BOOLEAN
      OBVIOUS
    <3>. QED BY <1>1, <3>1, <3>2, UpdateWrites DEF States, Active, ActiveStates
  <2>3. CASE Start(w)
    <3>1. /\ record'[w].state = "STARTING" /\ record'[w].ref /\ Update(record'[w])
          /\ UNCHANGED containers
      BY <2>3 DEF Start
    <3>2. record'[w].ref = TRUE
      BY <3>1
    <3>3. /\ rows'[id].notebook = rows[id].notebook
          /\ rows'[id].state = "STARTING" /\ rows'[id].ref = TRUE
          /\ \A other \in RuntimeIds \ {id} : rows'[other] = rows[other]
      BY <1>1, <3>1, <3>2, UpdateWrites DEF States, ActiveStates
    <3>4. record'[w] = [id |-> id, state |-> "STARTING", ref |-> TRUE]
      <4>1. record'[w] \in [id : 0 .. MaxRuntimes, state : States \union {"absent"},
                            ref : BOOLEAN]
        OBVIOUS
      <4>. QED BY <1>1, <3>1, <3>2, <4>1
    <3>5. record'[w] = RecordOf(id)'
      BY <1>1, <3>3, <3>4 DEF RecordOf
    <3>. QED BY <1>1, <3>1, <3>3, <3>5 DEF Active, ActiveStates
  <2>. QED BY <2>1, <2>2, <2>3
<1>4. OneActive'
  BY <1>1, <1>2, <1>3 DEF Alone, OneActive, Owns, Active
<1>5. RunningIsActive'
  BY <1>1, <1>3 DEF Alone, RunningIsActive, Active
<1>6. RowsNamed(w)'
  <2>1. rows'[id].ref \/ (Unnamed(w)' /\ record'[w].id = id)
    BY <1>1, <1>3 DEF Unnamed, RecordOf
  <2>. QED BY <1>1, <1>3, <2>1 DEF Alone, RowsNamed, Exists
<1>7. CopyOK(w)'
  BY <1>1, <1>2, <1>3 DEF CopyOK, Owns, Unnamed
<1>. QED BY <1>1, <1>4, <1>5, <1>6, <1>7 DEF Alone

\* Steps that leave rows and containers alone disturb the thread's copy only.
LEMMA RowsLeftAlone ==
  ASSUME NEW w \in Workers, Alone(w), ~ Unnamed(w), CopyOK(w)',
         UNCHANGED <<rows, containers, boot>>
  PROVE  Alone(w)'
BY DEF Alone, OneActive, RunningIsActive, RowsNamed, Active, Exists, Unnamed

\* A state found out of date was found from the row as it is: a container that
\* runs has an active row.
LEMMA ReconcileAlone ==
  ASSUME NEW w \in Workers, IInv, IInv', Alone(w), Reconcile(w)
  PROVE  Alone(w)'
<1>. USE DEF IInv, TypeOK
<1>. DEFINE id == record[w].id
            rec == [record[w] EXCEPT !.state = NewState(record[w])]
<1>1. /\ pc[w] = "reconcile" /\ id \in RuntimeIds /\ ~ Unnamed(w)
      /\ UNCHANGED <<rows, containers, request, boot>>
  BY DEF Reconcile, ThreadsOK, ThreadOK, HasRow, Unnamed
<1>2. /\ record[w] = RecordOf(id) /\ record[w].ref /\ request[w].op # "delete"
      /\ request[w].op = "existing" => Owns(w) /\ request[w].notebook \in Notebooks
  BY <1>1 DEF Alone, CopyOK
<1>3. CASE rec = record[w] /\ Reconciled(w, "reconcile", rec)
  <2>1. ~ (request[w].op = "existing" /\ rec.state \notin ActiveStates)
    BY <1>2, <1>3 DEF Owns, Active, RecordOf
  <2>2. pc'[w] \in {"endpoint", "answer"}
    BY <1>3, <2>1 DEF Reconciled, Goto
  <2>3. CopyOK(w)'
    BY <1>1, <1>2, <2>2 DEF CopyOK, Unnamed
  <2>. QED BY <1>1, <2>3, RowsLeftAlone
<1>4. CASE rec # record[w] /\ Goto(w, "reconcile", "update")
           /\ record' = [record EXCEPT ![w] = rec]
  <2>1. /\ pc'[w] = "update" /\ record'[w].state = NewState(record[w])
        /\ record'[w].ref /\ record'[w].id = id
    BY <1>2, <1>4 DEF Goto
  <2>2. record[w].state # "STOPPED"
    <3>1. rec # record[w] => NewState(record[w]) # record[w].state
      OBVIOUS
    <3>. QED BY <1>4, <3>1 DEF NewState
  <2>3. NewState(record[w]) = Inspected(id)
    BY <1>2, <2>2 DEF NewState
  <2>4. IF record'[w].state \in ActiveStates THEN Active(id)
        ELSE containers[id] \notin Running
    BY <1>1, <2>1, <2>3 DEF Alone, RunningIsActive, Inspected, ActiveStates, Running
  <2>5. Active(record[w].id)' <=> Active(record[w].id)
    BY <1>1, <2>1 DEF Active
  <2>6. Owns(w)' <=> Owns(w)
    BY <1>1, <2>1, <2>5 DEF Owns
  <2>7. CopyOK(w)'
    BY <1>1, <1>2, <2>1, <2>4, <2>5, <2>6 DEF CopyOK, Unnamed
  <2>. QED BY <1>1, <2>7, RowsLeftAlone
<1>. QED BY <1>3, <1>4 DEF Reconcile

\* The row stays active or its container is gone, and a notebook whose active
\* runtime has died is vacant.
LEMMA UpdateReconciledAlone ==
  ASSUME NEW w \in Workers, IInv, IInv', Alone(w), UpdateReconciled(w)
  PROVE  Alone(w)'
<1>. USE DEF IInv, TypeOK
<1>1. PICK id \in RuntimeIds : id = record[w].id /\ Exists(id)
  BY DEF UpdateReconciled, ThreadsOK, ThreadOK, HasRow
<1>2. /\ pc[w] = "update" /\ ~ Unnamed(w) /\ UNCHANGED <<containers, request, boot>>
      /\ Reconciled(w, "update", record[w]) /\ Update(record[w])
  BY DEF UpdateReconciled, Unnamed
<1>3. /\ record[w].ref /\ request[w].op # "delete"
      /\ request[w].op = "existing" => Owns(w) /\ request[w].notebook \in Notebooks
      /\ IF record[w].state \in ActiveStates THEN Active(id)
         ELSE containers[id] \notin Running
  BY <1>1, <1>2 DEF Alone, CopyOK
<1>4. /\ rows'[id].notebook = rows[id].notebook
      /\ rows'[id].state = record[w].state /\ rows'[id].ref
      /\ \A other \in RuntimeIds \ {id} : rows'[other] = rows[other]
  <2>1. record[w].state \in States /\ record[w].ref \in BOOLEAN
    BY <1>2 DEF ThreadsOK, ThreadOK
  <2>. QED BY <1>1, <1>2, <1>3, <2>1, UpdateWrites
<1>5. OneActive'
  BY <1>1, <1>3, <1>4 DEF Alone, OneActive, Active
<1>6. RunningIsActive'
  BY <1>1, <1>2, <1>3, <1>4 DEF Alone, RunningIsActive, Active
<1>7. RowsNamed(w)'
  BY <1>1, <1>2, <1>4 DEF Alone, RowsNamed, Exists
<1>8. CopyOK(w)'
  <2>1. CASE request[w].op = "existing" /\ record[w].state \notin ActiveStates
    <3>1. pc'[w] = "insert"
      BY <1>2, <2>1 DEF Reconciled, NewRecord, Goto
    <3>2. Vacant(request[w].notebook)'
      BY <1>1, <1>2, <1>3, <1>4, <2>1 DEF Alone, OneActive, Owns, Vacant, Active
    <3>. QED BY <1>2, <1>3, <2>1, <3>1, <3>2 DEF CopyOK, Unnamed
  <2>2. CASE ~ (request[w].op = "existing" /\ record[w].state \notin ActiveStates)
    <3>1. pc'[w] \in {"endpoint", "answer"}
      BY <1>2, <2>2 DEF Reconciled, Goto
    <3>. QED BY <1>2, <1>3, <3>1 DEF CopyOK, Unnamed
  <2>. QED BY <2>1, <2>2
<1>. QED BY <1>2, <1>5, <1>6, <1>7, <1>8 DEF Alone

\* A row that is read names its container, so a DELETE goes through terminate.
LEMMA ReadAlone ==
  ASSUME NEW w \in Workers, IInv, IInv', Alone(w), Read(w) \/ Endpoint(w)
  PROVE  Alone(w)'
<1>. USE DEF IInv, TypeOK
<1>1. /\ pc[w] \in {"read", "endpoint"} /\ ~ Unnamed(w)
      /\ UNCHANGED <<rows, containers, request, boot>>
      /\ record[w].id \in RuntimeIds /\ Exists(record[w].id)
  BY DEF Read, Endpoint, Goto, ThreadsOK, ThreadOK, HasRow, Unnamed
<1>2. CASE Read(w)
  <2>1. rows[record[w].id].ref /\ request[w].op # "existing"
    BY <1>1, <1>2 DEF Alone, RowsNamed, ThreadsOK, ThreadOK, Read
  <2>2. /\ record'[w] = RecordOf(record[w].id) /\ record'[w].ref
        /\ record'[w].id = record[w].id
    BY <2>1, <1>2 DEF Read, RecordOf
  <2>3. \/ pc'[w] = "reconcile" /\ request[w].op # "delete"
        \/ pc'[w] = "terminate"
    BY <1>2, <2>1 DEF Read, Goto, RecordOf
  <2>4. record'[w] = RecordOf(record[w].id)'
    BY <1>1, <2>2 DEF RecordOf
  <2>5. CopyOK(w)'
    BY <1>1, <2>1, <2>2, <2>3, <2>4 DEF CopyOK, Unnamed
  <2>. QED BY <1>1, <2>5, RowsLeftAlone
<1>3. CASE Endpoint(w)
  <2>1. pc'[w] \in {"answer", "error"} /\ request[w].op # "delete"
        /\ UNCHANGED record
    BY <1>3 DEF Endpoint, Goto, Alone, CopyOK
  <2>2. CopyOK(w)'
    BY <1>1, <2>1 DEF CopyOK, Unnamed, Alone
  <2>. QED BY <1>1, <2>2, RowsLeftAlone
<1>. QED BY <1>2, <1>3

\* A container is removed before its row says STOPPED.
LEMMA DeleteAlone ==
  ASSUME NEW w \in Workers, IInv, IInv', Alone(w), Terminate(w) \/ Stop(w)
  PROVE  Alone(w)'
<1>. USE DEF IInv, TypeOK
<1>1. PICK id \in RuntimeIds : id = record[w].id /\ Exists(id)
  BY DEF Terminate, Stop, Goto, ThreadsOK, ThreadOK, HasRow
<1>2. /\ pc[w] \in {"terminate", "stop"} /\ ~ Unnamed(w) /\ record[w].ref
      /\ UNCHANGED <<request, boot>>
      /\ request[w].op = "existing" => request[w].notebook \in Notebooks
  BY DEF Terminate, Stop, Goto, Unnamed, Alone, CopyOK
<1>3. CASE Terminate(w)
  <2>1. /\ pc'[w] = "stop" /\ record'[w].ref /\ UNCHANGED rows
        /\ \A r \in RuntimeIds : containers'[r] \in Running => containers[r] \in Running
    BY <1>1, <1>2, <1>3 DEF Terminate, Goto, Running
  <2>2. OneActive' /\ RunningIsActive'
    BY <2>1 DEF Alone, OneActive, RunningIsActive, Active
  <2>3. RowsNamed(w)'
    BY <1>2, <2>1 DEF Alone, RowsNamed, Exists
  <2>4. CopyOK(w)'
    BY <1>2, <2>1 DEF CopyOK, Unnamed
  <2>. QED BY <1>2, <2>2, <2>3, <2>4 DEF Alone
<1>4. CASE Stop(w)
  <2>1. /\ pc'[w] = "answer" /\ record'[w].id = id /\ record'[w].state = "STOPPED"
        /\ record'[w].ref /\ UNCHANGED containers /\ Update(record'[w])
        /\ containers[id] = "removed"
    BY <1>1, <1>2, <1>4 DEF Stop, Goto, ThreadsOK, ThreadOK
  <2>2. /\ rows'[id].state = "STOPPED" /\ rows'[id].ref
        /\ rows'[id].notebook = rows[id].notebook
        /\ \A other \in RuntimeIds \ {id} : rows'[other] = rows[other]
    <3>1. record'[w].ref \in BOOLEAN
      OBVIOUS
    <3>. QED BY <2>1, <3>1, UpdateWrites DEF States
  <2>3. OneActive'
    <3>1. ~ Active(id)'
      BY <2>2 DEF Active, ActiveStates
    <3>2. \A r \in RuntimeIds : /\ Active(r)' => Active(r)
                               /\ rows'[r].notebook = rows[r].notebook
      BY <2>2, <3>1 DEF Active
    <3>. QED BY <3>2 DEF Alone, OneActive
  <2>4. RunningIsActive'
    BY <2>1, <2>2 DEF Alone, RunningIsActive, Active, Running
  <2>5. RowsNamed(w)'
    BY <1>2, <2>2 DEF Alone, RowsNamed, Exists
  <2>6. CopyOK(w)'
    BY <1>1, <1>2, <2>1 DEF CopyOK, Unnamed
  <2>. QED BY <1>2, <2>3, <2>4, <2>5, <2>6 DEF Alone
<1>. QED BY <1>3, <1>4

LEMMA AnswerAlone ==
  ASSUME NEW w \in Workers, IInv, IInv', Alone(w), Answer(w)
  PROVE  Alone(w)'
<1>. USE DEF IInv, TypeOK
<1>1. /\ pc[w] \in {"answer", "error"} /\ ~ Unnamed(w) /\ pc'[w] = "idle"
      /\ UNCHANGED <<rows, containers, boot>> /\ request'[w].op = "none"
  BY DEF Answer, Goto, Unnamed, NoRequest
<1>2. CopyOK(w)'
  BY <1>1 DEF CopyOK, Unnamed
<1>. QED BY <1>1, <1>2, RowsLeftAlone

\* A container runs only if it ran before, and the one that is removed stays so.
LEMMA ContainersAlone ==
  ASSUME NEW w \in Workers, IInv, Alone(w), Healthy \/ Unhealthy \/ Exits
  PROVE  Alone(w)'
<1>. USE DEF IInv, TypeOK
<1>1. /\ UNCHANGED <<rows, threads, boot>>
      /\ \A r \in RuntimeIds :
           /\ containers'[r] \in Running => containers[r] \in Running
           /\ containers[r] = "removed" => containers'[r] = "removed"
  BY DEF Healthy, Unhealthy, Exits, ContainerBecomes, Running
<1>2. OneActive' /\ RunningIsActive' /\ RowsNamed(w)'
  BY <1>1 DEF Alone, OneActive, RunningIsActive, RowsNamed, Active, Exists, Unnamed, threads
<1>3. pc[w] \in {"update", "answer"} => record[w].id \in RuntimeIds
  BY DEF ThreadsOK, ThreadOK, HasRow
<1>4. CopyOK(w)'
  BY <1>1, <1>3 DEF Alone, CopyOK, Owns, Vacant, Active, RecordOf, Unnamed, threads
<1>. QED BY <1>1, <1>2, <1>4 DEF Alone

\* Without faults and with startup over, no step but these is possible.
LEMMA NoFault ==
  ASSUME Faults = {}, NEW w \in Workers, Alone(w)
  PROVE  /\ ~ RunContainerFails(w) /\ ~ InspectFails(w) /\ ~ TerminateFails(w)
         /\ ~ DatabaseFails(w) /\ ~ Fail(w) /\ ~ Crash /\ ~ ReconcileAtStartup
BY DEF RunContainerFails, InspectFails, TerminateFails, DatabaseFails, Fail, Crash, ReconcileAtStartup,
       Goto, Alone, CopyOK

LEMMA InitAlone == ASSUME NEW w \in Workers, Init PROVE Alone(w)
BY DEF Init, Alone, OneActive, RunningIsActive, RowsNamed, CopyOK, Unnamed, Exists, Active,
       ActiveStates, Running, NoRow, NoRequest

LEMMA StepAlone ==
  ASSUME Faults = {}, NEW w, Workers = {w}, IInv, IInv', Alone(w), [Next]_vars
  PROVE  Alone(w)'
<1>. w \in Workers
  OBVIOUS
<1>1. CASE Step(w)
  BY <1>1, NoFault, FindActiveAlone, InsertAlone, ConstructionAlone, ReconcileAlone,
     UpdateReconciledAlone, ReadAlone, DeleteAlone, AnswerAlone DEF Step
<1>2. CASE AcceptPost(w) \/ AcceptById(w)
  BY <1>2, AcceptAlone
<1>3. CASE Healthy \/ Unhealthy \/ Exits
  BY <1>3, ContainersAlone
<1>4. CASE UNCHANGED vars
  BY <1>4 DEF vars, threads, Alone, OneActive, RunningIsActive, RowsNamed, CopyOK, Owns,
              Vacant, Unnamed, Exists, Active, RecordOf
<1>. QED BY <1>1, <1>2, <1>3, <1>4, NoFault DEF Next

-----------------------------------------------------------------------------
(* Every step is one of the pool, or changes nothing the pool speaks of. *)

\* The refinement mapping, by name.
Phase == [r \in RuntimeIds |-> IF containers[r] \in {"exited", "removed"}
                               THEN "gone" ELSE containers[r]]
Owner == [r \in RuntimeIds |-> IF containers[r] = "absent"
                               THEN None ELSE rows[r].notebook]

\* The notebook of a row changes only while there is no container.
LEMMA PoolStutters ==
  ASSUME UNCHANGED <<containers, stopped>>,
         \A r \in RuntimeIds :
           containers[r] # "absent" => rows'[r].notebook = rows[r].notebook
  PROVE  UNCHANGED Pool!poolVars
<1>1. Phase' = Phase /\ Owner' = Owner
  BY DEF Phase, Owner
<1>. QED BY <1>1 DEF Pool!poolVars, Phase, Owner

\* A container that changes, in the words of the pool.
LEMMA PhaseChanges ==
  ASSUME TypeOK, NEW r \in RuntimeIds, NEW c, containers[r] # "absent",
         UNCHANGED <<rows, stopped>>, c # "absent",
         containers' = [containers EXCEPT ![r] = c]
  PROVE  /\ Phase' = [Phase EXCEPT ![r] = IF c \in {"exited", "removed"}
                                           THEN "gone" ELSE c]
         /\ Owner' = Owner
BY DEF TypeOK, Phase, Owner

LEMMA InitPool == Init => Pool!PoolInit
BY DEF Init, Pool!PoolInit

\* docker.create starts the only container of its notebook: every other one that
\* runs would have an active row.
LEMMA RunContainerPool ==
  ASSUME NEW w \in Workers, IInv, Alone(w), RunContainer(w)
  PROVE  Pool!PoolNext
<1>. USE DEF IInv, TypeOK
<1>1. PICK id \in RuntimeIds : id = record[w].id /\ containers[id] = "absent"
  BY DEF RunContainer, Goto, ThreadsOK, ThreadOK, Creating
<1>2. PICK n \in Notebooks : n = request[w].notebook
  BY DEF RunContainer, Goto, Alone, CopyOK, Unnamed
<1>3. rows[id].notebook = n /\ Active(id)
  BY <1>1, <1>2 DEF RunContainer, Goto, Alone, CopyOK, Unnamed, Owns
<1>4. n # None
  BY RuntimeAssumption
<1>5. \A other \in RuntimeIds :
        Owner[other] = n => Phase[other] \notin {"starting", "healthy"}
  BY <1>1, <1>3, <1>4 DEF Alone, OneActive, RunningIsActive, Owner, Phase, Running
<1>6. containers' = [containers EXCEPT ![id] = "starting"] /\ UNCHANGED <<rows, stopped>>
  BY <1>1 DEF RunContainer, history
<1>7. /\ Phase[id] = "absent" /\ Phase' = [Phase EXCEPT ![id] = "starting"]
      /\ Owner' = [Owner EXCEPT ![id] = n]
  BY <1>1, <1>3, <1>6 DEF Phase, Owner
<1>8. Pool!Launch(n, id)
  BY <1>5, <1>6, <1>7 DEF Pool!Launch, Pool!Alive, Phase, Owner
<1>. QED BY <1>8 DEF Pool!PoolNext

\* Whoever removes a container, one that ran vanishes.
LEMMA TerminatePool ==
  ASSUME NEW w \in Workers, IInv, Alone(w), Terminate(w)
  PROVE  [Pool!PoolNext]_Pool!poolVars
<1>. USE DEF IInv, TypeOK
<1>1. PICK id \in RuntimeIds : id = record[w].id /\ containers[id] # "absent"
  BY DEF Terminate, Goto, ThreadsOK, ThreadOK, HasRow, RecordOK
<1>2. containers' = [containers EXCEPT ![id] = "removed"] /\ UNCHANGED <<rows, stopped>>
  BY <1>1 DEF Terminate, history
<1>3. Phase' = [Phase EXCEPT ![id] = "gone"] /\ Owner' = Owner
  BY <1>1, <1>2, PhaseChanges
<1>4. CASE containers[id] \in Running
  <2>1. Phase[id] \in {"starting", "healthy"}
    BY <1>4 DEF Phase, Running
  <2>2. Pool!Vanishes(id)
    BY <1>2, <1>3, <2>1 DEF Pool!Vanishes, Pool!Alive, Phase, Owner
  <2>. QED BY <2>2 DEF Pool!PoolNext
<1>5. CASE containers[id] \notin Running
  <2>1. Phase[id] = "gone"
    BY <1>1, <1>5 DEF Phase, Running
  <2>2. Phase' = Phase
    BY <1>3, <2>1 DEF Phase
  <2>. QED BY <1>2, <1>3, <2>2 DEF Pool!poolVars, Phase, Owner
<1>. QED BY <1>4, <1>5

\* Healthy, unhealthy, dead: one step of the pool each.
LEMMA ContainersPool ==
  ASSUME TypeOK, Healthy \/ Unhealthy \/ Exits
  PROVE  Pool!PoolNext
<1>1. ASSUME NEW r \in RuntimeIds, NEW c \in {"healthy", "starting"},
             containers[r] \in Running \ {c},
             containers' = [containers EXCEPT ![r] = c], UNCHANGED <<rows, stopped>>
      PROVE  Pool!PoolNext
  <2>1. Phase[r] \in Running \ {c} /\ Phase' = [Phase EXCEPT ![r] = c] /\ Owner' = Owner
    BY <1>1, PhaseChanges DEF Phase, Running
  <2>2. Pool!BecomesHealthy(r) \/ Pool!BecomesUnhealthy(r)
    BY <1>1, <2>1 DEF Pool!BecomesHealthy, Pool!BecomesUnhealthy, Phase, Owner, Running
  <2>. QED BY <2>2 DEF Pool!PoolNext
<1>2. ASSUME NEW r \in RuntimeIds, containers[r] \in Running,
             containers' = [containers EXCEPT ![r] = "exited"], UNCHANGED <<rows, stopped>>
      PROVE  Pool!PoolNext
  <2>1. Phase[r] \in Running /\ Phase' = [Phase EXCEPT ![r] = "gone"] /\ Owner' = Owner
    BY <1>2, PhaseChanges DEF Phase, Running
  <2>2. Pool!Vanishes(r)
    BY <1>2, <2>1 DEF Pool!Vanishes, Pool!Alive, Phase, Owner, Running
  <2>. QED BY <2>2 DEF Pool!PoolNext
<1>. QED BY <1>1, <1>2 DEF Healthy, Unhealthy, Exits, ContainerBecomes, Running, history

\* DELETE is answered when the container is gone.
LEMMA AnswerPool ==
  ASSUME NEW w \in Workers, IInv, Alone(w), Answer(w)
  PROVE  [Pool!PoolNext]_Pool!poolVars
<1>. USE DEF IInv, TypeOK
<1>1. UNCHANGED <<rows, containers>>
  BY DEF Answer
<1>2. CASE stopped' = stopped
  BY <1>1, <1>2, PoolStutters
<1>3. CASE stopped' # stopped
  <2>1. pc[w] = "answer" /\ request[w].op = "delete"
        /\ stopped' = stopped \union {record[w].id}
    BY <1>3 DEF Answer, Goto, history
  <2>2. record[w].id \in RuntimeIds /\ containers[record[w].id] = "removed"
    BY <2>1 DEF Alone, CopyOK, ThreadsOK, ThreadOK, HasRow
  <2>3. Phase[record[w].id] = "gone" /\ Phase' = Phase /\ Owner' = Owner
    BY <1>1, <2>2 DEF Phase, Owner
  <2>4. Pool!ReportStopped(record[w].id)
    BY <2>1, <2>3 DEF Pool!ReportStopped, Phase, Owner
  <2>. QED BY <2>2, <2>4 DEF Pool!PoolNext
<1>. QED BY <1>2, <1>3

\* The other steps move threads and write states.
LEMMA ThreadPool ==
  ASSUME NEW w \in Workers, IInv,
         \/ FindActive(w) \/ Insert(w) \/ Provision(w) \/ Start(w) \/ Reconcile(w)
         \/ UpdateReconciled(w) \/ Read(w) \/ Stop(w) \/ Endpoint(w)
         \/ AcceptPost(w) \/ AcceptById(w)
  PROVE  UNCHANGED Pool!poolVars
<1>. USE DEF IInv, TypeOK
<1>1. UNCHANGED <<containers, stopped>>
  BY DEF FindActive, Insert, Provision, Start, Reconcile, UpdateReconciled, Read, Stop,
         Endpoint, AcceptPost, AcceptById, AcceptFor, history
<1>2. CASE Insert(w)
  <2>1. containers[record[w].id] = "absent"
    BY <1>2 DEF Insert, Goto, ThreadsOK, ThreadOK, Creating
  <2>2. \A r \in RuntimeIds : containers[r] # "absent" => rows'[r] = rows[r]
    BY <1>2, <2>1 DEF Insert
  <2>. QED BY <1>1, <2>2, PoolStutters
<1>3. CASE ~ Insert(w)
  <2>1. rows' = rows \/ \E rec : Update(rec)
    BY <1>3 DEF FindActive, Provision, Start, Reconcile, UpdateReconciled, Read, Stop,
                Endpoint, AcceptPost, AcceptById, AcceptFor
  <2>2. ASSUME NEW rec, Update(rec), NEW r \in RuntimeIds
        PROVE  rows'[r].notebook = rows[r].notebook
    <3>. DEFINE state == rec.state
                ref == rec.ref
    <3>1. rows' = [rows EXCEPT ![rec.id].state = state, ![rec.id].ref = ref]
      BY <2>2 DEF Update
    <3>. HIDE DEF state, ref
    <3>. QED BY <3>1
  <2>. QED BY <1>1, <2>1, <2>2, PoolStutters
<1>. QED BY <1>2, <1>3

LEMMA StepPool ==
  ASSUME Faults = {}, NEW w, Workers = {w}, IInv, Alone(w), [Next]_vars
  PROVE  [Pool!PoolNext]_Pool!poolVars
<1>. w \in Workers /\ TypeOK
  BY DEF IInv
<1>1. CASE Step(w)
  BY <1>1, NoFault, ThreadPool, RunContainerPool, TerminatePool, AnswerPool DEF Step
<1>2. CASE AcceptPost(w) \/ AcceptById(w)
  BY <1>2, ThreadPool
<1>3. CASE Healthy \/ Unhealthy \/ Exits
  BY <1>3, ContainersPool
<1>4. CASE UNCHANGED vars
  BY <1>4, PoolStutters DEF vars, history
<1>. QED BY <1>1, <1>2, <1>3, <1>4, NoFault DEF Next

-----------------------------------------------------------------------------

\* Without faults, the copy of a thread that works alone is as good as the row
\* it comes from.
THEOREM OneThread ==
  ASSUME Faults = {}, NEW w, Workers = {w}
  PROVE  Spec => []Alone(w)
<1>1. Init => Alone(w)
  BY InitAlone
<1>2. IInv /\ IInv' /\ Alone(w) /\ [Next]_vars => Alone(w)'
  BY StepAlone
<1>. QED BY <1>1, <1>2, Invariance, PTL DEF Spec

\* With requests one at a time the service keeps what the pool promises, whatever
\* containers die and whoever stops them: a POST for a notebook whose container
\* runs starts no second one, and a runtime reported as stopped is gone.
THEOREM ImplementsPool ==
  ASSUME Faults = {}, NEW w, Workers = {w}
  PROVE  Spec => PoolImplemented
<1>1. Init => Pool!PoolInit
  BY InitPool
<1>2. IInv /\ Alone(w) /\ [Next]_vars => [Pool!PoolNext]_Pool!poolVars
  BY StepPool
<1>. QED BY <1>1, <1>2, Invariance, OneThread, PTL
         DEF Spec, PoolImplemented, Pool!PoolSpec

\* A notebook never has two running containers, whichever of its POSTs meets whatever
\* death, although a second thread or a crash can make this false.
THEOREM OneContainer ==
  ASSUME Faults = {}, NEW w, Workers = {w}
  PROVE  Spec => []Pool!OneAlive
<1>1. ASSUME Alone(w)
      PROVE  Pool!OneAlive
  <2>. SUFFICES ASSUME NEW r \in RuntimeIds, NEW s \in RuntimeIds,
                       containers[r] \in Running, containers[s] \in Running,
                       rows[r].notebook = rows[s].notebook
                PROVE  r = s
    BY DEF Pool!OneAlive, Pool!Alive, Running
  <2>. QED BY <1>1 DEF Alone, RunningIsActive, OneActive
<1>. QED BY <1>1, OneThread, PTL

\* Nothing runs that no DELETE can reach, unless the request that runs it is
\* under way.
THEOREM NothingStrays ==
  ASSUME Faults = {}, NEW w, Workers = {w}
  PROVE  Spec => []NoStrayContainer
<1>1. Alone(w) => NoStrayContainer
  BY DEF Alone, RunningIsActive, RowsNamed, Unnamed, NoStrayContainer, Active, Exists,
         ActiveStates
<1>. QED BY <1>1, OneThread, PTL

\* A runtime whose DELETE was answered with success does not run, although a second
\* thread can make this false.
THEOREM DeletedIsDestroyed ==
  ASSUME Faults = {}, NEW w, Workers = {w}
  PROVE  Spec => []StopDestroys
<1>. DEFINE Destroyed == \A r \in stopped : r \in RuntimeIds /\ containers[r] = "removed"
<1>1. Init => Destroyed
  BY DEF Init
<1>2. ASSUME IInv, IInv', Alone(w), Destroyed, [Next]_vars PROVE Destroyed'
  <2>. USE <1>2 DEF IInv, TypeOK
  <2>. w \in Workers
    OBVIOUS
  <2>1. \A r \in RuntimeIds : containers[r] = "removed" => containers'[r] = "removed"
    <3>1. ASSUME Step(w) PROVE RunContainer(w) \/ Terminate(w) \/ UNCHANGED containers
      BY <3>1, NoFault DEF Step, FindActive, Insert, Provision, Start, Reconcile,
                           UpdateReconciled, Read, Stop, Endpoint, Answer
    <3>2. CASE RunContainer(w)
      <4>1. containers[record[w].id] = "absent"
        BY <3>2 DEF RunContainer, Goto, ThreadsOK, ThreadOK, Creating
      <4>. QED BY <3>2, <4>1 DEF RunContainer
    <3>3. CASE Terminate(w)
      BY <3>3 DEF Terminate
    <3>4. CASE Healthy \/ Unhealthy \/ Exits
      BY <3>4 DEF Healthy, Unhealthy, Exits, ContainerBecomes, Running
    <3>5. CASE UNCHANGED vars \/ AcceptPost(w) \/ AcceptById(w)
      BY <3>5 DEF vars, AcceptPost, AcceptById, AcceptFor
    <3>. QED BY <3>1, <3>2, <3>3, <3>4, <3>5, NoFault DEF Next
  <2>2. CASE stopped' = stopped
    BY <2>1, <2>2
  <2>3. CASE stopped' # stopped
    <3>1. Answer(w)
      BY <2>3, NoFault
         DEF Next, Step, FindActive, Insert, Provision, RunContainer, Start, Reconcile,
             UpdateReconciled, Read, Terminate, Stop, Endpoint, AcceptPost, AcceptById,
             AcceptFor, Healthy, Unhealthy, Exits, ContainerBecomes, vars, history
    <3>2. /\ pc[w] = "answer" /\ request[w].op = "delete"
          /\ stopped' = stopped \union {record[w].id}
      BY <2>3, <3>1 DEF Answer, Goto, history
    <3>3. record[w].id \in RuntimeIds /\ containers[record[w].id] = "removed"
      BY <3>2 DEF Alone, CopyOK, ThreadsOK, ThreadOK, HasRow
    <3>. QED BY <2>1, <3>2, <3>3
  <2>. QED BY <2>2, <2>3
<1>3. Destroyed => StopDestroys
  BY DEF StopDestroys, Running
<1>. HIDE DEF Destroyed
<1>. QED BY <1>1, <1>2, <1>3, Invariance, OneThread, PTL DEF Spec

=============================================================================
