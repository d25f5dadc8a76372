--------------------------- MODULE RuntimeService ---------------------------
(***************************************************************************)
(* The Runtime Service: threads that create, inspect and terminate the     *)
(* container of a notebook's runtime, with one row per runtime in SQLite.  *)
(*                                                                         *)
(* The routes are plain functions, so FastAPI runs them in a thread pool.  *)
(* No lock spans a request: every repository call is a transaction of its  *)
(* own, every provider call a call to the Docker daemon, and each of them  *)
(* is one action.  update() writes the state and provider_ref of the copy  *)
(* a thread read earlier, whatever the row has become since.               *)
(*                                                                         *)
(* A runtime's container is named after it and run at most once, so a      *)
(* provider_ref is modelled by whether it is set.                          *)
(***************************************************************************)
EXTENDS Naturals

CONSTANTS Workers,      \* route threads
          Notebooks,
          MaxRuntimes,  \* bound on POST requests
          Operations,   \* requests the clients send besides POST
          Faults,       \* what may go wrong: "crash", "docker", "database"
          None

ASSUME RuntimeAssumption ==
  /\ MaxRuntimes \in Nat
  /\ Operations \subseteq {"get", "delete", "connection"}
  /\ Faults \subseteq {"crash", "docker", "database"}
  /\ None \notin Notebooks

VARIABLES rows,        \* table runtimes, in the order of created_at
          containers,  \* the Docker daemon's containers, by runtime
          pc,          \* per worker: the next call of its request
          request,     \* per worker: operation and notebook
          record,      \* per worker: its RuntimeRecord
          created,     \* RuntimeRecords created so far: the ids are 1, 2, ...
          posts,       \* POST requests so far
          boot,        \* runtimes reconcile_all has still to look at
          known,       \* runtimes a client has been told of
          stopped      \* history: runtimes whose DELETE was answered with success

threads == <<pc, request, record>>
history == <<known, stopped>>
vars == <<rows, containers, threads, created, posts, boot, history>>

RuntimeIds == 1 .. MaxRuntimes

ActiveStates == {"REQUESTED", "PROVISIONING", "STARTING", "READY"}
States == ActiveStates \union {"FAILED", "STOPPED"}

NoRow == [notebook |-> None, state |-> "absent", ref |-> FALSE]
NoRecord == [id |-> 0, state |-> "absent", ref |-> FALSE]
NoRequest == [op |-> "none", notebook |-> None]

Running == {"starting", "healthy"}

Exists(r) == rows[r].state # "absent"
Active(r) == rows[r].state \in ActiveStates

\* RuntimeRecord of a row.
RecordOf(r) == [id |-> r, state |-> rows[r].state, ref |-> rows[r].ref]

Init ==
  /\ rows = [r \in RuntimeIds |-> NoRow]
  /\ containers = [r \in RuntimeIds |-> "absent"]
  /\ pc = [w \in Workers |-> "idle"]
  /\ request = [w \in Workers |-> NoRequest]
  /\ record = [w \in Workers |-> NoRecord]
  /\ created = 0 /\ posts = 0
  /\ boot = {} /\ known = {} /\ stopped = {}

-----------------------------------------------------------------------------
(* Control flow of a request. *)

Goto(w, from, to) == pc[w] = from /\ pc' = [pc EXCEPT ![w] = to]

\* Mutant of Update: provider_ref is left out of the UPDATE.
UpdateStateOnly(rec) == rows' = [rows EXCEPT ![rec.id].state = rec.state]

\* repository.update: unconditional, by runtime_id.
Update(rec) ==
  rows' = [rows EXCEPT ![rec.id].state = rec.state, ![rec.id].ref = rec.ref]

\* RuntimeRecord(...) with a fresh id and the current time.
NewRecord(w, from) ==
  /\ created' = created + 1
  /\ record' = [record EXCEPT
                  ![w] = [id |-> created + 1, state |-> "REQUESTED", ref |-> FALSE]]
  /\ Goto(w, from, "insert")

\* Mutants of Reconciled: a runtime found active is never reused; any request
\* replaces a runtime that is no longer active.
ReconciledNeverReuses(w, from, rec) ==
  IF request[w].op = "existing"
  THEN NewRecord(w, from)
  ELSE /\ Goto(w, from, "answer")
       /\ record' = [record EXCEPT ![w] = rec]
       /\ UNCHANGED created

ReconciledReplaces(w, from, rec) ==
  IF rec.state \notin ActiveStates
  THEN NewRecord(w, from)
  ELSE /\ Goto(w, from, "answer")
       /\ record' = [record EXCEPT ![w] = rec]
       /\ UNCHANGED created

\* What follows reconcile_runtime when it returns rec: create_runtime keeps an
\* existing runtime only if it is still active, get_connection goes on for an
\* endpoint only if it is READY.
Reconciled(w, from, rec) ==
  IF request[w].op = "existing" /\ rec.state \notin ActiveStates
  THEN NewRecord(w, from)
  ELSE /\ Goto(w, from, IF request[w].op = "connection" /\ rec.state = "READY"
                        THEN "endpoint" ELSE "answer")
       /\ record' = [record EXCEPT ![w] = rec]
       /\ UNCHANGED created

\* An exception ends a request, except inside the try of create_runtime.
Raise(w, from) == Goto(w, from, IF request[w].op = "create" THEN "fail"
                                ELSE "error")

Accept(w, op, notebook, first) ==
  /\ boot = {}
  /\ Goto(w, "idle", first)
  /\ request' = [request EXCEPT ![w] = [op |-> op, notebook |-> notebook]]

-----------------------------------------------------------------------------
(* create_runtime. *)

AcceptPost(w) ==
  /\ posts < MaxRuntimes
  /\ posts' = posts + 1
  /\ \E n \in Notebooks : Accept(w, "create", n, "find")
  /\ UNCHANGED <<rows, containers, record, created, boot, history>>

\* find_active_by_notebook: the newest active row.
FindActive(w) ==
  LET found == {r \in RuntimeIds : Active(r)
                                   /\ rows[r].notebook = request[w].notebook}
  IN
  /\ pc[w] = "find"
  /\ \/ /\ found = {}
        /\ NewRecord(w, "find")
        /\ UNCHANGED request
     \/ \E r \in found :
          /\ \A other \in found : other <= r
          /\ record' = [record EXCEPT ![w] = RecordOf(r)]
          /\ request' = [request EXCEPT ![w].op = "existing"]
          /\ Goto(w, "find", "reconcile")
          /\ UNCHANGED created
  /\ UNCHANGED <<rows, containers, posts, boot, history>>

Insert(w) ==
  /\ Goto(w, "insert", "provision")
  /\ rows' = [rows EXCEPT ![record[w].id] =
                [notebook |-> request[w].notebook, state |-> "REQUESTED",
                 ref |-> FALSE]]
  /\ request' = [request EXCEPT ![w].op = "create"]
  /\ UNCHANGED <<containers, record, created, posts, boot, history>>

Provision(w) ==
  /\ Goto(w, "provision", "run")
  /\ record' = [record EXCEPT ![w].state = "PROVISIONING"]
  /\ Update(record'[w])
  /\ UNCHANGED <<containers, request, created, posts, boot, history>>

\* provider.create.
RunContainer(w) ==
  /\ Goto(w, "run", "start")
  /\ containers' = [containers EXCEPT ![record[w].id] = "starting"]
  /\ UNCHANGED <<rows, request, record, created, posts, boot, history>>

\* It fails: no container, or one that was created but did not start.
RunContainerFails(w) ==
  /\ "docker" \in Faults
  /\ pc[w] = "run"
  /\ Raise(w, "run")
  /\ \E c \in {"absent", "exited"} :
       containers' = [containers EXCEPT ![record[w].id] = c]
  /\ UNCHANGED <<rows, request, record, created, posts, boot, history>>

\* Mutant of Start: the container's id is not recorded.
StartWithoutRef(w) ==
  /\ Goto(w, "start", "reconcile")
  /\ record' = [record EXCEPT ![w].state = "STARTING"]
  /\ Update(record'[w])
  /\ UNCHANGED <<containers, request, created, posts, boot, history>>

Start(w) ==
  /\ Goto(w, "start", "reconcile")
  /\ record' = [record EXCEPT ![w].state = "STARTING", ![w].ref = TRUE]
  /\ Update(record'[w])
  /\ UNCHANGED <<containers, request, created, posts, boot, history>>

\* except Exception: FAILED, and raise.  The container, if any, stays.
Fail(w) ==
  /\ Goto(w, "fail", "error")
  /\ record' = [record EXCEPT ![w].state = "FAILED"]
  /\ Update(record'[w])
  /\ UNCHANGED <<containers, request, created, posts, boot, history>>

-----------------------------------------------------------------------------
(* reconcile_runtime. *)

\* Mutant of Inspected: a container that is not healthy is still starting.
InspectedNeverFails(r) == IF containers[r] = "healthy" THEN "READY"
                          ELSE "STARTING"

\* inspect: not found and not running are the same.
Inspected(r) == IF containers[r] = "healthy" THEN "READY"
                ELSE IF containers[r] = "starting" THEN "STARTING"
                ELSE "FAILED"

\* The state reconcile_runtime gives to rec.
NewState(rec) ==
  IF rec.state = "STOPPED" THEN "STOPPED"
  ELSE IF ~ rec.ref THEN "FAILED"
  ELSE Inspected(rec.id)

\* Mutant of Reconcile: it waits for the container to become ready.
ReconcileWaits(w) ==
  LET rec == [record[w] EXCEPT !.state = NewState(record[w])] IN
  /\ pc[w] = "reconcile"
  /\ rec.state # "STARTING"
  /\ Goto(w, "reconcile", "update")
  /\ record' = [record EXCEPT ![w] = rec]
  /\ UNCHANGED <<rows, containers, request, created, posts, boot, history>>

\* Nothing to write, or on to the write.
Reconcile(w) ==
  LET rec == [record[w] EXCEPT !.state = NewState(record[w])] IN
  /\ pc[w] = "reconcile"
  /\ IF rec = record[w]
     THEN Reconciled(w, "reconcile", rec)
     ELSE /\ Goto(w, "reconcile", "update")
          /\ record' = [record EXCEPT ![w] = rec]
          /\ UNCHANGED created
  /\ UNCHANGED <<rows, containers, request, posts, boot, history>>

UpdateReconciled(w) ==
  /\ pc[w] = "update"
  /\ Update(record[w])
  /\ Reconciled(w, "update", record[w])
  /\ UNCHANGED <<containers, request, posts, boot, history>>

\* The daemon does not answer, or the container vanishes between get and
\* reload.
InspectFails(w) ==
  /\ "docker" \in Faults
  /\ pc[w] = "reconcile"
  /\ record[w].ref /\ record[w].state # "STOPPED"
  /\ Raise(w, "reconcile")
  /\ UNCHANGED <<rows, containers, request, record, created, posts, boot,
                 history>>

-----------------------------------------------------------------------------
(* get_runtime, get_connection and terminate_runtime. *)

\* Clients address only runtimes they have been told of.
AcceptFor(w, op, r) ==
  /\ r \in known
  /\ Accept(w, op, rows[r].notebook, "read")
  /\ record' = [record EXCEPT ![w] = [NoRecord EXCEPT !.id = r]]
  /\ UNCHANGED <<rows, containers, created, posts, boot, history>>

AcceptById(w) == \E op \in Operations, r \in RuntimeIds : AcceptFor(w, op, r)

\* Mutant of Read: DELETE goes straight to the row.
ReadStops(w) ==
  LET rec == RecordOf(record[w].id) IN
  /\ pc[w] = "read"
  /\ record' = [record EXCEPT ![w] = rec]
  /\ Goto(w, "read", IF request[w].op # "delete" THEN "reconcile" ELSE "stop")
  /\ UNCHANGED <<rows, containers, request, created, posts, boot, history>>

Read(w) ==
  LET rec == RecordOf(record[w].id) IN
  /\ pc[w] = "read"
  /\ record' = [record EXCEPT ![w] = rec]
  /\ Goto(w, "read", IF request[w].op # "delete" THEN "reconcile"
                     ELSE IF rec.ref THEN "terminate" ELSE "stop")
  /\ UNCHANGED <<rows, containers, request, created, posts, boot, history>>

\* provider.terminate: force removal, not found is success.
Terminate(w) ==
  /\ Goto(w, "terminate", "stop")
  /\ containers' = [containers EXCEPT ![record[w].id] = "removed"]
  /\ UNCHANGED <<rows, request, record, created, posts, boot, history>>

TerminateFails(w) ==
  /\ "docker" \in Faults
  /\ Goto(w, "terminate", "error")
  /\ UNCHANGED <<rows, containers, request, record, created, posts, boot,
                 history>>

Stop(w) ==
  /\ Goto(w, "stop", "answer")
  /\ record' = [record EXCEPT ![w].state = "STOPPED"]
  /\ Update(record'[w])
  /\ UNCHANGED <<containers, request, created, posts, boot, history>>

\* get_endpoint raises when the container or its published port is gone.
Endpoint(w) ==
  /\ Goto(w, "endpoint", IF containers[record[w].id] \in Running
                         THEN "answer" ELSE "error")
  /\ UNCHANGED <<rows, containers, request, record, created, posts, boot,
                 history>>

\* The response is sent, and received or lost.
Answer(w) ==
  /\ \/ /\ Goto(w, "answer", "idle")
        /\ \/ known' = known \union {record[w].id}
           \/ known' = known
        /\ stopped' = IF request[w].op = "delete"
                      THEN stopped \union {record[w].id} ELSE stopped
     \/ /\ Goto(w, "error", "idle")
        /\ UNCHANGED history
  /\ request' = [request EXCEPT ![w] = NoRequest]
  /\ record' = [record EXCEPT ![w] = NoRecord]
  /\ UNCHANGED <<rows, containers, created, posts, boot>>

-----------------------------------------------------------------------------
(* The environment and the life of the process. *)

\* A repository call raises: the database is locked, or the disk is full.  Its
\* transaction has no effect; what the thread has put into its copy stays.
DatabaseFails(w) ==
  /\ "database" \in Faults
  /\ \/ /\ \E from \in {"find", "insert", "provision", "fail", "read", "stop"} :
             Goto(w, from, "error")
        /\ UNCHANGED record
     \/ /\ Goto(w, "start", "fail")
        /\ record' = [record EXCEPT ![w].state = "STARTING", ![w].ref = TRUE]
     \/ /\ Raise(w, "update")
        /\ UNCHANGED record
  /\ UNCHANGED <<rows, containers, request, created, posts, boot, history>>

ContainerBecomes(from, to) ==
  /\ \E r \in RuntimeIds :
       /\ containers[r] \in from
       /\ containers' = [containers EXCEPT ![r] = to]
  /\ UNCHANGED <<rows, threads, created, posts, boot, history>>

\* The health check of the image passes, fails again, or the container exits.
Healthy == ContainerBecomes({"starting"}, "healthy")
Unhealthy == ContainerBecomes({"healthy"}, "starting")
Exits == ContainerBecomes(Running, "exited")

\* The process dies and starts again: rows and containers stay, and
\* reconcile_all reads the rows that are not STOPPED before any request.
Crash ==
  /\ "crash" \in Faults
  /\ pc' = [w \in Workers |-> "idle"]
  /\ request' = [w \in Workers |-> NoRequest]
  /\ record' = [w \in Workers |-> NoRecord]
  /\ boot' = {r \in RuntimeIds : Exists(r) /\ rows[r].state # "STOPPED"}
  /\ UNCHANGED <<rows, containers, created, posts, history>>

\* One round of reconcile_all, oldest first.  FAILED rows are included.
ReconcileAtStartup ==
  \E r \in boot :
    /\ \A other \in boot : r <= other
    /\ boot' = boot \ {r}
    /\ rows' = [rows EXCEPT ![r].state = NewState(RecordOf(r))]
    /\ UNCHANGED <<containers, threads, created, posts, history>>

Step(w) ==
  \/ FindActive(w) \/ Insert(w) \/ Provision(w) \/ RunContainer(w)
  \/ RunContainerFails(w) \/ Start(w) \/ Fail(w)
  \/ Reconcile(w) \/ UpdateReconciled(w) \/ InspectFails(w)
  \/ Read(w) \/ Terminate(w) \/ TerminateFails(w) \/ Stop(w) \/ Endpoint(w)
  \/ DatabaseFails(w) \/ Answer(w)

Next ==
  \/ \E w \in Workers : AcceptPost(w) \/ AcceptById(w) \/ Step(w)
  \/ Healthy \/ Unhealthy \/ Exits
  \/ Crash \/ ReconcileAtStartup

Spec == Init /\ [][Next]_vars

\* Threads and startup run on; a client polls every runtime it knows of, as
\* the portal does while it waits and the gateway with every connection.
Fairness ==
  /\ \A w \in Workers : WF_vars(Step(w))
  /\ WF_vars(ReconcileAtStartup)
  /\ \A r \in RuntimeIds : SF_vars(\E w \in Workers : AcceptFor(w, "get", r))

FairSpec == Spec /\ Fairness

-----------------------------------------------------------------------------
(* Properties. *)

\* Rows, containers and threads have the shape of what they stand for, and
\* startup and clients only ever speak of runtimes that have a row.
TypeOK ==
  /\ rows \in [RuntimeIds -> [notebook : Notebooks \union {None},
                              state : States \union {"absent"}, ref : BOOLEAN]]
  /\ containers \in [RuntimeIds -> {"absent", "starting", "healthy", "exited",
                                    "removed"}]
  /\ pc \in [Workers -> {"idle", "find", "insert", "provision", "run", "start",
                         "fail", "reconcile", "update", "read", "terminate",
                         "stop", "endpoint", "answer", "error"}]
  /\ request \in [Workers -> [op : {"none", "create", "existing", "get",
                                    "delete", "connection"},
                              notebook : Notebooks \union {None}]]
  /\ record \in [Workers -> [id : 0 .. MaxRuntimes,
                             state : States \union {"absent"}, ref : BOOLEAN]]
  /\ created \in 0 .. posts /\ posts \in 0 .. MaxRuntimes
  /\ boot \subseteq {r \in RuntimeIds : Exists(r)}
  /\ known \subseteq {r \in RuntimeIds : Exists(r)}
  /\ stopped \subseteq known

\* A row that says STARTING or READY names its container, whoever wrote it and
\* however stale the copy was: get_connection never meets READY without one.
ReadyHasContainer ==
  \A r \in RuntimeIds :
    rows[r].state \in {"STARTING", "READY"} =>
      rows[r].ref /\ containers[r] # "absent"

\* A STOPPED row that names a container is the last word on it: the container
\* is gone, although late writers of other threads may change rows at any time.
StoppedIsGone ==
  \A r \in RuntimeIds :
    rows[r].state = "STOPPED" /\ rows[r].ref => containers[r] = "removed"

\* A running container has an active row that names it, unless the request
\* that runs it is under way: nothing runs that no DELETE can reach.
NoStrayContainer ==
  \A r \in RuntimeIds :
    containers[r] \in Running =>
      \/ Active(r) /\ rows[r].ref
      \/ \E w \in Workers : pc[w] # "idle" /\ record[w].id = r

\* A runtime whose DELETE has succeeded does not run ("Runtime destroyed").
StopDestroys == \A r \in stopped : containers[r] \notin Running

\* With requests one at a time the service implements the pool of runtimes that
\* the portal's session builds on, whatever containers die and whoever stops
\* them: a POST for a notebook whose container runs starts no second one.
Pool == INSTANCE RuntimePool WITH
  Runtimes <- RuntimeIds,
  phase <- [r \in RuntimeIds |-> IF containers[r] \in {"exited", "removed"}
                                 THEN "gone" ELSE containers[r]],
  owner <- [r \in RuntimeIds |-> IF containers[r] = "absent"
                                 THEN None ELSE rows[r].notebook]

PoolImplemented == Pool!PoolSpec

\* The death of a container is noticed for good: polled, its runtime ends up
\* FAILED or STOPPED, and no stale copy makes it active again for ever.
DeathIsNoticed ==
  \A r \in RuntimeIds :
    (r \in known /\ containers[r] \in {"exited", "removed"})
      ~> [](~ Active(r))

\* Every request is answered.
RequestsEnd == \A w \in Workers : (pc[w] # "idle") ~> (pc[w] = "idle")
=============================================================================
