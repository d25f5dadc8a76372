----------------------- MODULE RuntimeService_proofs -----------------------
(***************************************************************************)
(* What stale copies cannot break in the Runtime Service, for any number   *)
(* of threads, notebooks and runtimes, with crashes and with failures of   *)
(* Docker and of the database.                                             *)
(*                                                                         *)
(* The rows and the copies the threads hold obey the same rules            *)
(* (RecordOK), so it does not matter whose copy update() writes and when.  *)
(* What a runtime's container was, it stays in the sense that counts: once *)
(* there it is never unknown to Docker again, once removed it stays        *)
(* removed (Grows).  The one thread that could break this, the one that    *)
(* creates the container, has its id for itself (IdsApart).                *)
(***************************************************************************)
EXTENDS RuntimeService, FiniteSets, FiniteSetTheorems, TLAPS

USE RuntimeAssumption

\* A row, or a copy of one, that names a container speaks of one that has been
\* created, and of a removed one when it is STOPPED.
RecordOK(id, state, ref) ==
  /\ ref => id \in RuntimeIds /\ containers[id] # "absent"
  /\ state \in {"STARTING", "READY"} => ref
  /\ state = "STOPPED" /\ ref => containers[id] = "removed"

RowOK(r) ==
  /\ Exists(r) => r <= created
  /\ r > created => containers[r] = "absent"
  /\ RecordOK(r, rows[r].state, rows[r].ref)

RowsOK == \A r \in RuntimeIds : RowOK(r)

\* The thread that creates a runtime, before its container exists.
Creating(w) == pc[w] \in {"insert", "provision", "run"}

HasRow == {"provision", "run", "start", "fail", "reconcile", "update", "read",
           "terminate", "stop", "endpoint", "answer"}

\* What a thread knows at each step.
ThreadOK(w) ==
  /\ record[w].id <= created
  /\ RecordOK(record[w].id, record[w].state, record[w].ref)
  /\ Creating(w) => /\ record[w].id \in RuntimeIds
                    /\ containers[record[w].id] = "absent"
  /\ pc[w] = "start" => containers[record[w].id] # "absent"
  /\ pc[w] = "stop" /\ record[w].ref => containers[record[w].id] = "removed"
  /\ pc[w] = "terminate" => record[w].ref
  /\ pc[w] = "update" => record[w].state # "absent"
  /\ pc[w] \in HasRow => record[w].id \in RuntimeIds /\ Exists(record[w].id)
  /\ pc[w] \in {"provision", "run", "start"} => request[w].op = "create"
  /\ pc[w] = "find" => request[w].op = "create"
  /\ pc[w] = "read" => request[w].op \in {"get", "delete", "connection"}
  /\ request[w].op \in {"get", "delete", "connection"} => record[w].id \in known

ThreadsOK == \A w \in Workers : ThreadOK(w)

IdsApart ==
  \A u, w \in Workers :
    u # w /\ Creating(u) /\ Creating(w) => record[u].id # record[w].id

\* POST requests that have still to decide whether they create a runtime.
Undecided ==
  {w \in Workers : \/ pc[w] = "find"
                   \/ pc[w] \in {"reconcile", "update"}
                      /\ request[w].op = "existing"}

\* No request creates more than one runtime.
CountOK == IsFiniteSet(Undecided) /\ created + Cardinality(Undecided) <= posts

\* The inductive invariant.
IInv == TypeOK /\ RowsOK /\ ThreadsOK /\ IdsApart /\ CountOK

-----------------------------------------------------------------------------
(* A step that leaves the other threads alone. *)

\* What only grows: ids, rows, runtimes made known, and containers.
Grows ==
  /\ created <= created' /\ known \subseteq known'
  /\ \A r \in RuntimeIds :
       /\ Exists(r) => Exists(r)'
       /\ containers[r] # "absent" => containers'[r] # "absent"
       /\ containers[r] = "removed" => containers'[r] = "removed"

\* The others do not see this step of w.
OthersKeep(w) ==
  \A u \in Workers \ {w} : /\ pc'[u] = pc[u]
                            /\ request'[u] = request[u]
                            /\ record'[u] = record[u]

\* A container appears only by the thread that creates it.
OnlyCreates(w) ==
  \A r \in RuntimeIds :
    containers[r] = "absent" /\ containers'[r] # "absent" =>
      Creating(w) /\ record[w].id = r

\* A thread that creates has the id it had, or a fresh one.
KeepsId(w) ==
  Creating(w)' => \/ Creating(w) /\ record'[w].id = record[w].id
                  \/ record'[w].id = created + 1

\* No id is given out, or a request decides to create its one runtime.
Decides(w) ==
  \/ created' = created /\ (w \in Undecided' => w \in Undecided)
  \/ created' = created + 1 /\ w \in Undecided /\ w \notin Undecided'

Moves(w) == /\ Grows /\ OthersKeep(w) /\ OnlyCreates(w)
            /\ KeepsId(w) /\ Decides(w) /\ posts' = posts

\* A thread that is left alone still knows what it knew, unless somebody else
\* creates the container it is about to create.
LEMMA ThreadKept ==
  ASSUME TypeOK, TypeOK', NEW u \in Workers, ThreadOK(u), Grows,
         pc'[u] = pc[u], request'[u] = request[u], record'[u] = record[u],
         Creating(u) => containers'[record[u].id] = "absent"
  PROVE  ThreadOK(u)'
BY DEF TypeOK, ThreadOK, RecordOK, Grows, Creating, HasRow, Exists

\* A request that decides makes room for the id it takes.
LEMMA CountKept ==
  ASSUME TypeOK, TypeOK', CountOK, NEW w \in Workers, OthersKeep(w), Decides(w),
         posts' = posts
  PROVE  CountOK'
<1>1. CASE created' = created /\ (w \in Undecided' => w \in Undecided)
  <2>1. Undecided' \subseteq Undecided
    BY <1>1 DEF OthersKeep, Undecided
  <2>2. /\ IsFiniteSet(Undecided') /\ Cardinality(Undecided') \in Nat
        /\ Cardinality(Undecided) \in Nat
        /\ Cardinality(Undecided') <= Cardinality(Undecided)
    BY <2>1, FS_Subset, FS_CardinalityType DEF CountOK
  <2>. QED BY <1>1, <2>2 DEF CountOK, TypeOK
<1>2. CASE created' = created + 1 /\ w \in Undecided /\ w \notin Undecided'
  <2>1. Undecided' \subseteq Undecided \ {w}
    BY <1>2 DEF OthersKeep, Undecided
  <2>2. /\ IsFiniteSet(Undecided \ {w})
        /\ Cardinality(Undecided \ {w}) = Cardinality(Undecided) - 1
        /\ Cardinality(Undecided) \in Nat
    BY <1>2, FS_RemoveElement, FS_CardinalityType DEF CountOK
  <2>3. /\ IsFiniteSet(Undecided') /\ Cardinality(Undecided') \in Nat
        /\ Cardinality(Undecided') <= Cardinality(Undecided \ {w})
    BY <2>1, <2>2, FS_Subset, FS_CardinalityType
  <2>. QED BY <1>2, <2>2, <2>3 DEF CountOK, TypeOK
<1>. QED BY <1>1, <1>2 DEF Decides

\* A step of w that moves keeps the invariant if rows and w itself keep theirs.
LEMMA StepKeeps ==
  ASSUME IInv, NEW w \in Workers, TypeOK', RowsOK', ThreadOK(w)', Moves(w)
  PROVE  IInv'
<1>. USE DEF IInv, Moves
<1>1. ThreadsOK'
  <2>. SUFFICES ASSUME NEW u \in Workers, u # w PROVE ThreadOK(u)'
    BY DEF ThreadsOK
  <2>1. Creating(u) => containers'[record[u].id] = "absent"
    BY DEF OnlyCreates, IdsApart, ThreadsOK, ThreadOK
  <2>. QED BY <2>1, ThreadKept DEF ThreadsOK, OthersKeep
<1>2. IdsApart'
  <2>. SUFFICES ASSUME NEW u \in Workers, u # w, Creating(u)', Creating(w)'
                PROVE  record'[u].id # record'[w].id
    BY DEF IdsApart, OthersKeep, Creating
  <2>1. Creating(u) /\ record'[u].id = record[u].id
    BY DEF OthersKeep, Creating
  <2>2. record[u].id \in Nat /\ created \in Nat /\ record[u].id <= created
    BY DEF TypeOK, ThreadsOK, ThreadOK
  <2>. QED BY <2>1, <2>2 DEF KeepsId, IdsApart
<1>3. CountOK'
  BY CountKept
<1>. QED BY <1>1, <1>2, <1>3

-----------------------------------------------------------------------------
(* Assignments to fields, as whole records. *)

\* request[w].op = op, the notebook stays.
LEMMA OpSet ==
  ASSUME TypeOK, NEW w \in Workers, NEW op,
         request' = [request EXCEPT ![w].op = op]
  PROVE  request' = [request EXCEPT
                       ![w] = [op |-> op, notebook |-> request[w].notebook]]
<1>1. request[w] = [op |-> request[w].op, notebook |-> request[w].notebook]
  BY DEF TypeOK
<1>2. [request[w] EXCEPT !.op = op]
        = [op |-> op, notebook |-> request[w].notebook]
  BY <1>1
<1>. QED BY <1>2, Zenon

\* record[w].state = state, id and provider_ref stay.
LEMMA StateSet ==
  ASSUME TypeOK, NEW w \in Workers, NEW state,
         record' = [record EXCEPT ![w].state = state]
  PROVE  record' = [record EXCEPT
                      ![w] = [id |-> record[w].id, state |-> state,
                              ref |-> record[w].ref]]
<1>1. record[w] = [id |-> record[w].id, state |-> record[w].state,
                   ref |-> record[w].ref]
  BY DEF TypeOK
<1>2. [record[w] EXCEPT !.state = state]
        = [id |-> record[w].id, state |-> state, ref |-> record[w].ref]
  BY <1>1
<1>. QED BY <1>2, Zenon

\* What create_runtime notes of a container it has run.
LEMMA StartSet ==
  ASSUME TypeOK, NEW w \in Workers,
         record' = [record EXCEPT ![w].state = "STARTING", ![w].ref = TRUE]
  PROVE  record' = [record EXCEPT
                      ![w] = [id |-> record[w].id, state |-> "STARTING", ref |-> TRUE]]
<1>. DEFINE rec == [id |-> record[w].id, state |-> "STARTING", ref |-> TRUE]
            mid == [record EXCEPT ![w].state = "STARTING"]
<1>1. record[w] = [id |-> record[w].id, state |-> record[w].state,
                   ref |-> record[w].ref]
  BY DEF TypeOK
<1>2. [record[w] EXCEPT !.state = "STARTING"]
        = [id |-> record[w].id, state |-> "STARTING", ref |-> record[w].ref]
  BY <1>1
<1>3. mid = [record EXCEPT ![w] = [id |-> record[w].id, state |-> "STARTING",
                                   ref |-> record[w].ref]]
  BY <1>2, Zenon
<1>4. mid[w] = [id |-> record[w].id, state |-> "STARTING", ref |-> record[w].ref]
  BY <1>3 DEF TypeOK
<1>5. [mid[w] EXCEPT !.ref = TRUE] = rec
  <2>1. \A ref : [mid[w] EXCEPT !.ref = ref]
                   = [id |-> record[w].id, state |-> "STARTING", ref |-> ref]
    BY <1>4
  <2>. QED BY <2>1, Zenon
<1>6. record' = [mid EXCEPT ![w].ref = TRUE]
  BY Zenon
<1>7. record' = [mid EXCEPT ![w] = rec]
  BY <1>5, <1>6, Zenon
<1>. QED BY <1>3, <1>7 DEF TypeOK

\* UPDATE of a row: its notebook stays.
LEMMA RowUpdated ==
  ASSUME TypeOK, NEW rec, rec.id \in RuntimeIds, Update(rec)
  PROVE  rows' = [rows EXCEPT
                    ![rec.id] = [notebook |-> rows[rec.id].notebook,
                                 state |-> rec.state, ref |-> rec.ref]]
<1>1. rows[rec.id] = [notebook |-> rows[rec.id].notebook,
                      state |-> rows[rec.id].state, ref |-> rows[rec.id].ref]
  BY DEF TypeOK
<1>. DEFINE id == rec.id
            mid == [rows EXCEPT ![id].state = rec.state]
<1>2. [rows[id] EXCEPT !.state = rec.state]
        = [notebook |-> rows[id].notebook, state |-> rec.state, ref |-> rows[id].ref]
  BY <1>1
<1>3. mid = [rows EXCEPT ![id] = [notebook |-> rows[id].notebook,
                                  state |-> rec.state, ref |-> rows[id].ref]]
  BY <1>2, Zenon
<1>4. mid[id] = [notebook |-> rows[id].notebook, state |-> rec.state,
                 ref |-> rows[id].ref]
  BY <1>3 DEF TypeOK
<1>5. [mid[id] EXCEPT !.ref = rec.ref]
        = [notebook |-> rows[id].notebook, state |-> rec.state, ref |-> rec.ref]
  BY <1>4
<1>6. rows' = [mid EXCEPT ![id].ref = rec.ref]
  BY Zenon DEF Update
<1>7. rows' = [mid EXCEPT ![id] = [notebook |-> rows[id].notebook,
                                   state |-> rec.state, ref |-> rec.ref]]
  BY <1>5, <1>6, Zenon
<1>. QED BY <1>3, <1>7 DEF TypeOK

-----------------------------------------------------------------------------
(* create_runtime, one action after the other. *)

\* What inspecting a record does to its state keeps it within the rules.
LEMMA NewStateFacts ==
  ASSUME TypeOK, NEW rec \in [id : Nat, state : States \union {"absent"},
                              ref : BOOLEAN],
         RecordOK(rec.id, rec.state, rec.ref)
  PROVE  /\ NewState(rec) \in {"STOPPED", "FAILED", "STARTING", "READY"}
         /\ RecordOK(rec.id, NewState(rec), rec.ref)
BY DEF TypeOK, RecordOK, NewState, Inspected, States, ActiveStates

\* A request that has still to decide finds an id left for its runtime, which
\* nothing has been done to.
LEMMA IdLeft ==
  ASSUME IInv, NEW w \in Undecided
  PROVE  /\ created + 1 \in RuntimeIds /\ created + 1 <= posts
         /\ containers[created + 1] = "absent"
<1>1. Cardinality(Undecided) \in Nat /\ Cardinality(Undecided) # 0
  BY FS_CardinalityType, FS_EmptySet DEF IInv, CountOK
<1>2. created + 1 \in RuntimeIds /\ created + 1 <= posts
  BY <1>1 DEF IInv, CountOK, TypeOK, RuntimeIds
<1>. QED BY <1>2 DEF IInv, RowsOK, RowOK, TypeOK

\* A new RuntimeRecord is this request's alone.
LEMMA NewRecordKeeps ==
  ASSUME IInv, NEW w \in Workers, NEW from \in {"find", "reconcile", "update"},
         w \in Undecided, NewRecord(w, from), request[w].op \in {"create", "existing"},
         rows' \in [RuntimeIds -> [notebook : Notebooks \union {None},
                              state : States \union {"absent"}, ref : BOOLEAN]],
         \A r \in RuntimeIds : Exists(r) => Exists(r)', RowsOK,
         \A r \in RuntimeIds : Exists(r)' => r <= created,
         \A r \in RuntimeIds : RecordOK(r, rows'[r].state, rows'[r].ref),
         UNCHANGED <<containers, request, posts, boot, history>>
  PROVE  IInv'
<1>. USE DEF IInv
<1>1. /\ created + 1 \in RuntimeIds /\ created + 1 <= posts
      /\ containers[created + 1] = "absent"
  BY IdLeft
<1>2. TypeOK'
  BY <1>1 DEF TypeOK, NewRecord, Goto, RuntimeIds, States, ActiveStates, Exists, history
<1>3. RowsOK'
  BY <1>1 DEF RowsOK, RowOK, RecordOK, NewRecord, TypeOK, RuntimeIds
<1>4. ThreadOK(w)'
  BY <1>1 DEF ThreadOK, RecordOK, NewRecord, Goto, TypeOK, Creating, HasRow, history
<1>5. Moves(w)
  BY <1>1 DEF Moves, Grows, OthersKeep, OnlyCreates, KeepsId, Decides, Undecided,
              NewRecord, Goto, TypeOK, Creating, history
<1>. QED BY <1>2, <1>3, <1>4, <1>5, StepKeeps

\* FindActive.
LEMMA FindActiveKeeps ==
  ASSUME IInv, NEW w \in Workers, FindActive(w)
  PROVE  IInv'
<1>. USE DEF IInv
<1>1. CASE NewRecord(w, "find") /\ UNCHANGED request
  <2>1. w \in Undecided
    BY DEF FindActive, Undecided
  <2>2. request[w].op \in {"create", "existing"}
    BY DEF ThreadsOK, ThreadOK, FindActive
  <2>. QED BY <1>1, <2>1, <2>2, NewRecordKeeps
           DEF FindActive, TypeOK, RowsOK, RowOK, Exists, RecordOK
<1>2. ASSUME NEW r \in RuntimeIds, Active(r),
             record' = [record EXCEPT ![w] = RecordOf(r)],
             request' = [request EXCEPT ![w].op = "existing"],
             Goto(w, "find", "reconcile"), UNCHANGED created
      PROVE  IInv'
  <2>. USE DEF Goto
  <2>0. /\ request' = [request EXCEPT
                         ![w] = [op |-> "existing", notebook |-> request[w].notebook]]
        /\ pc[w] = "find" /\ UNCHANGED <<rows, containers, posts, boot, history>>
    BY <1>2, OpSet DEF FindActive
  <2>1. TypeOK'
    <3>1. RecordOf(r) \in [id : 0 .. MaxRuntimes,
                           state : States \union {"absent"}, ref : BOOLEAN]
      BY DEF TypeOK, RecordOf, RuntimeIds
    <3>. QED BY <1>2, <2>0, <3>1 DEF TypeOK, Exists, history
  <2>2. RowsOK'
    BY <1>2, <2>0 DEF RowsOK, RowOK, RecordOK, Exists
  <2>3. ThreadOK(w)'
    BY <1>2, <2>0
       DEF ThreadOK, RecordOK, RowsOK, RowOK, Goto, TypeOK, Creating, HasRow, history,
                Active, ActiveStates, Exists, RecordOf
  <2>4. Moves(w)
    BY <1>2, <2>0 DEF Moves, Grows, OthersKeep, OnlyCreates, KeepsId, Decides, Undecided,
                Goto, TypeOK, Creating, history, Exists
  <2>. QED BY <2>1, <2>2, <2>3, <2>4, StepKeeps
<1>. QED BY <1>1, <1>2 DEF FindActive

\* Whose copy update() writes does not matter: every copy obeys the rules.
LEMMA UpdateKeepsRows ==
  ASSUME IInv, NEW rec \in [id : RuntimeIds, state : States, ref : BOOLEAN],
         Exists(rec.id), RecordOK(rec.id, rec.state, rec.ref), Update(rec),
         containers' = containers
  PROVE  /\ rows' \in [RuntimeIds -> [notebook : Notebooks \union {None},
                              state : States \union {"absent"}, ref : BOOLEAN]]
         /\ \A r \in RuntimeIds : Exists(r)' = Exists(r)
         /\ \A r \in RuntimeIds : RecordOK(r, rows'[r].state, rows'[r].ref)
         /\ created' = created => RowsOK'
<1>. USE DEF IInv
<1>1. rows' = [rows EXCEPT ![rec.id] = [notebook |-> rows[rec.id].notebook,
                                        state |-> rec.state, ref |-> rec.ref]]
  BY RowUpdated
<1>2. rows' \in [RuntimeIds -> [notebook : Notebooks \union {None},
                              state : States \union {"absent"}, ref : BOOLEAN]]
  BY <1>1 DEF TypeOK
<1>3. \A r \in RuntimeIds : Exists(r)' = Exists(r)
  BY <1>1 DEF Exists, TypeOK, States, ActiveStates
<1>4. \A r \in RuntimeIds : RecordOK(r, rows'[r].state, rows'[r].ref)
  BY <1>1 DEF RowsOK, RowOK, TypeOK
<1>5. ASSUME created' = created PROVE RowsOK'
  BY <1>3, <1>4, <1>5 DEF RowsOK, RowOK, RecordOK, TypeOK
<1>. QED BY <1>2, <1>3, <1>4, <1>5

\* Insert.
LEMMA InsertKeeps ==
  ASSUME IInv, NEW w \in Workers, Insert(w)
  PROVE  IInv'
<1>. USE DEF IInv
<1>. DEFINE id == record[w].id
<1>1. /\ request' = [request EXCEPT
                       ![w] = [op |-> "create", notebook |-> request[w].notebook]]
      /\ pc[w] = "insert" /\ pc' = [pc EXCEPT ![w] = "provision"]
      /\ rows' = [rows EXCEPT ![id] = [notebook |-> request[w].notebook,
                                       state |-> "REQUESTED", ref |-> FALSE]]
      /\ UNCHANGED <<containers, record, created, posts, boot, known, stopped>>
  BY OpSet DEF Insert, Goto, history
<1>2. /\ id \in RuntimeIds /\ id <= created /\ containers[id] = "absent"
      /\ Creating(w)
  BY <1>1 DEF ThreadsOK, ThreadOK, Creating
<1>3. TypeOK'
  BY <1>1, <1>2 DEF TypeOK, States, ActiveStates, Exists
<1>4. RowsOK'
  BY <1>1, <1>2 DEF RowsOK, RowOK, RecordOK, TypeOK, Exists
<1>5. ThreadOK(w)'
  BY <1>1, <1>2 DEF ThreadsOK, ThreadOK, RecordOK, TypeOK, Creating, HasRow, Exists
<1>6. Moves(w)
  BY <1>1, <1>2 DEF Moves, Grows, OthersKeep, OnlyCreates, KeepsId, Decides, Undecided,
                    TypeOK, Creating, Exists
<1>. QED BY <1>3, <1>4, <1>5, <1>6, StepKeeps

\* A step that writes the thread's own record with a new state and goes on.
LEMMA WriteKeeps ==
  ASSUME IInv, NEW w \in Workers,
         NEW rec \in [id : RuntimeIds, state : States, ref : BOOLEAN],
         rec.id = record[w].id, RecordOK(rec.id, rec.state, rec.ref), Exists(rec.id),
         record' = [record EXCEPT ![w] = rec], Update(rec),
         NEW from, NEW to, Goto(w, from, to), 
         <<from, to>> \in {<<"provision", "run">>, <<"start", "reconcile">>,
                           <<"fail", "error">>, <<"stop", "answer">>},
         UNCHANGED <<containers, request, created, posts, boot, history>>
  PROVE  IInv'
<1>. USE DEF IInv
<1>1. /\ rows' \in [RuntimeIds -> [notebook : Notebooks \union {None},
                              state : States \union {"absent"}, ref : BOOLEAN]]
      /\ \A r \in RuntimeIds : Exists(r)' = Exists(r)
      /\ RowsOK'
  BY UpdateKeepsRows
<1>2. /\ pc[w] = from /\ pc' = [pc EXCEPT ![w] = to]
      /\ from \in {"provision", "start", "fail", "stop"}
      /\ to \in {"run", "reconcile", "error", "answer"}
      /\ from = "provision" <=> to = "run"
      /\ from = "start" <=> to = "reconcile"
  BY DEF Goto
<1>3. TypeOK'
  BY <1>1, <1>2 DEF TypeOK, RuntimeIds, history
<1>4. ThreadOK(w)'
  BY <1>1, <1>2 DEF ThreadsOK, ThreadOK, RecordOK, TypeOK, Creating, HasRow, history
<1>5. Moves(w)
  <2>1. w \in Undecided' => w \in Undecided
    BY <1>2 DEF ThreadsOK, ThreadOK, Undecided, TypeOK
  <2>. QED
    BY <1>1, <1>2, <2>1 DEF Moves, Grows, OthersKeep, OnlyCreates, KeepsId, Decides,
                            TypeOK, Creating, history
<1>. QED BY <1>1, <1>3, <1>4, <1>5, StepKeeps

\* Provision, Fail and Stop give the record a new state.
LEMMA StateWriteKeeps ==
  ASSUME IInv, NEW w \in Workers, Provision(w) \/ Fail(w) \/ Stop(w)
  PROVE  IInv'
<1>. USE DEF IInv
<1>0. /\ record[w].id \in RuntimeIds /\ Exists(record[w].id)
      /\ RecordOK(record[w].id, record[w].state, record[w].ref)
      /\ pc[w] = "provision" => ~ record[w].ref
      /\ pc[w] = "stop" /\ record[w].ref => containers[record[w].id] = "removed"
      /\ record[w].ref \in BOOLEAN
  BY DEF Provision, Fail, Stop, Goto, ThreadsOK, ThreadOK, HasRow, RecordOK, Creating,
         TypeOK
<1>1. ASSUME NEW from, NEW to, NEW state \in States, Goto(w, from, to), 
             <<from, to, state>> \in {<<"provision", "run", "PROVISIONING">>,
                                      <<"fail", "error", "FAILED">>,
                                      <<"stop", "answer", "STOPPED">>},
             record' = [record EXCEPT ![w].state = state], Update(record'[w]),
             UNCHANGED <<containers, request, created, posts, boot, history>>
      PROVE  IInv'
  <2>. DEFINE rec == [id |-> record[w].id, state |-> state, ref |-> record[w].ref]
  <2>1. record' = [record EXCEPT ![w] = rec]
    BY <1>1, StateSet
  <2>2. record'[w] = rec /\ Update(rec)
    BY <2>1, <1>1 DEF TypeOK
  <2>3. pc[w] = from
    BY <1>1 DEF Goto
  <2>4. RecordOK(rec.id, rec.state, rec.ref)
    BY <1>0, <1>1, <2>3 DEF RecordOK
  <2>5. rec \in [id : RuntimeIds, state : States, ref : BOOLEAN]
    BY <1>0
  <2>6. <<from, to>> \in {<<"provision", "run">>, <<"start", "reconcile">>,
                          <<"fail", "error">>, <<"stop", "answer">>}
    BY <1>1
  <2>. HIDE DEF rec
  <2>7. rec.id = record[w].id /\ Exists(rec.id)
    BY <1>0 DEF rec
  <2>. QED BY <1>1, <2>1, <2>2, <2>4, <2>5, <2>6, <2>7, WriteKeeps
<1>. QED BY <1>1 DEF Provision, Fail, Stop, States, ActiveStates

\* Start records the container of the runtime.
LEMMA StartKeeps ==
  ASSUME IInv, NEW w \in Workers, Start(w)
  PROVE  IInv'
<1>. USE DEF IInv
<1>. DEFINE rec == [id |-> record[w].id, state |-> "STARTING", ref |-> TRUE]
<1>0. /\ record[w].id \in RuntimeIds /\ Exists(record[w].id)
      /\ containers[record[w].id] # "absent"
  BY DEF Start, Goto, ThreadsOK, ThreadOK, HasRow
<1>1. record' = [record EXCEPT ![w] = rec]
  BY StartSet DEF Start
<1>2. record'[w] = rec
  BY <1>1 DEF TypeOK
<1>3. /\ Update(rec) /\ Goto(w, "start", "reconcile")
      /\ UNCHANGED <<containers, request, created, posts, boot, history>>
  BY <1>2 DEF Start
<1>4. rec \in [id : RuntimeIds, state : States, ref : BOOLEAN]
  BY <1>0 DEF States, ActiveStates
<1>5. RecordOK(rec.id, rec.state, rec.ref) /\ Exists(rec.id) /\ rec.id = record[w].id
  BY <1>0 DEF RecordOK
<1>. HIDE DEF rec
<1>. QED BY <1>1, <1>3, <1>4, <1>5, WriteKeeps

\* RunContainer and RunContainerFails.
LEMMA RunContainerKeeps ==
  ASSUME IInv, NEW w \in Workers, RunContainer(w) \/ RunContainerFails(w)
  PROVE  IInv'
<1>. USE DEF IInv
<1>. DEFINE id == record[w].id
<1>1. PICK c \in {"starting", "absent", "exited"} :
        containers' = [containers EXCEPT ![id] = c]
  BY DEF RunContainer, RunContainerFails
<1>2. /\ pc[w] = "run"
      /\ \/ pc' = [pc EXCEPT ![w] = "start"] /\ c # "absent"
         \/ pc' = [pc EXCEPT ![w] = "fail"]
      /\ UNCHANGED <<rows, request, record, created, posts, boot, known, stopped>>
  <2>1. pc[w] = "run" /\ request[w].op = "create"
    BY DEF RunContainer, RunContainerFails, Goto, ThreadsOK, ThreadOK
  <2>2. id \in RuntimeIds
    BY <2>1 DEF ThreadsOK, ThreadOK, HasRow
  <2>3. CASE RunContainer(w)
    <3>1. containers' = [containers EXCEPT ![id] = "starting"]
      BY <2>3 DEF RunContainer
    <3>2. c = "starting"
      BY <3>1, <2>2, <1>1 DEF TypeOK
    <3>3. /\ pc' = [pc EXCEPT ![w] = "start"]
          /\ UNCHANGED <<rows, request, record, created, posts, boot, known, stopped>>
      BY <2>3 DEF RunContainer, Goto, history
    <3>. QED BY <2>1, <3>2, <3>3
  <2>4. CASE RunContainerFails(w)
    BY <2>1, <2>4 DEF RunContainerFails, Raise, Goto, history
  <2>. QED BY <2>3, <2>4
<1>3. /\ id \in RuntimeIds /\ id <= created /\ containers[id] = "absent"
      /\ Creating(w) /\ Exists(id) /\ request[w].op = "create"
  BY <1>2 DEF ThreadsOK, ThreadOK, Creating, HasRow
<1>4. TypeOK'
  BY <1>1, <1>2, <1>3 DEF TypeOK, Exists
<1>5. RowsOK'
  BY <1>1, <1>2, <1>3 DEF RowsOK, RowOK, RecordOK, TypeOK, Exists
<1>6. ThreadOK(w)'
  BY <1>1, <1>2, <1>3 DEF ThreadsOK, ThreadOK, RecordOK, TypeOK, Creating, HasRow, Exists
<1>7. Moves(w)
  BY <1>1, <1>2, <1>3 DEF Moves, Grows, OthersKeep, OnlyCreates, KeepsId, Decides,
                          Undecided, TypeOK, Creating, Exists
<1>. QED BY <1>4, <1>5, <1>6, <1>7, StepKeeps

-----------------------------------------------------------------------------
(* reconcile_runtime. *)

\* What follows reconcile_runtime, with or without a row written.
LEMMA ReconciledKeeps ==
  ASSUME IInv, NEW w \in Workers, NEW from \in {"reconcile", "update"},
         NEW rec \in [id : RuntimeIds, state : States \union {"absent"}, ref : BOOLEAN],
         rec.id = record[w].id, RecordOK(rec.id, rec.state, rec.ref), Exists(rec.id),
         Reconciled(w, from, rec), pc[w] = from,
         rows' \in [RuntimeIds -> [notebook : Notebooks \union {None},
                              state : States \union {"absent"}, ref : BOOLEAN]],
         \A r \in RuntimeIds : Exists(r)' = Exists(r),
         \A r \in RuntimeIds : RecordOK(r, rows'[r].state, rows'[r].ref),
         created' = created => RowsOK',
         UNCHANGED <<containers, request, posts, boot, history>>
  PROVE  IInv'
<1>. USE DEF IInv
<1>1. CASE request[w].op = "existing" /\ rec.state \notin ActiveStates
  <2>1. w \in Undecided /\ NewRecord(w, from)
    BY <1>1 DEF Undecided, Reconciled
  <2>2. \A r \in RuntimeIds : Exists(r)' => r <= created
    BY DEF RowsOK, RowOK
  <2>. QED BY <1>1, <2>1, <2>2, NewRecordKeeps
<1>2. CASE ~ (request[w].op = "existing" /\ rec.state \notin ActiveStates)
  <2>1. PICK to \in {"endpoint", "answer"} : pc' = [pc EXCEPT ![w] = to]
    BY <1>2 DEF Reconciled, Goto
  <2>2. record' = [record EXCEPT ![w] = rec] /\ created' = created /\ RowsOK'
    BY <1>2 DEF Reconciled
  <2>3. TypeOK'
    BY <2>1, <2>2 DEF TypeOK, RuntimeIds, history
  <2>4. ThreadOK(w)'
    BY <2>1, <2>2 DEF ThreadsOK, ThreadOK, RecordOK, TypeOK, Creating, HasRow, history
  <2>5. Moves(w)
    BY <2>1, <2>2 DEF Moves, Grows, OthersKeep, OnlyCreates, KeepsId, Decides, Undecided,
                      TypeOK, Creating, history
  <2>. QED BY <2>2, <2>3, <2>4, <2>5, StepKeeps
<1>. QED BY <1>1, <1>2

\* Reconcile.
LEMMA ReconcileKeeps ==
  ASSUME IInv, NEW w \in Workers, Reconcile(w)
  PROVE  IInv'
<1>. USE DEF IInv
<1>. DEFINE state == NewState(record[w])
            rec == [id |-> record[w].id, state |-> state, ref |-> record[w].ref]
<1>1. /\ pc[w] = "reconcile" /\ record[w].id \in RuntimeIds /\ Exists(record[w].id)
      /\ RecordOK(record[w].id, record[w].state, record[w].ref)
      /\ record[w] \in [id : Nat, state : States \union {"absent"}, ref : BOOLEAN]
      /\ record[w] = [id |-> record[w].id, state |-> record[w].state,
                      ref |-> record[w].ref]
  BY DEF Reconcile, ThreadsOK, ThreadOK, HasRow, TypeOK
<1>2. /\ state \in {"STOPPED", "FAILED", "STARTING", "READY"}
      /\ RecordOK(record[w].id, state, record[w].ref)
  BY <1>1, NewStateFacts
<1>. HIDE DEF state
<1>3. [record[w] EXCEPT !.state = state] = rec
  BY <1>1
<1>4. /\ rec.id = record[w].id /\ rec.state = state /\ rec.ref = record[w].ref
      /\ rec \in [id : RuntimeIds, state : States, ref : BOOLEAN]
  BY <1>1, <1>2 DEF States, ActiveStates
<1>5. /\ UNCHANGED <<rows, containers, request, posts, boot, history>>
      /\ \/ Reconciled(w, "reconcile", rec)
         \/ /\ pc' = [pc EXCEPT ![w] = "update"]
            /\ record' = [record EXCEPT ![w] = rec] /\ created' = created
  BY <1>3, Zenon DEF Reconcile, Goto, state
<1>. HIDE DEF rec
<1>6. CASE Reconciled(w, "reconcile", rec)
  <2>1. rec \in [id : RuntimeIds, state : States \union {"absent"}, ref : BOOLEAN]
    BY <1>4
  <2>2. \A r \in RuntimeIds : RecordOK(r, rows'[r].state, rows'[r].ref)
    BY <1>5 DEF RowsOK, RowOK
  <2>3. created' = created => RowsOK'
    BY <1>5 DEF RowsOK, RowOK, RecordOK, Exists
  <2>4. /\ rows' \in [RuntimeIds -> [notebook : Notebooks \union {None},
                              state : States \union {"absent"}, ref : BOOLEAN]]
        /\ \A r \in RuntimeIds : Exists(r)' = Exists(r)
    BY <1>5 DEF TypeOK, Exists
  <2>. QED BY <1>1, <1>2, <1>4, <1>5, <1>6, <2>1, <2>2, <2>3, <2>4, ReconciledKeeps
<1>7. CASE /\ pc' = [pc EXCEPT ![w] = "update"]
           /\ record' = [record EXCEPT ![w] = rec] /\ created' = created
  <2>1. TypeOK'
    BY <1>4, <1>5, <1>7 DEF TypeOK, RuntimeIds, history, Exists
  <2>2. RowsOK'
    BY <1>5, <1>7 DEF RowsOK, RowOK, RecordOK, Exists
  <2>3. ThreadOK(w)'
    BY <1>1, <1>2, <1>4, <1>5, <1>7
       DEF ThreadsOK, ThreadOK, RecordOK, TypeOK, Creating, HasRow, history, Exists
  <2>4. Moves(w)
    BY <1>1, <1>5, <1>7 DEF Moves, Grows, OthersKeep, OnlyCreates, KeepsId, Decides,
                            Undecided, TypeOK, Creating, history, Exists
  <2>. QED BY <2>1, <2>2, <2>3, <2>4, StepKeeps
<1>. QED BY <1>5, <1>6, <1>7

\* UpdateReconciled.
LEMMA UpdateReconciledKeeps ==
  ASSUME IInv, NEW w \in Workers, UpdateReconciled(w)
  PROVE  IInv'
<1>. USE DEF IInv
<1>. DEFINE rec == record[w]
<1>1. /\ rec \in [id : RuntimeIds, state : States, ref : BOOLEAN]
      /\ Exists(rec.id) /\ RecordOK(rec.id, rec.state, rec.ref)
  BY DEF UpdateReconciled, ThreadsOK, ThreadOK, HasRow, TypeOK
<1>2. /\ pc[w] = "update" /\ Update(rec) /\ Reconciled(w, "update", rec)
      /\ UNCHANGED <<containers, request, posts, boot, history>>
  BY DEF UpdateReconciled
<1>3. rec \in [id : RuntimeIds, state : States \union {"absent"}, ref : BOOLEAN]
  BY <1>1
<1>4. rec.id = record[w].id
  OBVIOUS
<1>. HIDE DEF rec
<1>. QED BY <1>1, <1>2, <1>3, <1>4, UpdateKeepsRows, ReconciledKeeps

\* InspectFails.
LEMMA InspectFailsKeeps ==
  ASSUME IInv, NEW w \in Workers, InspectFails(w)
  PROVE  IInv'
<1>. USE DEF IInv
<1>1. /\ pc[w] = "reconcile"
      /\ UNCHANGED <<rows, containers, request, record, created, posts, boot,
                     known, stopped>>
      /\ \E to \in {"fail", "error"} : pc' = [pc EXCEPT ![w] = to]
  BY DEF InspectFails, Raise, Goto, history
<1>2. TypeOK'
  BY <1>1 DEF TypeOK, Exists
<1>3. RowsOK'
  BY <1>1 DEF RowsOK, RowOK, RecordOK, Exists
<1>4. ThreadOK(w)'
  BY <1>1 DEF ThreadsOK, ThreadOK, RecordOK, TypeOK, Creating, HasRow, Exists
<1>5. Moves(w)
  BY <1>1 DEF Moves, Grows, OthersKeep, OnlyCreates, KeepsId, Decides, Undecided,
              TypeOK, Creating, Exists
<1>. QED BY <1>2, <1>3, <1>4, <1>5, StepKeeps

-----------------------------------------------------------------------------
(* get_runtime, get_connection and terminate_runtime. *)

\* Read takes a fresh copy of the row.
LEMMA ReadKeeps ==
  ASSUME IInv, NEW w \in Workers, Read(w)
  PROVE  IInv'
<1>. USE DEF IInv
<1>. DEFINE r == record[w].id
<1>1. /\ pc[w] = "read" /\ record' = [record EXCEPT ![w] = RecordOf(r)]
      /\ UNCHANGED <<rows, containers, request, created, posts, boot, known, stopped>>
      /\ \E to \in {"reconcile", "terminate", "stop"} :
           /\ pc' = [pc EXCEPT ![w] = to]
           /\ to = "terminate" => RecordOf(r).ref
           /\ to = "stop" => ~ RecordOf(r).ref
  BY DEF Read, Goto, history
<1>2. /\ r \in RuntimeIds /\ Exists(r)
      /\ request[w].op \in {"get", "delete", "connection"}
  BY <1>1 DEF ThreadsOK, ThreadOK, HasRow
<1>3. RecordOf(r) \in [id : 0 .. MaxRuntimes,
                       state : States \union {"absent"}, ref : BOOLEAN]
  BY <1>2 DEF TypeOK, RecordOf, RuntimeIds
<1>4. TypeOK'
  BY <1>1, <1>3 DEF TypeOK, Exists
<1>5. RowsOK'
  BY <1>1 DEF RowsOK, RowOK, RecordOK, Exists
<1>6. ThreadOK(w)'
  BY <1>1, <1>2 DEF ThreadsOK, ThreadOK, RowsOK, RowOK, RecordOK, TypeOK, Creating,
                    HasRow, Exists, RecordOf
<1>7. Moves(w)
  BY <1>1, <1>2 DEF Moves, Grows, OthersKeep, OnlyCreates, KeepsId, Decides, Undecided,
                    TypeOK, Creating, Exists
<1>. QED BY <1>4, <1>5, <1>6, <1>7, StepKeeps

\* Terminate removes a container that has been created.
LEMMA TerminateKeeps ==
  ASSUME IInv, NEW w \in Workers, Terminate(w)
  PROVE  IInv'
<1>. USE DEF IInv
<1>. DEFINE id == record[w].id
<1>1. /\ pc[w] = "terminate" /\ pc' = [pc EXCEPT ![w] = "stop"]
      /\ containers' = [containers EXCEPT ![id] = "removed"]
      /\ UNCHANGED <<rows, request, record, created, posts, boot, known, stopped>>
  BY DEF Terminate, Goto, history
<1>2. id \in RuntimeIds /\ id <= created /\ Exists(id) /\ containers[id] # "absent"
  BY <1>1 DEF ThreadsOK, ThreadOK, RecordOK, HasRow
<1>3. TypeOK'
  BY <1>1, <1>2 DEF TypeOK, Exists
<1>4. RowsOK'
  BY <1>1, <1>2 DEF RowsOK, RowOK, RecordOK, TypeOK, Exists
<1>5. ThreadOK(w)'
  BY <1>1, <1>2 DEF ThreadsOK, ThreadOK, RecordOK, TypeOK, Creating, HasRow, Exists
<1>6. Moves(w)
  BY <1>1, <1>2 DEF Moves, Grows, OthersKeep, OnlyCreates, KeepsId, Decides, Undecided,
                    TypeOK, Creating, Exists
<1>. QED BY <1>3, <1>4, <1>5, <1>6, StepKeeps

\* TerminateFails and Endpoint only move on.
LEMMA EndpointKeeps ==
  ASSUME IInv, NEW w \in Workers, TerminateFails(w) \/ Endpoint(w)
  PROVE  IInv'
<1>. USE DEF IInv
<1>1. /\ pc[w] \in {"terminate", "endpoint"}
      /\ \/ pc' = [pc EXCEPT ![w] = "error"]
         \/ pc[w] = "endpoint" /\ pc' = [pc EXCEPT ![w] = "answer"]
      /\ UNCHANGED <<rows, containers, request, record, created, posts, boot,
                     known, stopped>>
  BY DEF TerminateFails, Endpoint, Goto, history
<1>2. TypeOK'
  BY <1>1 DEF TypeOK, Exists
<1>3. RowsOK'
  BY <1>1 DEF RowsOK, RowOK, RecordOK, Exists
<1>4. ThreadOK(w)'
  BY <1>1 DEF ThreadsOK, ThreadOK, RecordOK, TypeOK, Creating, HasRow, Exists
<1>5. Moves(w)
  BY <1>1 DEF Moves, Grows, OthersKeep, OnlyCreates, KeepsId, Decides, Undecided,
              TypeOK, Creating, Exists
<1>. QED BY <1>2, <1>3, <1>4, <1>5, StepKeeps

\* Answer.
LEMMA AnswerKeeps ==
  ASSUME IInv, NEW w \in Workers, Answer(w)
  PROVE  IInv'
<1>. USE DEF IInv
<1>. DEFINE id == record[w].id
<1>1. /\ pc[w] \in {"answer", "error"} /\ pc' = [pc EXCEPT ![w] = "idle"]
      /\ request' = [request EXCEPT ![w] = NoRequest]
      /\ record' = [record EXCEPT ![w] = NoRecord]
      /\ UNCHANGED <<rows, containers, created, posts, boot>>
  BY DEF Answer, Goto
<1>2. /\ known \subseteq known' /\ known' \subseteq {r \in RuntimeIds : Exists(r)}
      /\ stopped' \subseteq known'
  <2>1. CASE pc[w] = "answer"
    <3>1. id \in RuntimeIds /\ Exists(id) /\ (request[w].op = "delete" => id \in known)
      BY <2>1 DEF ThreadsOK, ThreadOK, HasRow
    <3>2. /\ known' = known \union {id} \/ known' = known
          /\ stopped' = IF request[w].op = "delete"
                        THEN stopped \union {id} ELSE stopped
      BY <2>1 DEF Answer, Goto
    <3>. QED BY <3>1, <3>2 DEF TypeOK
  <2>2. CASE pc[w] = "error"
    BY <2>2 DEF Answer, Goto, TypeOK, history
  <2>. QED BY <1>1, <2>1, <2>2
<1>3. /\ NoRequest \in [op : {"none", "create", "existing", "get", "delete", "connection"},
                         notebook : Notebooks \union {None}]
      /\ NoRecord \in [id : 0 .. MaxRuntimes, state : States \union {"absent"},
                        ref : BOOLEAN]
  BY DEF NoRequest, NoRecord
<1>4. TypeOK'
  BY <1>1, <1>2, <1>3 DEF TypeOK, Exists
<1>5. RowsOK'
  BY <1>1 DEF RowsOK, RowOK, RecordOK, Exists
<1>6. ThreadOK(w)'
  BY <1>1 DEF ThreadOK, RecordOK, TypeOK, Creating, HasRow, NoRequest, NoRecord
<1>7. Moves(w)
  BY <1>1, <1>2 DEF Moves, Grows, OthersKeep, OnlyCreates, KeepsId, Decides, Undecided,
                    TypeOK, Creating, Exists
<1>. QED BY <1>4, <1>5, <1>6, <1>7, StepKeeps

\* AcceptById.
LEMMA AcceptByIdKeeps ==
  ASSUME IInv, NEW w \in Workers, AcceptById(w)
  PROVE  IInv'
<1>. USE DEF IInv
<1>1. PICK op \in Operations, r \in RuntimeIds : AcceptFor(w, op, r)
  BY DEF AcceptById
<1>. DEFINE rec == [id |-> r, state |-> "absent", ref |-> FALSE]
            q == [op |-> op, notebook |-> rows[r].notebook]
<1>2. [NoRecord EXCEPT !.id = r] = rec
  <2>1. NoRecord = [id |-> 0, state |-> "absent", ref |-> FALSE]
    BY DEF NoRecord
  <2>2. \A x \in [id : Nat, state : {"absent"}, ref : BOOLEAN] :
          [x EXCEPT !.id = r] = [id |-> r, state |-> x.state, ref |-> x.ref]
    OBVIOUS
  <2>3. NoRecord \in [id : Nat, state : {"absent"}, ref : BOOLEAN]
    BY <2>1
  <2>4. [NoRecord EXCEPT !.id = r]
          = [id |-> r, state |-> NoRecord.state, ref |-> NoRecord.ref]
    BY <2>2, <2>3
  <2>. QED BY <2>1, <2>4
<1>3. /\ pc[w] = "idle" /\ pc' = [pc EXCEPT ![w] = "read"]
      /\ request' = [request EXCEPT ![w] = q]
      /\ record' = [record EXCEPT ![w] = rec]
      /\ UNCHANGED <<rows, containers, created, posts, boot, known, stopped>>
      /\ r \in known
  <2>1. record' = [record EXCEPT ![w] = rec]
    BY <1>1, <1>2, Zenon DEF AcceptFor
  <2>. QED BY <1>1, <2>1 DEF AcceptFor, Accept, Goto, history
<1>4. /\ Exists(r) /\ r <= created /\ op \in {"get", "delete", "connection"}
      /\ q \in [op : {"none", "create", "existing", "get", "delete", "connection"},
                 notebook : Notebooks \union {None}]
      /\ rec \in [id : 0 .. MaxRuntimes, state : States \union {"absent"}, ref : BOOLEAN]
  BY <1>3 DEF TypeOK, RowsOK, RowOK, RuntimeIds
<1>5. TypeOK'
  BY <1>3, <1>4 DEF TypeOK, Exists
<1>6. RowsOK'
  BY <1>3 DEF RowsOK, RowOK, RecordOK, Exists
<1>7. ThreadOK(w)'
  BY <1>3, <1>4 DEF ThreadOK, RecordOK, TypeOK, Creating, HasRow, Exists
<1>8. Moves(w)
  BY <1>3 DEF Moves, Grows, OthersKeep, OnlyCreates, KeepsId, Decides, Undecided,
              TypeOK, Creating, Exists
<1>. QED BY <1>5, <1>6, <1>7, <1>8, StepKeeps

\* DatabaseFails: no row changes, and a container that runs is in the copy.
LEMMA DatabaseFailsKeeps ==
  ASSUME IInv, NEW w \in Workers, DatabaseFails(w)
  PROVE  IInv'
<1>. USE DEF IInv
<1>. DEFINE id == record[w].id
            rec == [id |-> id, state |-> "STARTING", ref |-> TRUE]
<1>1. /\ UNCHANGED <<rows, containers, request, created, posts, boot, known, stopped>>
      /\ pc[w] \in {"find", "insert", "provision", "fail", "read", "stop", "start",
                   "update"}
      /\ \/ /\ pc' = [pc EXCEPT ![w] = "error"] /\ record' = record
         \/ /\ pc[w] = "start" /\ pc' = [pc EXCEPT ![w] = "fail"]
            /\ record' = [record EXCEPT ![w] = rec]
         \/ /\ pc[w] = "update" /\ pc' = [pc EXCEPT ![w] = "fail"] /\ record' = record
  BY StartSet DEF DatabaseFails, Raise, Goto, history
<1>2. /\ ThreadOK(w)
      /\ pc[w] = "start" => id \in RuntimeIds /\ Exists(id) /\ containers[id] # "absent"
      /\ pc[w] = "update" => id \in RuntimeIds /\ Exists(id)
      /\ id \in 0 .. MaxRuntimes
  BY DEF ThreadsOK, ThreadOK, HasRow, TypeOK
<1>3. TypeOK'
  <2>1. rec \in [id : 0 .. MaxRuntimes, state : States \union {"absent"}, ref : BOOLEAN]
    BY <1>2 DEF States, ActiveStates
  <2>2. record' = record \/ record' = [record EXCEPT ![w] = rec]
    BY <1>1
  <2>. HIDE DEF rec
  <2>3. record' \in [Workers -> [id : 0 .. MaxRuntimes,
                                state : States \union {"absent"}, ref : BOOLEAN]]
    BY <2>1, <2>2 DEF TypeOK
  <2>4. pc' \in [Workers -> {"idle", "find", "insert", "provision", "run", "start",
                            "fail", "reconcile", "update", "read", "terminate",
                            "stop", "endpoint", "answer", "error"}]
    <3>1. pc' = [pc EXCEPT ![w] = "error"] \/ pc' = [pc EXCEPT ![w] = "fail"]
      BY <1>1
    <3>. QED BY <3>1 DEF TypeOK
  <2>5. {r \in RuntimeIds : Exists(r)}' = {r \in RuntimeIds : Exists(r)}
    BY <1>1 DEF Exists
  <2>6. /\ rows' = rows /\ containers' = containers /\ request' = request
        /\ created' = created /\ posts' = posts /\ boot' = boot
        /\ known' = known /\ stopped' = stopped
    BY <1>1
  <2>. QED BY <2>3, <2>4, <2>5, <2>6 DEF TypeOK
<1>4. RowsOK'
  BY <1>1 DEF RowsOK, RowOK, RecordOK, Exists
<1>5. ThreadOK(w)'
  BY <1>1, <1>2 DEF ThreadOK, RecordOK, TypeOK, Creating, HasRow, Exists
<1>6. Moves(w)
  BY <1>1 DEF Moves, Grows, OthersKeep, OnlyCreates, KeepsId, Decides, Undecided,
              TypeOK, Creating, Exists
<1>. QED BY <1>3, <1>4, <1>5, <1>6, StepKeeps

-----------------------------------------------------------------------------
(* Requests that arrive, containers, crashes and startup. *)

\* AcceptPost.
LEMMA AcceptPostKeeps ==
  ASSUME IInv, NEW w \in Workers, AcceptPost(w)
  PROVE  IInv'
<1>. USE DEF IInv
<1>1. PICK n \in Notebooks :
        /\ pc[w] = "idle" /\ pc' = [pc EXCEPT ![w] = "find"]
        /\ request' = [request EXCEPT ![w] = [op |-> "create", notebook |-> n]]
  BY DEF AcceptPost, Accept, Goto
<1>2. /\ posts < MaxRuntimes /\ posts' = posts + 1
      /\ UNCHANGED <<rows, containers, record, created, boot, known, stopped>>
  BY DEF AcceptPost, history
<1>3. TypeOK'
  BY <1>1, <1>2 DEF TypeOK, Exists
<1>4. RowsOK'
  BY <1>2 DEF RowsOK, RowOK, RecordOK, Exists
<1>5. ThreadsOK'
  BY <1>1, <1>2 DEF ThreadsOK, ThreadOK, RecordOK, TypeOK, Creating, HasRow, Exists
<1>6. IdsApart'
  BY <1>1, <1>2 DEF IdsApart, TypeOK, Creating
<1>7. CountOK'
  <2>1. w \notin Undecided /\ Undecided' = Undecided \union {w}
    BY <1>1 DEF Undecided, TypeOK
  <2>2. /\ IsFiniteSet(Undecided') /\ Cardinality(Undecided) \in Nat
        /\ Cardinality(Undecided') = Cardinality(Undecided) + 1
    BY <2>1, FS_AddElement, FS_CardinalityType DEF CountOK
  <2>. QED BY <1>2, <2>2 DEF CountOK, TypeOK
<1>. QED BY <1>3, <1>4, <1>5, <1>6, <1>7

\* A step of the environment keeps what every thread knows.
LEMMA ThreadsLeftAlone ==
  ASSUME IInv, TypeOK', RowsOK', Grows, UNCHANGED <<threads, created, posts, history>>,
         \A r \in RuntimeIds : containers[r] = "absent" => containers'[r] = "absent"
  PROVE  IInv'
<1>. USE DEF IInv, threads, history
<1>1. ThreadsOK'
  <2>. SUFFICES ASSUME NEW u \in Workers PROVE ThreadOK(u)'
    BY DEF ThreadsOK
  <2>1. Creating(u) => containers'[record[u].id] = "absent"
    BY DEF ThreadsOK, ThreadOK
  <2>. QED BY <2>1, ThreadKept DEF ThreadsOK
<1>2. IdsApart'
  BY DEF IdsApart, Creating
<1>3. CountOK'
  <2>1. Undecided' = Undecided
    BY DEF Undecided
  <2>. QED BY <2>1 DEF CountOK
<1>. QED BY <1>1, <1>2, <1>3

\* Healthy, Unhealthy and Exits: a container that runs changes.
LEMMA ContainersKeep ==
  ASSUME IInv, Healthy \/ Unhealthy \/ Exits
  PROVE  IInv'
<1>. USE DEF IInv
<1>1. PICK r \in RuntimeIds, c \in {"starting", "healthy", "exited"} :
        /\ containers[r] \in Running
        /\ containers' = [containers EXCEPT ![r] = c]
  BY DEF Healthy, Unhealthy, Exits, ContainerBecomes, Running
<1>2. UNCHANGED <<rows, threads, created, posts, boot, history>>
  BY DEF Healthy, Unhealthy, Exits, ContainerBecomes
<1>3. TypeOK'
  BY <1>1, <1>2 DEF TypeOK, Exists, threads, history
<1>4. RowsOK'
  BY <1>1, <1>2 DEF RowsOK, RowOK, RecordOK, TypeOK, Exists, Running
<1>5. Grows
  BY <1>1, <1>2 DEF Grows, TypeOK, Exists, Running, history
<1>6. \A q \in RuntimeIds : containers[q] = "absent" => containers'[q] = "absent"
  BY <1>1 DEF TypeOK, Running
<1>. QED BY <1>2, <1>3, <1>4, <1>5, <1>6, ThreadsLeftAlone

\* Crash: rows and containers survive, no thread does.
LEMMA CrashKeeps ==
  ASSUME IInv, Crash
  PROVE  IInv'
<1>. USE DEF IInv
<1>1. /\ pc' = [w \in Workers |-> "idle"]
      /\ request' = [w \in Workers |-> NoRequest]
      /\ record' = [w \in Workers |-> NoRecord]
      /\ boot' \subseteq {r \in RuntimeIds : Exists(r)}
      /\ UNCHANGED <<rows, containers, created, posts, known, stopped>>
  BY DEF Crash, history
<1>2. TypeOK'
  BY <1>1 DEF TypeOK, Exists, NoRequest, NoRecord
<1>3. RowsOK'
  BY <1>1 DEF RowsOK, RowOK, RecordOK, Exists
<1>4. ThreadsOK'
  BY <1>1 DEF ThreadsOK, ThreadOK, RecordOK, TypeOK, Creating, HasRow, NoRequest, NoRecord
<1>5. IdsApart'
  BY <1>1 DEF IdsApart, Creating
<1>6. CountOK'
  <2>1. Undecided' = {}
    BY <1>1 DEF Undecided
  <2>. QED BY <1>1, <2>1, FS_EmptySet DEF CountOK, TypeOK
<1>. QED BY <1>2, <1>3, <1>4, <1>5, <1>6

\* ReconcileAtStartup.
LEMMA StartupKeeps ==
  ASSUME IInv, ReconcileAtStartup
  PROVE  IInv'
<1>. USE DEF IInv
<1>1. PICK r \in boot :
        /\ boot' = boot \ {r}
        /\ rows' = [rows EXCEPT ![r].state = NewState(RecordOf(r))]
        /\ UNCHANGED <<containers, threads, created, posts, history>>
  BY DEF ReconcileAtStartup
<1>. DEFINE state == NewState(RecordOf(r))
<1>2. r \in RuntimeIds /\ Exists(r) /\ RecordOK(r, rows[r].state, rows[r].ref)
  BY DEF TypeOK, RowsOK, RowOK
<1>3. /\ RecordOf(r) \in [id : Nat, state : States \union {"absent"}, ref : BOOLEAN]
      /\ RecordOf(r).id = r /\ RecordOf(r).state = rows[r].state
      /\ RecordOf(r).ref = rows[r].ref
      /\ rows[r] = [notebook |-> rows[r].notebook, state |-> rows[r].state,
                    ref |-> rows[r].ref]
  BY <1>2 DEF RecordOf, TypeOK, RuntimeIds
<1>4. /\ state \in {"STOPPED", "FAILED", "STARTING", "READY"}
      /\ RecordOK(r, state, rows[r].ref)
  BY <1>2, <1>3, NewStateFacts
<1>. HIDE DEF state
<1>5. rows' = [rows EXCEPT ![r] = [notebook |-> rows[r].notebook, state |-> state,
                                   ref |-> rows[r].ref]]
  <2>1. [rows[r] EXCEPT !.state = state]
          = [notebook |-> rows[r].notebook, state |-> state, ref |-> rows[r].ref]
    BY <1>3
  <2>. QED BY <1>1, <2>1, Zenon DEF state
<1>6. \A q \in RuntimeIds : Exists(q)' = Exists(q)
  BY <1>2, <1>4, <1>5 DEF Exists, TypeOK
<1>7. TypeOK'
  BY <1>1, <1>2, <1>4, <1>5, <1>6 DEF TypeOK, States, ActiveStates, threads, history
<1>8. RowsOK'
  BY <1>1, <1>2, <1>4, <1>5, <1>6 DEF RowsOK, RowOK, RecordOK, TypeOK
<1>9. Grows
  BY <1>1, <1>6 DEF Grows, TypeOK, history
<1>. QED BY <1>1, <1>7, <1>8, <1>9, ThreadsLeftAlone

-----------------------------------------------------------------------------
(* The invariant and what it implies. *)

\* It holds of an empty table and idle threads.
LEMMA InitIInv == Init => IInv
<1>. SUFFICES ASSUME Init PROVE IInv
  OBVIOUS
<1>. USE DEF Init
<1>1. TypeOK
  BY DEF TypeOK, RuntimeIds, NoRow, NoRequest, NoRecord
<1>2. RowsOK
  BY DEF RowsOK, RowOK, RecordOK, Exists, NoRow
<1>3. ThreadsOK
  <2>. SUFFICES ASSUME NEW w \in Workers PROVE ThreadOK(w)
    BY DEF ThreadsOK
  <2>1. /\ pc[w] = "idle" /\ request[w].op = "none" /\ record[w].id = 0
        /\ record[w].state = "absent" /\ record[w].ref = FALSE
    BY DEF NoRequest, NoRecord
  <2>. QED BY <2>1 DEF ThreadOK, RecordOK, Creating, HasRow
<1>4. IdsApart
  BY DEF IdsApart, Creating
<1>5. CountOK
  <2>1. Undecided = {}
    BY DEF Undecided
  <2>. QED BY <2>1, FS_EmptySet DEF CountOK
<1>. QED BY <1>1, <1>2, <1>3, <1>4, <1>5 DEF IInv

\* Every action keeps it, one lemma per action above.
LEMMA StepIInv == IInv /\ [Next]_vars => IInv'
<1>. SUFFICES ASSUME IInv, [Next]_vars PROVE IInv'
  OBVIOUS
<1>1. ASSUME NEW w \in Workers, Step(w) PROVE IInv'
  BY <1>1, FindActiveKeeps, InsertKeeps, StateWriteKeeps, RunContainerKeeps, StartKeeps,
     ReconcileKeeps, UpdateReconciledKeeps, InspectFailsKeeps, ReadKeeps, TerminateKeeps,
     EndpointKeeps, DatabaseFailsKeeps, AnswerKeeps DEF Step
<1>2. ASSUME NEW w \in Workers, AcceptPost(w) \/ AcceptById(w) PROVE IInv'
  BY <1>2, AcceptPostKeeps, AcceptByIdKeeps
<1>3. CASE Healthy \/ Unhealthy \/ Exits
  BY <1>3, ContainersKeep
<1>4. CASE Crash
  BY <1>4, CrashKeeps
<1>5. CASE ReconcileAtStartup
  BY <1>5, StartupKeeps
<1>6. CASE UNCHANGED vars
  BY <1>6 DEF vars, threads, history, IInv, TypeOK, RowsOK, RowOK, ThreadsOK, ThreadOK,
              RecordOK, IdsApart, CountOK, Undecided, Creating, HasRow, Exists
<1>. QED BY <1>1, <1>2, <1>3, <1>4, <1>5, <1>6 DEF Next

\* The rules of rows and copies, and what each thread knows, hold always.
THEOREM Invariance == Spec => []IInv
<1>. QED BY InitIInv, StepIInv, PTL DEF Spec

\* Rows, containers and threads keep their shape, and startup and clients only
\* ever speak of runtimes that have a row.
THEOREM TypeCorrect == Spec => []TypeOK
<1>1. IInv => TypeOK
  BY DEF IInv
<1>. QED BY <1>1, Invariance, PTL

\* Whoever writes a row, and however stale the copy is, a STARTING or READY
\* runtime names a container that has been created.
THEOREM ReadyNamesContainer == Spec => []ReadyHasContainer
<1>1. IInv => ReadyHasContainer
  BY DEF IInv, RowsOK, RowOK, RecordOK, ReadyHasContainer
<1>. QED BY <1>1, Invariance, PTL

\* A STOPPED row that names a container is true for good, although other threads
\* may write the row at any time.
THEOREM StoppedStaysTrue == Spec => []StoppedIsGone
<1>1. IInv => StoppedIsGone
  BY DEF IInv, RowsOK, RowOK, RecordOK, StoppedIsGone
<1>. QED BY <1>1, Invariance, PTL

\* No container is run under a name that was used before, and none comes back
\* after its removal: docker.create never meets a name of another thread's.
RunAtMostOnce ==
  [][\A r \in RuntimeIds :
       /\ containers[r] # "absent" => containers'[r] # "absent"
       /\ containers'[r] = "starting" => containers[r] \in {"absent"} \union Running
       /\ containers[r] = "removed" => containers'[r] = "removed"]_containers

\* The threads that run, remove and lose containers do so by ids of their own.
THEOREM ContainersRunOnce == Spec => RunAtMostOnce
<1>. DEFINE Once == \A r \in RuntimeIds :
       /\ containers[r] # "absent" => containers'[r] # "absent"
       /\ containers'[r] = "starting" => containers[r] \in {"absent"} \union Running
       /\ containers[r] = "removed" => containers'[r] = "removed"
<1>1. ASSUME IInv, [Next]_vars PROVE [Once]_containers
  <2>. SUFFICES ASSUME containers' # containers PROVE Once
    OBVIOUS
  <2>. USE <1>1 DEF IInv
  <2>1. CASE \E w \in Workers : RunContainer(w) \/ RunContainerFails(w)
    <3>1. PICK w \in Workers : RunContainer(w) \/ RunContainerFails(w)
      BY <2>1
    <3>2. PICK c : containers' = [containers EXCEPT ![record[w].id] = c]
      BY <3>1 DEF RunContainer, RunContainerFails
    <3>3. pc[w] = "run"
      BY <3>1 DEF RunContainer, RunContainerFails, Goto
    <3>4. containers[record[w].id] = "absent"
      BY <3>3 DEF ThreadsOK, ThreadOK, Creating
    <3>. QED BY <3>2, <3>4 DEF TypeOK, Running
  <2>2. CASE \E w \in Workers : Terminate(w)
    <3>1. PICK w \in Workers : Terminate(w)
      BY <2>2
    <3>2. containers' = [containers EXCEPT ![record[w].id] = "removed"]
      BY <3>1 DEF Terminate
    <3>. QED BY <3>2 DEF TypeOK, Running
  <2>3. CASE Healthy \/ Unhealthy \/ Exits
    BY <2>3 DEF Healthy, Unhealthy, Exits, ContainerBecomes, Running, TypeOK
  <2>4. ASSUME NEW w \in Workers, Step(w)
        PROVE  RunContainer(w) \/ RunContainerFails(w) \/ Terminate(w)
    BY <2>4 DEF Step, FindActive, Insert, Provision, Start, Fail, Reconcile,
                UpdateReconciled, InspectFails, Read, TerminateFails, Stop, Endpoint,
                DatabaseFails, Answer
  <2>5. ASSUME NEW w \in Workers, AcceptPost(w) \/ AcceptById(w) PROVE FALSE
    BY <2>5 DEF AcceptPost, AcceptById, AcceptFor
  <2>6. ~ Crash /\ ~ ReconcileAtStartup /\ ~ UNCHANGED vars
    BY DEF Crash, ReconcileAtStartup, vars
  <2>. QED BY <2>1, <2>2, <2>3, <2>4, <2>5, <2>6 DEF Next
<1>. QED BY <1>1, Invariance, PTL DEF Spec, RunAtMostOnce
=============================================================================
