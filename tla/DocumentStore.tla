--------------------------- MODULE DocumentStore ---------------------------
(***************************************************************************)
(* What the Notebook Service promises its clients, with every operation    *)
(* atomic: notebooks with a numbered history of immutable versions, a      *)
(* permanent deletion, and a ledger that remembers which idempotency key   *)
(* has already taken effect.  NotebookService implements this module.      *)
(***************************************************************************)
EXTENDS Naturals

CONSTANTS NotebookIds,    \* identifiers the service may hand out
          CreateKeys,     \* idempotency keys used with POST
          SaveKeys,       \* idempotency keys used with PUT
          BaseRevisions,  \* base revisions a PUT may carry
          Contents        \* documents, named by their content hash

VARIABLES versions,       \* readable versions: [notebook, revision, content]
          deleted,        \* notebooks that have been deleted
          ledger          \* effects: [scope, key, base, notebook, revision, content]

storeVars == <<versions, deleted, ledger>>

Version == [notebook : NotebookIds, revision : Nat, content : Contents]

Effect == [scope : {"POST", "PUT"}, key : CreateKeys \union SaveKeys,
           base : Nat, notebook : NotebookIds, revision : Nat,
           content : Contents]

Exists(n) == \E v \in versions : v.notebook = n

\* Revision r is the newest version of notebook n.
Latest(n, r) == /\ \E v \in versions : v.notebook = n /\ v.revision = r
                /\ \A v \in versions : v.notebook = n => v.revision <= r

Unused(scope, key) == \A e \in ledger : e.scope # scope \/ e.key # key

Record(scope, key, base, n, r, c) ==
  ledger' = ledger \union {[scope |-> scope, key |-> key, base |-> base,
                            notebook |-> n, revision |-> r, content |-> c]}

AddVersion(n, r, c) ==
  versions' = versions \union {[notebook |-> n, revision |-> r, content |-> c]}

StoreInit == versions = {} /\ deleted = {} /\ ledger = {}

\* A new notebook starts at revision 1.
StoreCreate(key, n, c) ==
  /\ Unused("POST", key)
  /\ ~ Exists(n)
  /\ AddVersion(n, 1, c)
  /\ Record("POST", key, 0, n, 1, c)
  /\ UNCHANGED deleted

\* A writer that has seen the latest version adds the next one.
StoreSave(key, n, base, c) ==
  /\ Unused("PUT", key)
  /\ n \notin deleted
  /\ Latest(n, base)
  /\ [notebook |-> n, revision |-> base, content |-> c] \notin versions
  /\ AddVersion(n, base + 1, c)
  /\ Record("PUT", key, base, n, base + 1, c)
  /\ UNCHANGED deleted

\* Saving the latest content again succeeds without a new version.
StoreConfirm(key, n, base, c) ==
  /\ Unused("PUT", key)
  /\ n \notin deleted
  /\ Latest(n, base)
  /\ [notebook |-> n, revision |-> base, content |-> c] \in versions
  /\ Record("PUT", key, base, n, base, c)
  /\ UNCHANGED <<versions, deleted>>

StoreDelete(n) ==
  /\ Exists(n)
  /\ n \notin deleted
  /\ deleted' = deleted \union {n}
  /\ UNCHANGED <<versions, ledger>>

StoreNext ==
  \/ \E key \in CreateKeys, n \in NotebookIds, c \in Contents :
        StoreCreate(key, n, c)
  \/ \E key \in SaveKeys, n \in NotebookIds, base \in BaseRevisions, c \in Contents :
        StoreSave(key, n, base, c) \/ StoreConfirm(key, n, base, c)
  \/ \E n \in NotebookIds : StoreDelete(n)

StoreSpec == StoreInit /\ [][StoreNext]_storeVars
=============================================================================
