------------------------------ MODULE HomePage ------------------------------
(***************************************************************************)
(* The portal's home page: the list of notebooks with its buttons, the     *)
(* deletion of a notebook, and the creation and upload of one, each with   *)
(* an idempotent operation that is kept while its outcome is unknown.      *)
(* Other clients create, save and delete notebooks meanwhile.              *)
(*                                                                         *)
(* One visit of the page is modelled: opening a notebook ends it, but not  *)
(* the requests it has sent.                                               *)
(***************************************************************************)
EXTENDS NotebookList

CONSTANTS Keys,          \* idempotency keys, in the order of their creation
          MaxEvents      \* bound on refreshes, new operations and changes by
                         \* other clients, together

Kinds == {"create", "upload"}

ASSUME PageAssumption ==
  /\ Keys \subseteq Nat /\ None \notin Keys /\ None \notin Kinds
  /\ MaxEvents \in Nat

VARIABLES deleting,     \* deletingNotebookId
          deleteDone,   \* the service has handled the DELETE
          deleteError,  \* notebook of a deleteError that is not retryable
          pending,      \* createOperation and uploadPending: their keys
          busy,         \* creating, or an upload phase
          posting,      \* key of the POST under way
          request,      \* per key: its body
          made,         \* per key: the notebook the service has created
          opened,       \* the notebook the app shows instead of the page
          events,
          gone,         \* history: notebooks whose DELETE was answered
          abandoned     \* history: keys the user has given up

deletion == <<deleting, deleteDone, deleteError, gone>>
creation == <<pending, busy, posting, request, made, opened, abandoned>>
vars == <<listVars, deletion, creation, events>>

OnPage == opened = None
Held(kinds) == {pending[kind] : kind \in kinds} \ {None}

Init ==
  /\ ListInit
  /\ deleting = None /\ deleteDone = FALSE /\ deleteError = None
  /\ pending = [kind \in Kinds |-> None]
  /\ busy = None /\ posting = None
  /\ request = [k \in Keys |-> "unused"]
  /\ made = [k \in Keys |-> None]
  /\ opened = None
  /\ events = 0
  /\ gone = {} /\ abandoned = {}

Event == events < MaxEvents /\ events' = events + 1

-----------------------------------------------------------------------------
(* The list and its buttons.  While the first page is loading the list and *)
(* the buttons in it are hidden.                                           *)

ClickRefresh ==
  /\ OnPage /\ deleting = None /\ ~ loading
  /\ \/ ~ loadingMore
     \/ items = <<>> /\ errorPhase = "initial"
     \/ deleteError \in Listed
  /\ Event
  /\ Refresh
  /\ UNCHANGED <<deletion, creation>>

ClickLoadMore ==
  /\ OnPage /\ deleting = None /\ ~ loading
  /\ LoadMore
  /\ UNCHANGED <<deletion, creation, events>>

ListAnswers == OnPage /\ ListStep /\ UNCHANGED <<deletion, creation, events>>

\* The page is unmounted.  What it had under way goes on, but a key it kept is
\* lost.
Leave(n, kept) ==
  /\ Unmount
  /\ opened' = n
  /\ abandoned' = abandoned \union Held(kept)
  /\ deleteError' = None /\ gone' = {}

OpenItem(n) ==
  /\ OnPage /\ deleting = None /\ ~ loading
  /\ n \in Listed
  /\ Leave(n, Kinds)
  /\ UNCHANGED <<deleting, deleteDone, pending, busy, posting, request, made,
                 events>>

\* The diagnostic entry takes any id, at any time.
OpenById(n) ==
  /\ OnPage
  /\ Leave(n, Kinds)
  /\ UNCHANGED <<deleting, deleteDone, pending, busy, posting, request, made,
                 events>>

-----------------------------------------------------------------------------
(* handleDelete. *)

ClickDelete(n) ==
  /\ OnPage /\ deleting = None /\ ~ loading
  /\ n \in Listed
  /\ Event
  /\ deleting' = n /\ deleteDone' = FALSE
  /\ deleteError' = None
  /\ UNCHANGED <<listVars, gone, creation>>

HandleDelete ==
  /\ deleting # None /\ ~ deleteDone
  /\ SoftDelete(deleting)
  /\ deleteDone' = TRUE
  /\ UNCHANGED <<hook, pages, overlapped, deleting, deleteError, gone,
                 creation, events>>

\* 204.
DeleteSucceeds ==
  /\ deleting # None /\ deleteDone
  /\ RemoveItem(deleting)
  /\ gone' = gone \union {deleting}
  /\ deleting' = None /\ deleteDone' = FALSE
  /\ UNCHANGED <<rows, nextCursor, loading, loadingMore, errorPhase, pages,
                 steady, overlapped, deleteError, creation, events>>

\* The item stays, also when only the answer is lost.
DeleteFails ==
  /\ deleting # None
  /\ \/ deleteError' = None
     \/ OnPage /\ deleteError' = deleting
  /\ deleting' = None /\ deleteDone' = FALSE
  /\ UNCHANGED <<listVars, gone, creation, events>>

-----------------------------------------------------------------------------
(* handleCreate, handleFileSelected, submitUpload and retryUpload. *)

Fresh(k) == request[k] = "unused" /\ \A other \in Keys :
              other < k => request[other] # "unused"

MayCreate == OnPage /\ busy = None /\ deleting = None

\* A create without a known outcome is sent again under its key.
ClickCreate ==
  /\ MayCreate
  /\ busy' = "create"
  /\ \/ /\ pending["create"] # None
        /\ posting' = pending["create"]
        /\ UNCHANGED <<pending, request, events>>
     \/ \E k \in Keys :
          /\ pending["create"] = None /\ Fresh(k)
          /\ Event
          /\ posting' = k
          /\ pending' = [pending EXCEPT !["create"] = k]
          /\ request' = [request EXCEPT ![k] = "valid"]
  /\ UNCHANGED <<listVars, deletion, made, opened, abandoned>>

\* Another file is another operation.
SelectFile ==
  /\ MayCreate
  /\ Event
  /\ busy' = "upload"
  /\ pending' = [pending EXCEPT !["upload"] = None]
  /\ abandoned' = abandoned \union Held({"upload"})
  /\ UNCHANGED <<listVars, deletion, posting, request, made, opened>>

\* The file is read and parsed: it is sent, or it is no notebook.
FileRead ==
  /\ busy = "upload" /\ posting = None
  /\ \/ /\ busy' = None
        /\ UNCHANGED <<pending, posting, request>>
     \/ \E k \in Keys, body \in {"valid", "invalid"} :
          /\ Fresh(k)
          /\ posting' = k
          /\ pending' = [pending EXCEPT !["upload"] = k]
          /\ request' = [request EXCEPT ![k] = body]
          /\ UNCHANGED busy
  /\ UNCHANGED <<listVars, deletion, made, opened, abandoned, events>>

RetryUpload ==
  /\ MayCreate /\ pending["upload"] # None
  /\ busy' = "upload" /\ posting' = pending["upload"]
  /\ UNCHANGED <<listVars, deletion, pending, request, made, opened, abandoned,
                 events>>

\* The service handles a POST, perhaps after the browser gave it up, and once
\* per key; a body that is no notebook is refused.
HandleCreate(k) ==
  /\ request[k] = "valid" /\ made[k] = None
  /\ \E n \in Notebooks, at \in Times :
       /\ rows[n].status = "absent"
       /\ Touch(n, at)
       /\ made' = [made EXCEPT ![k] = n]
  /\ UNCHANGED <<hook, pages, overlapped, deletion, pending, busy, posting,
                 request, opened, abandoned, events>>

\* The page is left for the new notebook, wherever the user is by now.
PostSucceeds ==
  /\ posting # None /\ made[posting] # None
  /\ pending' = [pending EXCEPT ![busy] = None]
  /\ Leave(made[posting], Kinds \ {busy})
  /\ busy' = None /\ posting' = None
  /\ UNCHANGED <<deleting, deleteDone, request, made, events>>

\* Mutant of PostFails: any error ends the operation.
PostFailsForgets ==
  /\ posting # None
  /\ pending' = [pending EXCEPT ![busy] = None]
  /\ busy' = None /\ posting' = None
  /\ UNCHANGED <<listVars, deletion, request, made, opened, abandoned,
                 events>>

\* 4xx ends the operation; after a network error or a 5xx it is kept, as long
\* as the page is.
PostFails ==
  /\ posting # None
  /\ \/ /\ OnPage
        /\ UNCHANGED <<pending, abandoned>>
     \/ /\ ~ OnPage \/ request[posting] = "invalid"
        /\ pending' = [pending EXCEPT ![busy] = None]
        /\ abandoned' = IF OnPage THEN abandoned ELSE abandoned \union {posting}
  /\ busy' = None /\ posting' = None
  /\ UNCHANGED <<listVars, deletion, request, made, opened, events>>

-----------------------------------------------------------------------------
(* Other clients. *)

OthersSave(n) == \E at \in Times : rows[n].status # "deleted" /\ Touch(n, at)

OthersWrite ==
  /\ Event
  /\ \E n \in Notebooks : OthersSave(n) \/ (Live(n) /\ SoftDelete(n))
  /\ UNCHANGED <<hook, pages, overlapped, deletion, creation>>

Next ==
  \/ ClickRefresh \/ ClickLoadMore \/ ListAnswers
  \/ \E n \in Notebooks : OpenItem(n) \/ OpenById(n) \/ ClickDelete(n)
  \/ HandleDelete \/ DeleteSucceeds \/ DeleteFails
  \/ ClickCreate \/ SelectFile \/ FileRead \/ RetryUpload
  \/ \E k \in Keys : HandleCreate(k)
  \/ PostSucceeds \/ PostFails
  \/ OthersWrite

Spec == Init /\ [][Next]_vars

\* Requests are answered, and some "load more" in a row of them is not lost;
\* the user keeps asking for more.
Fairness ==
  /\ WF_vars(ListAnswers)
  /\ SF_vars(OnPage /\ ReadMore /\ UNCHANGED <<deletion, creation, events>>)
  /\ WF_vars(DeleteSucceeds \/ DeleteFails)
  /\ SF_vars(ClickLoadMore)

FairSpec == Spec /\ Fairness

-----------------------------------------------------------------------------
(* Properties. *)

\* The hook's flags and the requests under way agree, a POST belongs to the
\* operation that is kept for it, and every page holds at most Limit items.
TypeOK ==
  /\ loading = (firstPage.phase # "none")
  /\ loadingMore = (morePage.phase # "none")
  /\ \A r \in {firstPage, morePage} :
       /\ r.phase \in {"none", "sent", "read"}
       /\ Len(r.page.items) <= Limit
  /\ Listed \subseteq Notebooks /\ IsInjective(items)
  /\ busy \in Kinds \union {None}
  /\ posting # None => busy # None /\ pending[busy] = posting
  /\ \A k \in Keys : made[k] # None => request[k] = "valid"

\* Whatever others do between two pages, a notebook that has not changed since
\* the first page was read is listed, or still follows the cursor.  A refresh
\* that meets a loadMore under way voids this: the late page and its cursor
\* are put into the new list.
ListComplete ==
  OnPage /\ ~ loading /\ ~ overlapped =>
    \A n \in steady :
      n \in Listed \/ (nextCursor # None /\ Follows(n, nextCursor))

\* A notebook whose deletion was confirmed does not come back into the list,
\* although pages read before the deletion may arrive after it.
DeletedStaysOut == overlapped \/ loading \/ gone \intersect Listed = {}

\* Every notebook the service has made for this page is the one that is
\* opened, or its key is still held, so that the next click finds it instead
\* of making another ("避免产生重复 Notebook").
NoForgottenCreate ==
  \A k \in Keys :
    made[k] # None =>
      \/ opened = made[k]
      \/ k \in abandoned
      \/ \E kind \in Kinds : pending[kind] = k

\* A user who keeps asking for more reaches the end of the list.
PagingEnds == (nextCursor # None) ~> (nextCursor = None \/ ~ OnPage)
=============================================================================
