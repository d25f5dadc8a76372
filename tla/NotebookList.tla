---------------------------- MODULE NotebookList ----------------------------
(***************************************************************************)
(* The list of notebooks: keyset pagination in the notebook service, and   *)
(* the portal's hook useNotebookList that collects the pages.              *)
(*                                                                         *)
(* A page is one SELECT over rows that other requests change between two   *)
(* pages.  The hook numbers its first-page requests, but "load more" is    *)
(* outside that numbering.  Its actions are the functions the hook returns *)
(* and the arrival of their responses; when the page calls them is         *)
(* HomePage's business.                                                    *)
(***************************************************************************)
EXTENDS Integers, Sequences, FiniteSets, SequencesExt

CONSTANTS Notebooks,  \* ids: their order is the order of the strings
          Limit,      \* PAGE_LIMIT
          MaxTime,    \* bound on the values of updated_at
          None

ASSUME ListAssumption ==
  /\ Notebooks \subseteq Nat /\ IsFiniteSet(Notebooks)
  /\ Limit \in Nat \ {0}
  /\ MaxTime \in Nat
  /\ None \notin Notebooks \union [at : 0 .. MaxTime, id : Notebooks]

VARIABLES rows,        \* table notebooks: deleted_at and updated_at
          items,       \* the hook's state
          nextCursor,
          loading,     \* initialLoading
          loadingMore,
          errorPhase,
          firstPage,   \* the request for the first page
          morePage,    \* the request of loadMore
          steady,      \* history: notebooks unchanged since the first page was read
          overlapped   \* history: a first page was shown while loadMore was under way

hook == <<items, nextCursor, loading, loadingMore, errorPhase>>
pages == <<firstPage, morePage>>
listVars == <<rows, hook, pages, steady, overlapped>>

Times == 0 .. MaxTime
NoPage == [items |-> <<>>, next |-> None]
NoRequest == [phase |-> "none", cursor |-> None, page |-> NoPage]

Listed == ToSet(items)
Live(n) == rows[n].status = "live"

\* The members of S as a sequence in which those that come first are Before, a
\* set of pairs, those that come later.
InOrder(S, Before) ==
  CHOOSE s \in [1 .. Cardinality(S) -> S] :
    \A i, j \in 1 .. Cardinality(S) : i < j => <<s[i], s[j]>> \in Before

-----------------------------------------------------------------------------
(* The service. *)

CursorOf(n) == [at |-> rows[n].at, id |-> n]

\* Mutants of Follows: the row of the cursor is included; its id is ignored.
FollowsOrIs(n, cursor) ==
  \/ cursor = None
  \/ rows[n].at < cursor.at
  \/ rows[n].at = cursor.at /\ n <= cursor.id

FollowsByTime(n, cursor) == cursor = None \/ rows[n].at < cursor.at

\* The WHERE condition of the cursor.
Follows(n, cursor) ==
  \/ cursor = None
  \/ rows[n].at < cursor.at
  \/ rows[n].at = cursor.at /\ n < cursor.id

\* ORDER BY updated_at DESC, id DESC: the second of each pair follows the first.
NewestFirst ==
  {p \in Notebooks \X Notebooks :
     \/ rows[p[2]].at < rows[p[1]].at
     \/ rows[p[2]].at = rows[p[1]].at /\ p[2] < p[1]}

\* Mutant of Page: deleted_at is not looked at.
PageWithDeleted(cursor) ==
  LET found == InOrder({n \in Notebooks : rows[n].status # "absent"
                                          /\ Follows(n, cursor)}, NewestFirst)
  IN IF Len(found) <= Limit
     THEN [items |-> found, next |-> None]
     ELSE [items |-> SubSeq(found, 1, Limit), next |-> CursorOf(found[Limit])]

\* list: one row more than the limit tells whether there is a next page.
Page(cursor) ==
  LET found == InOrder({n \in Notebooks : Live(n) /\ Follows(n, cursor)},
                       NewestFirst)
  IN IF Len(found) <= Limit
     THEN [items |-> found, next |-> None]
     ELSE [items |-> SubSeq(found, 1, Limit), next |-> CursorOf(found[Limit])]

\* A create or a save commits.  Its updated_at was taken when its request
\* began, so it may be older than what has been committed since.
Touch(n, at) ==
  /\ at >= rows[n].at
  /\ rows' = [rows EXCEPT ![n] = [status |-> "live", at |-> at]]
  /\ steady' = steady \ {n}

SoftDelete(n) ==
  /\ rows' = [rows EXCEPT ![n].status = "deleted"]
  /\ steady' = steady \ {n}

-----------------------------------------------------------------------------
(* The hook. *)

\* filter: what is left of sequence s without the members of dropped, in its order.
Without(s, dropped) ==
  LET kept == {i \in DOMAIN s : s[i] \notin dropped}
      order == InOrder(kept, {p \in kept \X kept : p[1] < p[2]})
  IN [j \in DOMAIN order |-> s[order[j]]]

ListInit ==
  /\ rows \in [Notebooks -> [status : {"absent", "live"}, at : Times]]
  /\ \A n \in Notebooks : Live(n) \/ rows[n].at = 0
  /\ items = <<>> /\ nextCursor = None
  /\ loading = TRUE /\ loadingMore = FALSE /\ errorPhase = "none"
  /\ firstPage = [NoRequest EXCEPT !.phase = "sent"]
  /\ morePage = NoRequest
  /\ steady = {} /\ overlapped = FALSE

\* The page is left: the state of the hook is dropped and what is under way
\* ignored.
Unmount ==
  /\ items' = <<>> /\ nextCursor' = None
  /\ loading' = FALSE /\ loadingMore' = FALSE /\ errorPhase' = "none"
  /\ firstPage' = NoRequest /\ morePage' = NoRequest
  /\ steady' = {} /\ overlapped' = FALSE
  /\ UNCHANGED rows

\* refresh: the request of the mount, if any, is aborted.
Refresh ==
  /\ loading' = TRUE
  /\ errorPhase' = "none"
  /\ firstPage' = [NoRequest EXCEPT !.phase = "sent"]
  /\ UNCHANGED <<rows, items, nextCursor, loadingMore, morePage, steady,
                 overlapped>>

ReadFirstPage ==
  /\ firstPage.phase = "sent"
  /\ firstPage' = [firstPage EXCEPT !.phase = "read", !.page = Page(None)]
  /\ steady' = {n \in Notebooks : Live(n)}
  /\ UNCHANGED <<rows, hook, morePage, overlapped>>

FirstPageArrives ==
  /\ firstPage.phase = "read"
  /\ items' = firstPage.page.items
  /\ nextCursor' = firstPage.page.next
  /\ loading' = FALSE
  /\ errorPhase' = "none"
  /\ firstPage' = NoRequest
  /\ overlapped' = loadingMore
  /\ UNCHANGED <<rows, loadingMore, morePage, steady>>

\* What was listed stays.
FirstPageFails ==
  /\ firstPage.phase = "sent"
  /\ loading' = FALSE
  /\ errorPhase' = "initial"
  /\ firstPage' = NoRequest
  /\ UNCHANGED <<rows, items, nextCursor, loadingMore, morePage, steady,
                 overlapped>>

LoadMore ==
  /\ ~ loadingMore /\ nextCursor # None
  /\ loadingMore' = TRUE
  /\ errorPhase' = "none"
  /\ morePage' = [NoRequest EXCEPT !.phase = "sent", !.cursor = nextCursor]
  /\ UNCHANGED <<rows, items, nextCursor, loading, firstPage, steady,
                 overlapped>>

ReadMore ==
  /\ morePage.phase = "sent"
  /\ morePage' = [morePage EXCEPT !.phase = "read", !.page = Page(morePage.cursor)]
  /\ UNCHANGED <<rows, hook, firstPage, steady, overlapped>>

\* Mutant of AppendUnique: without the defence against duplicates.
AppendAll(current, incoming) == current \o incoming

\* appendUnique.
AppendUnique(current, incoming) ==
  current \o Without(incoming, ToSet(current))

\* Whatever the list has become since the request.
MoreArrives ==
  /\ morePage.phase = "read"
  /\ items' = AppendUnique(items, morePage.page.items)
  /\ nextCursor' = morePage.page.next
  /\ loadingMore' = FALSE
  /\ morePage' = NoRequest
  /\ UNCHANGED <<rows, loading, errorPhase, firstPage, steady, overlapped>>

\* Cursors are those of the service, so INVALID_CURSOR is not among the
\* errors, and the cursor is kept.
MoreFails ==
  /\ morePage.phase = "sent"
  /\ errorPhase' = "loadMore"
  /\ loadingMore' = FALSE
  /\ morePage' = NoRequest
  /\ UNCHANGED <<rows, items, nextCursor, loading, firstPage, steady,
                 overlapped>>

\* removeItem: the cursor is kept.
RemoveItem(n) == items' = Without(items, {n})

ListStep ==
  \/ ReadFirstPage \/ FirstPageArrives \/ FirstPageFails
  \/ ReadMore \/ MoreArrives \/ MoreFails
=============================================================================
