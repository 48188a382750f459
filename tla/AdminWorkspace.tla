--------------------------- MODULE AdminWorkspace ---------------------------
(***************************************************************************)
(* The staff's workspace, Workspace of frontend/src/admin/AdminApp.tsx: the*)
(* list of cases with its filter and pages, the case that is open, and the *)
(* operations on it.  Requests are awaited while the page goes on and may  *)
(* be answered in any order or fail; two counters tell which answers still *)
(* count.  The cases do not change meanwhile: what the page shows of one   *)
(* that does is the matter of StaffPage.                                   *)
(***************************************************************************)
EXTENDS Naturals, FiniteSets

CONSTANTS
  Cases,       \* a set of numbers: their order of creation
  Filters,     \* the values of the status filter
  Received,    \* the one a workspace starts with
  Shows,       \* Shows[f]: the cases with a status the filter f shows
  PageSize,    \* limit of a page of the list
  None,
  MaxWaiting   \* bound: requests awaited at once

WorkspaceAssumption ==
  /\ Cases \subseteq Nat /\ IsFiniteSet(Cases)
  /\ Shows \in [Filters -> SUBSET Cases]
  /\ Received \in Filters
  /\ PageSize \in Nat \ {0} /\ None \notin Cases

VARIABLES
  view,      \* "cases" or "accounts"
  status,    \* the filter
  items, nextCursor,   \* the list as loaded, and where it goes on
  selectedId, bundle,  \* the case that is open, and what has been loaded of it
  busy, loading, error,
  wire       \* requests awaited; turn: the answer still counts

vars == <<view, status, items, nextCursor, selectedId, bundle, busy, loading, error, wire>>

list == <<items, nextCursor>>
detail == <<selectedId, bundle>>

---------------------------------------------------------------------------
(* Requests.                                                               *)

\* Another request of the kind makes the answers of the earlier ones count no more.
Superseded(kind) == {IF r.kind = kind THEN [r EXCEPT !.turn = FALSE] ELSE r : r \in wire}

ListOf(f, cursor) == [kind |-> "list", turn |-> TRUE, status |-> f, cursor |-> cursor]
DetailOf(c, reload) == [kind |-> "detail", turn |-> TRUE, case |-> c, reload |-> reload]

\* The controls of the work area.
Enabled == ~busy /\ Cardinality(wire) < MaxWaiting

\* loadCases
LoadCases(f, cursor, requests) ==
  /\ wire' = requests \cup {ListOf(f, cursor)}
  /\ loading' = TRUE /\ error' = FALSE

\* loadCase, from a click.
LoadCase(c, reload) ==
  /\ selectedId' = c /\ bundle' = None
  /\ wire' = Superseded("detail") \cup {DetailOf(c, reload)}
  /\ loading' = TRUE /\ error' = FALSE

\* The effect on mount loads the list.
Init ==
  /\ view = "cases" /\ status = Received
  /\ items = {} /\ nextCursor = None
  /\ selectedId = None /\ bundle = None
  /\ busy = FALSE /\ loading = TRUE /\ error = FALSE
  /\ wire = {ListOf(Received, None)}

---------------------------------------------------------------------------
(* The user.                                                               *)

ListShown == view = "cases" /\ selectedId = None

RefreshList ==
  /\ Enabled /\ ListShown /\ ~loading
  /\ LoadCases(status, None, Superseded("list"))
  /\ UNCHANGED <<view, status, list, detail, busy>>

LoadMore ==
  /\ Enabled /\ ListShown /\ ~loading /\ nextCursor # None
  /\ LoadCases(status, nextCursor, Superseded("list"))
  /\ UNCHANGED <<view, status, list, detail, busy>>

\* The list is emptied and, by the effect on status, loaded anew; the cursor stays.
ChooseFilter(f) ==
  /\ Enabled /\ ListShown /\ f # status
  /\ status' = f
  /\ items' = {}
  /\ LoadCases(f, None, Superseded("list"))
  /\ UNCHANGED <<view, nextCursor, detail, busy>>

OpenCase(c) ==
  /\ Enabled /\ ListShown /\ c \in items
  /\ LoadCase(c, FALSE)
  /\ UNCHANGED <<view, status, list, busy>>

ReloadCase ==
  /\ Enabled /\ selectedId # None /\ view = "cases" /\ ~loading
  /\ LoadCase(selectedId, FALSE)
  /\ UNCHANGED <<view, status, list, busy>>

\* The button beside an error, outside the work area.
ReadAgain ==
  /\ error /\ Cardinality(wire) < MaxWaiting
  /\ IF selectedId # None
     THEN LoadCase(selectedId, FALSE)
     ELSE LoadCases(status, None, Superseded("list")) /\ UNCHANGED detail
  /\ UNCHANGED <<view, status, list, busy>>

\* closeDetail, from the work area or from the navigation beside it, which works
\* during an operation too.  The effect on view and selectedId loads the list.
Close(v) ==
  /\ Cardinality(wire) < MaxWaiting
  /\ view' = v
  /\ selectedId' = None /\ bundle' = None
  /\ IF v = "cases" /\ ~ListShown
     THEN LoadCases(status, None,
                    {[r EXCEPT !.turn = @ /\ r.kind = "operation"] : r \in wire})
     ELSE wire' = Superseded("detail") /\ error' = FALSE /\ UNCHANGED loading
  /\ UNCHANGED <<status, list, busy>>

\* run: any operation of a panel.
Operate ==
  /\ Enabled /\ view = "cases" /\ bundle # None
  /\ busy' = TRUE /\ error' = FALSE
  /\ wire' = wire \cup {[kind |-> "operation", turn |-> TRUE, case |-> selectedId]}
  /\ UNCHANGED <<view, status, list, detail, loading>>

---------------------------------------------------------------------------
(* Answers.                                                                *)

\* _page: the cases of the filter after the cursor, which must be one of them.
After(f, cursor) == {c \in Shows[f] : cursor = None \/ c > cursor}
PageOf(rows) == {c \in rows : Cardinality({d \in rows : d < c}) < PageSize}
CursorOf(rows) ==
  IF Cardinality(rows) <= PageSize THEN None
  ELSE CHOOSE c \in PageOf(rows) : \A d \in PageOf(rows) : d <= c

\* Slip: every answer counts.
AnyCounts(r) == TRUE

\* alive, and the turn that the request was given.
Counts(r) == r.turn

\* An answer that counts clears the flag that both kinds of request share.
Ended(r) == loading' = IF Counts(r) THEN FALSE ELSE loading

ListArrives(r) ==
  /\ r.kind = "list"
  /\ LET rows == After(r.status, r.cursor) IN
     /\ r.cursor = None \/ r.cursor \in Shows[r.status]
     /\ IF Counts(r)
        THEN /\ items' = (IF r.cursor = None THEN {} ELSE items) \cup PageOf(rows)
             /\ nextCursor' = CursorOf(rows)
        ELSE UNCHANGED list
  /\ Ended(r)
  /\ wire' = wire \ {r}
  /\ UNCHANGED <<view, status, detail, busy, error>>

\* The network, or the server, refuses: an unknown cursor is refused always.
ListFails(r) ==
  /\ r.kind = "list"
  /\ error' = (error \/ Counts(r))
  /\ Ended(r)
  /\ wire' = wire \ {r}
  /\ UNCHANGED <<view, status, list, detail, busy>>

\* Slip: an operation that could not read its case again leaves the area disabled.
StillBusy(r, ok) == busy /\ ~(r.reload /\ ok)

\* run awaits the case that it reads again, whether its answer counts or not.
BusyAfter(r, ok) == busy /\ ~r.reload

DetailArrives(r) ==
  /\ r.kind = "detail"
  /\ bundle' = IF Counts(r) THEN r.case ELSE bundle
  /\ busy' = BusyAfter(r, TRUE)
  /\ Ended(r)
  /\ wire' = wire \ {r}
  /\ UNCHANGED <<view, status, list, selectedId, error>>

DetailFails(r) ==
  /\ r.kind = "detail"
  /\ error' = (error \/ Counts(r))
  /\ busy' = BusyAfter(r, FALSE)
  /\ Ended(r)
  /\ wire' = wire \ {r}
  /\ UNCHANGED <<view, status, list, detail>>

\* The operation is done: run reads the case again that was open when it began.
OperationDone(r) ==
  /\ r.kind = "operation"
  /\ selectedId' = r.case /\ bundle' = None
  /\ wire' = (Superseded("detail") \ {r}) \cup {DetailOf(r.case, TRUE)}
  /\ loading' = TRUE /\ error' = FALSE
  /\ UNCHANGED <<view, status, list, busy>>

OperationFails(r) ==
  /\ r.kind = "operation"
  /\ busy' = FALSE /\ error' = TRUE
  /\ wire' = wire \ {r}
  /\ UNCHANGED <<view, status, list, detail, loading>>

---------------------------------------------------------------------------
Answer ==
  \E r \in wire : \/ ListArrives(r) \/ ListFails(r)
                  \/ DetailArrives(r) \/ DetailFails(r)
                  \/ OperationDone(r) \/ OperationFails(r)

Next ==
  \/ RefreshList \/ LoadMore \/ ReloadCase \/ ReadAgain \/ Operate
  \/ \E f \in Filters : ChooseFilter(f)
  \/ \E c \in Cases : OpenCase(c)
  \/ \E v \in {"cases", "accounts"} : Close(v)
  \/ Answer

\* The requests of an operation are settled some day: fetch succeeds or fails.
OperationSettles == \E r \in wire : OperationDone(r) \/ OperationFails(r)
Reloads == \E r \in wire : r.kind = "detail" /\ r.reload /\ (DetailArrives(r) \/ DetailFails(r))

Spec ==
  /\ Init /\ [][Next]_vars
  /\ WF_vars(OperationSettles) /\ WF_vars(Reloads)

---------------------------------------------------------------------------
(* Properties.                                                             *)

\* One operation at a time; whatever is shown of a case belongs to an open one.
WorkspaceTypeOK ==
  /\ items \subseteq Cases /\ nextCursor \in Cases \cup {None}
  /\ selectedId \in Cases \cup {None}
  /\ bundle # None => selectedId # None
  /\ busy = (\E r \in wire : r.kind = "operation" \/ (r.kind = "detail" /\ r.reload))
  /\ Cardinality({r \in wire : r.kind # "operation" /\ r.turn}) <= 2

\* The case on the page is the one that is open, in whatever order it was opened,
\* closed and read again: its operations go to the case the staff looks at.
BundleIsSelected == bundle # None => bundle = selectedId

\* The list holds cases of the filter beside it only.
ItemsMatchFilter == items \subseteq Shows[status]

\* The work area is disabled during an operation and is enabled again after it,
\* though the case was closed or could not be read again.
WorkAreaReturns == busy ~> ~busy
=============================================================================
