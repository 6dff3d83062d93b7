------------------------------- MODULE Lists -------------------------------
(***************************************************************************)
(* The list screens of the web app: the roster of students, the batches and *)
(* the staff directory.  A list is what the address filters by; a table     *)
(* sorts it and shows one page; a search box waits for a pause before it    *)
(* changes the address; rows are selected, archived and restored; and the   *)
(* search of the top bar leads to a list.                                   *)
(*                                                                         *)
(* Rows are numbered in the order of their codes and names.  An effect runs *)
(* after the screen has changed, and another event may come before it: each *)
(* effect is an action.  All filters but the status are one, and a search   *)
(* is a word that is found in some rows.  Who may do what, and whom the      *)
(* store keeps as administrator, is in StoreRoles; one campus is shown.     *)
(* Op_Fault is Op with one fault, to show that a property depends on Op.   *)
(***************************************************************************)
EXTENDS Integers, Sequences, FiniteSets
LOCAL INSTANCE SequencesExt
LOCAL INSTANCE FiniteSetsExt
LOCAL INSTANCE Functions

CONSTANTS
  Screen,                  \* "students", "batches" or "staff"
  Row,                     \* who may be on file, numbers from 1
  Word, matches,           \* what may be typed, and the rows each word is in
  Group, group,            \* what the other select boxes tell apart
  Usual,                   \* the statuses that occur, beside those of archived rows
  Sizes, FirstSize,        \* rows per page, one of them at first
  Columns,                 \* columns to sort by: "code", the name's or the code's, and "status"
  MaxResults,              \* results of the search in the top bar
  MaxChanges, MaxToasts    \* bounds

VARIABLES
  status,                  \* of each row; "" is not on file yet, "gone" no longer
  address,                 \* what the list is filtered by, and who is highlighted
  field,                   \* the search box: its text, the text paused on, and
                           \* the address it follows
  table,                   \* the table's order, page, page size and the list's length it saw
  selected, asked,         \* the rows selected, and the one about to be archived
  toasts,                  \* the statuses that Undo buttons restore
  box,                     \* the search in the top bar
  changes                  \* bound: changes of a status

vars == <<status, address, field, table, selected, asked, toasts, box, changes>>

-----------------------------------------------------------------------------
(* Filters. *)
Archived == [students |-> "Inactive", batches |-> "Archived", staff |-> "Inactive"][Screen]
Default == [students |-> "current", batches |-> "Active", staff |-> ""][Screen]
All == [students |-> "all", batches |-> "all", staff |-> ""][Screen]
Status == Usual \cup {Archived}
OnFile == {r \in Row : status[r] \notin {"", "gone"}}

DEFAULTS == [q |-> "", status |-> Default, group |-> "", staff |-> 0]

matchesStatus(r, chosen) ==
  \/ chosen = All
  \/ chosen = "current" /\ status[r] # "Inactive"
  \/ chosen = status[r]

matchesQuery(q, r) == q = "" \/ r \in matches[q]

isFiltered == [address EXCEPT !.staff = 0] # DEFAULTS

(* The highlighted member stays visible whatever the filters.               *)
Filtered ==
  {r \in OnFile :
     \/ r = address.staff
     \/ /\ matchesStatus(r, address.status)
        /\ address.group \in {"", group[r]}
        /\ matchesQuery(address.q, r)}

Summary ==
  {r \in OnFile :
     \/ Screen = "students" /\ status[r] # "Inactive"
     \/ Screen = "batches" /\ status[r] = "Active"
     \/ Screen = "staff"}

(* What an empty list says. *)
Empty ==
  IF isFiltered THEN "no match"
  ELSE IF OnFile = {} THEN "first run"
  ELSE IF Screen = "batches" THEN "none active" ELSE "none"

-----------------------------------------------------------------------------
(* The order of the rows: the store's, or that of the codes; in the staff   *)
(* directory by status and name, the highlighted member first.              *)
STATUS_ORDER == [s \in {"Active", "Invited", "Inactive"} |-> CASE s = "Active" -> 0 [] s = "Invited" -> 1 [] OTHER -> 2]

Earlier(x, y) == \E i \in DOMAIN x : x[i] < y[i] /\ \A j \in 1..(i - 1) : x[j] = y[j]
RowRank(r) ==
  IF Screen = "staff" THEN <<IF r = address.staff THEN 0 ELSE 1, STATUS_ORDER[status[r]], r>> ELSE <<r>>

(* The table's: by a column, as letters sort; rows alike stay as they were. *)
Alphabetical ==
  [s \in {"Active", "Archived", "Inactive", "Invited", "On Leave", "Upcoming"} |->
     CASE s = "Active" -> 1 [] s = "Archived" -> 2 [] s = "Inactive" -> 3
       [] s = "Invited" -> 4 [] s = "On Leave" -> 5 [] OTHER -> 6]
SortRank(r) ==
  IF table.key = "none" THEN RowRank(r)
  ELSE <<table.dir * (IF table.key = "code" THEN r ELSE Alphabetical[status[r]])>> \o RowRank(r)
Sorted == SetToSortSeq(Filtered, LAMBDA r, s : Earlier(SortRank(r), SortRank(s)))

InitialSort == IF Screen = "staff" THEN "none" ELSE "code"
NewTable ==
  [key |-> InitialSort, dir |-> 1, page |-> 1, size |-> FirstSize, seen |-> <<Cardinality(Filtered), FirstSize>>]

PageCount == Max({1, (Cardinality(Filtered) + table.size - 1) \div table.size})
CurrentPage_Unbounded == table.page
CurrentPage == Min({table.page, PageCount})
(* The buttons: all pages when few, else the ends and the current one's own. *)
PageList(n, count) ==
  IF count <= 7 THEN 1..count
  ELSE {1, 2, count} \cup (((n - 1)..(n + 1)) \cap (1..count)) \cup (IF n <= 3 THEN {3, 4} ELSE {})
PageItems(n) == SubSeq(Sorted, (n - 1) * table.size + 1, Min({n * table.size, Len(Sorted)}))
Visible == PageItems(CurrentPage)

AllSelected == Filtered # {} /\ Filtered \subseteq selected
SelectedRows == Filtered \cap selected

(* The search in the top bar finds members whatever the list shows.         *)
Results ==
  LET found == SetToSortSeq({r \in OnFile : box.sought # "" /\ matchesQuery(box.sought, r)}, <)
  IN SubSeq(found, 1, Min({MaxResults, Len(found)}))

-----------------------------------------------------------------------------
NewField == [text |-> address.q, paused |-> address.q, waits |-> FALSE, follows |-> address.q]
NoBox == [typed |-> "", sought |-> "", active |-> 0]

Init ==
  /\ status \in [Row -> Usual \cup {""}]
  /\ address = DEFAULTS
  /\ field = NewField
  /\ table = NewTable
  /\ selected = {} /\ asked = <<>> /\ toasts = {} /\ box = NoBox /\ changes = 0

(* Typing restarts the pause; when it is over the address takes the text,  *)
(* if the text is another than the one paused on before; and the box shows  *)
(* whatever else the address becomes.                                       *)
Type(q) ==
  /\ q # field.text
  /\ field' = [field EXCEPT !.text = q, !.waits = TRUE]
  /\ UNCHANGED <<status, address, table, selected, asked, toasts, box, changes>>
PauseEnds ==
  /\ field.waits
  /\ field' = [field EXCEPT !.paused = field.text, !.waits = FALSE]
  /\ address' = IF field.text # field.paused THEN [address EXCEPT !.q = field.text] ELSE address
  /\ UNCHANGED <<status, table, selected, asked, toasts, box, changes>>
FollowAddress ==
  /\ field.follows # address.q
  /\ field' = [text |-> address.q, paused |-> field.paused, follows |-> address.q,
               waits |-> field.waits \/ field.text # address.q]
  /\ UNCHANGED <<status, address, table, selected, asked, toasts, box, changes>>

SetFilter(name, value) ==
  /\ address[name] # value
  /\ address' = [address EXCEPT ![name] = value]
  /\ UNCHANGED <<status, field, table, selected, asked, toasts, box, changes>>
Reset ==
  /\ isFiltered
  /\ address' = [DEFAULTS EXCEPT !.staff = address.staff]
  /\ UNCHANGED <<status, field, table, selected, asked, toasts, box, changes>>
ClearHighlight == address.staff # 0 /\ SetFilter("staff", 0)

(* A list of another length is shown from its first page. *)
FollowLength ==
  /\ table.seen # <<Cardinality(Filtered), table.size>>
  /\ table' = [table EXCEPT !.page = 1, !.seen = <<Cardinality(Filtered), table.size>>]
  /\ UNCHANGED <<status, address, field, selected, asked, toasts, box, changes>>
SetPage(n) ==
  /\ PageCount > 1 /\ n # CurrentPage
  /\ n \in PageList(CurrentPage, PageCount) \cup (((CurrentPage - 1)..(CurrentPage + 1)) \cap (1..PageCount))
  /\ table' = [table EXCEPT !.page = n]
  /\ UNCHANGED <<status, address, field, selected, asked, toasts, box, changes>>
SetPageSize(n) ==
  /\ Filtered # {} /\ n # table.size
  /\ table' = [table EXCEPT !.size = n]
  /\ UNCHANGED <<status, address, field, selected, asked, toasts, box, changes>>
ToggleSort(key) ==
  /\ Filtered # {}
  /\ table' = [table EXCEPT !.key = key, !.dir = IF table.key = key THEN 0 - table.dir ELSE 1]
  /\ UNCHANGED <<status, address, field, selected, asked, toasts, box, changes>>

(* Another tab of the page, and back: the table and the box are new.        *)
ChangeView ==
  /\ field' = IF Screen = "batches" THEN field ELSE NewField
  /\ table' = NewTable
  /\ UNCHANGED <<status, address, selected, asked, toasts, box, changes>>

(* Another page, and back by its link or by the browser.                    *)
Return(to) ==
  /\ to \in {address, DEFAULTS} /\ address' = to
  /\ field' = NewField'
  /\ table' = NewTable'
  /\ selected' = {} /\ asked' = <<>>
Leave(to) == UNCHANGED <<status, toasts, box, changes>> /\ Return(to)

-----------------------------------------------------------------------------
(* Selecting and archiving.  A dialog keeps the rest of the page away.      *)
Toggle(r) ==
  /\ r \in Range(Visible)
  /\ selected' = IF r \in selected THEN selected \ {r} ELSE selected \cup {r}
  /\ UNCHANGED <<status, address, field, table, asked, toasts, box, changes>>
ToggleAll ==
  /\ Filtered # {}
  /\ selected' = IF AllSelected THEN selected \ Filtered ELSE selected \cup Filtered
  /\ UNCHANGED <<status, address, field, table, asked, toasts, box, changes>>
Clear ==
  /\ selected # {} /\ selected' = {}
  /\ UNCHANGED <<status, address, field, table, asked, toasts, box, changes>>

(* The store may refuse what would leave no administrator or a batch without *)
(* its teacher.                                                             *)
Store(new) == status' = new \/ (Screen = "staff" /\ UNCHANGED status)
Change == changes < MaxChanges /\ changes' = changes + 1
setStatus(S, new) == Change /\ Store([r \in Row |-> IF r \in S \cap OnFile THEN new ELSE status[r]])
Show(toast) == Cardinality(toasts) < MaxToasts /\ toasts' = toasts \cup {toast}

(* The bar archives every row selected, those filtered out since included.  *)
ArchiveSelected ==
  /\ selected # {} /\ selected' = {}
  /\ setStatus(selected, "Inactive")
  /\ UNCHANGED <<address, field, table, asked, toasts, box>>

(* The dialog, to archive or to remove, holds the row as it was when opened. *)
Ask(r) ==
  /\ Screen \in {"students", "staff"} /\ r \in Range(Visible)
  /\ asked' = <<r, status[r]>>
  /\ UNCHANGED <<status, address, field, table, selected, toasts, box, changes>>
Cancel ==
  /\ asked # <<>> /\ asked' = <<>>
  /\ UNCHANGED <<status, address, field, table, selected, toasts, box, changes>>
Archive ==
  /\ Screen = "students" /\ asked # <<>> /\ asked' = <<>>
  /\ setStatus({asked[1]}, "Inactive")
  /\ Show(asked)
  /\ UNCHANGED <<address, field, table, selected, box>>
RemoveStaff ==
  /\ Screen = "staff" /\ asked # <<>> /\ asked' = <<>>
  /\ Change /\ Store([status EXCEPT ![asked[1]] = "gone"])
  /\ address' = IF status' # status /\ asked[1] = address.staff THEN [address EXCEPT !.staff = 0] ELSE address
  /\ UNCHANGED <<field, table, selected, toasts, box>>

(* A member's menu; a form that edits a row or adds one; and the page of a   *)
(* student or of a batch, from which the browser returns.                   *)
MenuStatus(r) ==
  /\ Screen = "staff" /\ r \in Range(Visible)
  /\ setStatus({r}, IF status[r] = "Inactive" THEN "Active" ELSE "Inactive")
  /\ Show(<<r, status[r]>>)
  /\ UNCHANGED <<address, field, table, selected, asked, box>>
Edit(r, new) ==
  /\ Screen \in {"students", "staff"} /\ r \in Range(Visible) /\ new \notin {status[r], "Invited"}
  /\ setStatus({r}, new)
  /\ UNCHANGED <<address, field, table, selected, asked, toasts, box>>
Add(r) ==
  /\ status[r] = "" /\ Change
  /\ \E new \in (IF Screen = "staff" THEN {"Invited"} ELSE Status) : status' = [status EXCEPT ![r] = new]
  /\ UNCHANGED <<address, field, table, selected, asked, toasts, box>>
ItsPage(r, new, to) ==
  /\ Screen \in {"students", "batches"} /\ r \in OnFile /\ new # status[r]
  /\ setStatus({r}, new)
  /\ \/ UNCHANGED toasts
     \/ (Screen = "students" \/ new = "Archived") /\ Show(<<r, status[r]>>)
  /\ Return(to)
  /\ UNCHANGED box
Undo(toast) ==
  /\ toasts' = toasts \ {toast}
  /\ Store([status EXCEPT ![toast[1]] = IF @ = "gone" THEN "gone" ELSE toast[2]])
  /\ UNCHANGED <<address, field, table, selected, asked, box, changes>>
ToastExpires(toast) ==
  /\ toasts' = toasts \ {toast}
  /\ UNCHANGED <<status, address, field, table, selected, asked, box, changes>>

-----------------------------------------------------------------------------
(* The search in the top bar: a pause after typing, arrows, Enter.          *)
TypeInBox(q) ==
  /\ q # box.typed
  /\ box' = [box EXCEPT !.typed = q]
  /\ UNCHANGED <<status, address, field, table, selected, asked, toasts, changes>>
BoxPauses ==
  /\ box.sought # box.typed
  /\ box' = [box EXCEPT !.sought = box.typed, !.active = 0]
  /\ UNCHANGED <<status, address, field, table, selected, asked, toasts, changes>>
Arrow(up) ==
  /\ box.typed # ""
  /\ box' = [box EXCEPT !.active = IF up THEN Max({0, box.active - 1}) ELSE Min({Len(Results) - 1, box.active + 1})]
  /\ UNCHANGED <<status, address, field, table, selected, asked, toasts, changes>>
Enter ==
  /\ box.active + 1 \in DOMAIN Results
  /\ address' = [DEFAULTS EXCEPT !.staff = Results[box.active + 1]]
  /\ box' = [box EXCEPT !.typed = ""]
  /\ UNCHANGED <<status, field, table, selected, asked, toasts, changes>>

Filtering ==
  \/ \E q \in Word \cup {""} : Type(q)
  \/ Reset \/ ClearHighlight
  \/ \E s \in Status \cup {Default, All} : SetFilter("status", s)
  \/ \E g \in Group \cup {""} : SetFilter("group", g)
Paging ==
  \/ \E n \in 1..Cardinality(Row) : SetPage(n)
  \/ \E n \in Sizes : SetPageSize(n)
  \/ \E key \in Columns : ToggleSort(key)
Selecting == Screen = "students" /\ (ToggleAll \/ Clear \/ ArchiveSelected \/ \E r \in Row : Toggle(r))
Changing ==
  \/ \E r \in Row : Ask(r) \/ MenuStatus(r) \/ Add(r)
  \/ \E r \in Row, new \in Status : Edit(r, new) \/ \E to \in {address, DEFAULTS} : ItsPage(r, new, to)
Searching ==
  \/ \E q \in Word \cup {""} : TypeInBox(q)
  \/ Enter \/ \E up \in BOOLEAN : Arrow(up)

Next ==
  \/ asked = <<>> /\ (Filtering \/ Paging \/ Selecting \/ Changing \/ ChangeView \/ (Screen = "staff" /\ Searching))
  \/ Cancel \/ Archive \/ RemoveStaff
  \/ \E to \in {address, DEFAULTS} : Leave(to)
  \/ PauseEnds \/ FollowAddress \/ FollowLength \/ BoxPauses
  \/ \E toast \in toasts : Undo(toast) \/ ToastExpires(toast)

Spec == Init /\ [][Next]_vars

-----------------------------------------------------------------------------
(* Types. *)
TypeOK ==
  /\ status \in [Row -> Status \cup {"", "gone"}]
  /\ address \in [q : Word \cup {""}, status : Status \cup {Default, All}, group : Group \cup {""}, staff : Row \cup {0}]
  /\ field \in [text : Word \cup {""}, paused : Word \cup {""}, waits : BOOLEAN, follows : Word \cup {""}]
  /\ table \in [key : {InitialSort} \cup Columns, dir : {-1, 1}, page : 1..Cardinality(Row),
                 size : Sizes \cup {FirstSize}, seen : (0..Cardinality(Row)) \X (Sizes \cup {FirstSize})]
  /\ selected \subseteq Row /\ asked \in {<<>>} \cup (Row \X Status) /\ toasts \subseteq Row \X Status
  /\ box \in [typed : Word \cup {""}, sought : Word \cup {""}, active : -1..MaxResults]
  /\ changes \in 0..MaxChanges

(* Every row of the list is on one page only, whatever page, size and order  *)
(* the table was left with (usePagination, DataTable.tsx).                  *)
EachRowOnOnePage ==
  \A r \in Filtered : Cardinality({n \in 1..PageCount : r \in Range(PageItems(n))}) = 1

(* A list that has shrunk, or whose filters changed, never shows a page past *)
(* its end, even before the effect that returns to the first page.          *)
NoPageIsEmpty == Filtered # {} => Visible # <<>>

(* Without a filter the list is what its tab counts, and a screen that says  *)
(* nothing is on file has nothing to count.                                 *)
CountsAgree ==
  /\ ~isFiltered => Filtered = Summary
  /\ Filtered = {} /\ Empty # "no match" => Summary = {}

(* The member the top bar's search led to is first until the table is sorted *)
(* (useStaffDirectory.ts).                                                  *)
HighlightedFirst ==
  table.key = "none" /\ address.staff \in OnFile => Sorted[1] = address.staff

(* When no pause is waited for, the box shows the search of the list, or the *)
(* text it paused on last (DebouncedSearch.tsx).                            *)
SearchSettles ==
  ~field.waits /\ field.follows = address.q => field.text \in {address.q, field.paused}

ListsAgree == EachRowOnOnePage /\ NoPageIsEmpty /\ CountsAgree /\ HighlightedFirst /\ SearchSettles
=============================================================================
