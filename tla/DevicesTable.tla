---------------------------- MODULE DevicesTable ----------------------------
(***************************************************************************)
(* The device lists of the web pages (static/js/devices-table.js and the   *)
(* selection script of templates/admin-devices.html): columns the user     *)
(* hides, a filter, a sort, and on the admin page the rows selected for a  *)
(* bulk action.  The script's state lives in four places that change on    *)
(* their own: the DOM (replaced whole by every live swap), variables of    *)
(* the page, the inputs outside the swapped part, and localStorage (shared *)
(* by the user's tabs, and allowed to throw).                              *)
(***************************************************************************)
EXTENDS Naturals, FiniteSets, Sequences, Functions

CONSTANTS
    Names,      \* the tables: "devices", "admin-devices"
    Tabs,       \* Tabs[name]: tabs of the user that show it
    Rows,       \* Rows[name]: its devices in the order the server renders them
    Cols,       \* columns that can be hidden and sorted by
    DefaultOff, \* columns the server renders hidden
    Renders,    \* Renders[name]: the sort keys the server may render, a record
                \* [num, txt] per device, see NoKey and numeric
    Queries,    \* filters; Queries[q] is the set of devices whose text contains it
    Live,       \* the tables that live events replace
    Bulk,       \* the tables with a selection
    None        \* a model value: null

ASSUME TableAssumption ==
    /\ DefaultOff \subseteq Cols
    /\ \A n \in Names :
        /\ Rows[n] \in Seq(Range(Rows[n]))
        /\ Renders[n] \subseteq [Range(Rows[n]) -> [num : Nat, txt : Nat]]

NoKey == [num |-> 0, txt |-> 0]      \* the key ""
NotNumeric == 0                       \* num of a key that is not /^-?\d+$/

VARIABLES
    name,       \* the table under study
    page,       \* page[t]: None before it is loaded, else its table (present
                \* unless there are no devices) with the rows in DOM order, the
                \* sort keys, hidden columns and rows, the selection and its
                \* counter; the filter input (query); sortState and memoryOff;
                \* the boxes ticked in the column menu (None until it is built);
                \* and, for the properties, the columns last switched off (chosen)
    storage,    \* localStorage: None or the columns switched off
    broken      \* localStorage throws

tableVars == <<name, page, storage, broken>>

Ids == Range(Rows[name])
AllTabs == UNION {Tabs[n] : n \in Names}

-----------------------------------------------------------------------------
(* Columns *)

\* The choice kept in storage wins over the page's own.
storedOff_shared(mem) == IF storage # None /\ ~broken THEN storage ELSE mem

\* The page's own choice, else the stored one, else none.
storedOff(mem) == IF mem # None THEN mem ELSE IF broken THEN None ELSE storage

\* What localStorage holds once a choice is saved; it may throw.
saveOff(off) == IF broken THEN storage ELSE off

\* Without a choice the columns stay as they are.
applyColumns(p) == [p EXCEPT !.off = IF storedOff(p.mem) = None THEN @ ELSE storedOff(p.mem)]

\* The menu is built from the headings once and its boxes follow them.
syncMenu(p) == [p EXCEPT !.boxes = Cols \ p.off]

-----------------------------------------------------------------------------
(* Filter and selection *)

\* The selection is left alone by the filter.
applyFilter_keeps(p) == [p EXCEPT !.hidden = IF p.query = None THEN {} ELSE Ids \ Queries[p.query]]

\* Rows that do not match are hidden and unticked; each unticking recounts.
applyFilter(p) ==
    LET out == IF p.query = None THEN {} ELSE Ids \ Queries[p.query] IN
    [p EXCEPT !.hidden = out,
              !.checked = @ \ out,
              !.counter = IF p.checked \cap out = {} THEN @ ELSE Cardinality(p.checked \ out)]

-----------------------------------------------------------------------------
(* Sort *)

numeric(a, b) == a.num # NotNumeric /\ b.num # NotNumeric

Sign(x, y) == IF x < y THEN "lt" ELSE IF x > y THEN "gt" ELSE "eq"
Reverse3(c) == IF c = "lt" THEN "gt" ELSE IF c = "gt" THEN "lt" ELSE "eq"

\* Empty keys last in both directions; two numbers by value, anything else as text.
compare(a, b, dir) ==
    IF a = NoKey \/ b = NoKey
    THEN (IF a = b THEN "eq" ELSE IF a = NoKey THEN "gt" ELSE "lt")
    ELSE LET c == IF numeric(a, b) THEN Sign(a.num, b.num) ELSE Sign(a.txt, b.txt) IN
         IF dir = "desc" THEN Reverse3(c) ELSE c

\* cellKey: "seen" is the column the swaps change, the others follow the device.
cellKey(k, d, col) ==
    IF col = "seen" THEN k[d]
    ELSE [num |-> NotNumeric, txt |-> CHOOSE i \in DOMAIN Rows[name] : Rows[name][i] = d]

Before(k, s, d, e) == compare(cellKey(k, d, s.col), cellKey(k, e, s.col), s.dir) = "lt"

\* The comparator orders these rows: it has no cycle and ties are ties throughout.
Consistent(k, s) ==
    \A d, e, f \in Ids :
        /\ Before(k, s, d, e) /\ Before(k, s, e, f) => Before(k, s, d, f)
        /\ ~Before(k, s, d, e) /\ ~Before(k, s, e, f) => ~Before(k, s, d, f)

Pos(rows, d) == CHOOSE i \in DOMAIN rows : rows[i] = d

\* Array.prototype.sort is stable, and unspecified under a comparator that is
\* not consistent; the rows are appended in the order it leaves them.
applySort(p) ==
    LET after(q) == [p EXCEPT !.order = q]
        perms == Bijection(DOMAIN p.order, Range(p.order)) IN
    IF p.sort = None THEN {p}
    ELSE IF ~Consistent(p.keys, p.sort) THEN {after(q) : q \in perms}
    ELSE {after(q) : q \in {r \in perms :
            \A i, j \in DOMAIN r : i < j =>
                \/ Before(p.keys, p.sort, r[i], r[j])
                \/ ~Before(p.keys, p.sort, r[j], r[i]) /\ Pos(p.order, r[i]) < Pos(p.order, r[j])}}

\* apply(name): columns, menu, filter, sort; nothing without a table.
apply(p) == IF p.present THEN applySort(applyFilter(syncMenu(applyColumns(p)))) ELSE {p}

-----------------------------------------------------------------------------

TableInit ==
    /\ name \in Names
    /\ page = [t \in AllTabs |-> None]
    /\ storage = None
    /\ broken = FALSE

\* What the server renders: its own order and hidden columns, nothing selected.
Rendered(p, k, any) ==
    [p EXCEPT !.present = any, !.order = Rows[name], !.keys = k, !.off = DefaultOff,
              !.hidden = {}, !.checked = {}, !.counter = 0]

Blank == [present |-> FALSE, order |-> <<>>, keys |-> <<>>, off |-> {}, hidden |-> {}, checked |-> {},
          counter |-> 0, query |-> None, sort |-> None, mem |-> None, boxes |-> None, chosen |-> None]

\* boot: the page is loaded (or loaded again) and apply runs on what was rendered.
Boot(t, k, any) ==
    /\ \E p \in apply(Rendered(Blank, k, any)) : page' = [page EXCEPT ![t] = p]
    /\ UNCHANGED <<name, storage, broken>>

\* A live event replaces the table; htmx:before:settle runs apply before the paint.
Swap(t, k, any) ==
    /\ name \in Live /\ page[t] # None
    /\ \E p \in apply(Rendered(page[t], k, any)) : page' = [page EXCEPT ![t] = p]
    /\ UNCHANGED <<name, storage, broken>>

\* A click on a heading: ascending, or descending when it was ascending by it.
Click(t, col) ==
    /\ page[t] # None /\ page[t].present /\ col \notin page[t].off
    /\ \E p \in apply([page[t] EXCEPT !.sort =
                          [col |-> col, dir |-> IF @ = [col |-> col, dir |-> "asc"] THEN "desc" ELSE "asc"]]) :
          page' = [page EXCEPT ![t] = p]
    /\ UNCHANGED <<name, storage, broken>>

Input(t, q) ==
    /\ page[t] # None
    /\ \E p \in apply([page[t] EXCEPT !.query = q]) : page' = [page EXCEPT ![t] = p]
    /\ UNCHANGED <<name, storage, broken>>

\* A box of the column menu: every unticked box is saved, in the page and, if it
\* does not throw, in localStorage.  Without a table only the box changes.
Toggle(t, col) ==
    LET p == page[t]
        ticked == IF col \in p.boxes THEN p.boxes \ {col} ELSE p.boxes \cup {col} IN
    /\ p # None /\ p.boxes # None
    /\ IF p.present
       THEN /\ storage' = saveOff(Cols \ ticked)
            /\ \E q \in apply([p EXCEPT !.boxes = ticked, !.mem = Cols \ ticked, !.chosen = Cols \ ticked]) :
                  page' = [page EXCEPT ![t] = q]
       ELSE /\ page' = [page EXCEPT ![t].boxes = ticked]
            /\ UNCHANGED storage
    /\ UNCHANGED <<name, broken>>

\* The selection of the admin page, recounted by the handlers of its boxes.
Select(t, rows) ==
    /\ page' = [page EXCEPT ![t].checked = rows, ![t].counter = Cardinality(rows)]
    /\ UNCHANGED <<name, storage, broken>>

\* The user ticks or unticks a row he sees.
CheckRow(t, d) ==
    /\ name \in Bulk /\ page[t] # None /\ page[t].present /\ d \notin page[t].hidden
    /\ LET sel == page[t].checked IN Select(t, IF d \in sel THEN sel \ {d} ELSE sel \cup {d})

\* Select all, or none, of the rows that are shown.
SelectAll(t, on) ==
    /\ name \in Bulk /\ page[t] # None /\ page[t].present
    /\ Select(t, IF on THEN page[t].checked \cup (Ids \ page[t].hidden) ELSE page[t].checked \cap page[t].hidden)

StorageBreaks ==
    /\ broken' = ~broken
    /\ UNCHANGED <<name, page, storage>>

TableNext ==
    \/ \E t \in Tabs[name] :
          \/ \E k \in Renders[name], any \in BOOLEAN : Boot(t, k, any) \/ Swap(t, k, any)
          \/ \E c \in Cols : Click(t, c) \/ Toggle(t, c)
          \/ \E q \in DOMAIN Queries \cup {None} : Input(t, q)
          \/ \E d \in Ids : CheckRow(t, d)
          \/ \E on \in BOOLEAN : SelectAll(t, on)
    \/ StorageBreaks

TableSpec == TableInit /\ [][TableNext]_tableVars

-----------------------------------------------------------------------------
(* What must hold *)

Shown == {t \in Tabs[name] : page[t] # None /\ page[t].present}

\* A bulk action reaches only rows the user sees, and as many as the page says:
\* no filtered-out row stays selected and the counter is the selection's size.
SelectionIsShown ==
    \A t \in Shown : page[t].checked \cap page[t].hidden = {} /\ page[t].counter = Cardinality(page[t].checked)

\* A page shows what its user last chose, whatever swaps, storage failures and
\* other tabs do in between: the columns left switched off are the hidden ones
\* and the menu says so; the rows stay in the order of the heading last clicked,
\* empty cells last, whenever the comparator orders them at all.
ViewFollowsChoice ==
    \A t \in Shown :
        LET p == page[t]
            key(i) == cellKey(p.keys, p.order[i], p.sort.col) IN
        /\ p.chosen # None => p.off = p.chosen
        /\ p.boxes = Cols \ p.off
        /\ p.sort # None /\ Consistent(p.keys, p.sort) =>
            \A i, j \in DOMAIN p.order : i < j =>
                /\ ~Before(p.keys, p.sort, p.order[j], p.order[i])
                /\ key(i) = NoKey => key(j) = NoKey
=============================================================================
