------------------------------ MODULE TopView ------------------------------
(***************************************************************************)
(* The table of "openrtc top": the rows of a snapshot are filtered, sorted *)
(* and cut into pages; keys cycle through the columns and the filters.     *)
(*                                                                         *)
(* A row is a function of the columns it has; columns hold numbers, which  *)
(* stand for names by their order.  A column a row lacks counts as 0.      *)
(***************************************************************************)
EXTENDS Integers, Sequences, FiniteSets, SequencesExt

SortKeys == <<"mem_mb", "cpu_pct", "duration_s", "agent_name", "session_id">>
StatusFilters == <<"all", "active", "slow", "draining", "errored">>
Numeric == {"mem_mb", "peak_mb", "cpu_pct", "duration_s"}

NextInCycle(current, cycle) ==
  IF current \notin ToSet(cycle) THEN cycle[1]
  ELSE cycle[(SelectInSeq(cycle, LAMBDA v : v = current) % Len(cycle)) + 1]

\* One keypress, upper or lower case, on the view [sort, status, quit].
ApplyKey(key, view) ==
  CASE key = "q" -> [view EXCEPT !.quit = TRUE]
    [] key = "s" -> [view EXCEPT !.sort = NextInCycle(@, SortKeys)]
    [] key = "f" -> [view EXCEPT !.status = NextInCycle(@, StatusFilters)]
    [] OTHER -> view

Column(row, key) == IF key \in DOMAIN row THEN row[key] ELSE 0

\* A row's place is after those that come before it; sorted() is stable, in reverse too.
FilterAndSort(rows, sort, status, agent, tenant) ==
  LET Passes(i) ==
        status \in {"all", rows[i].status} /\ agent \in {"", rows[i].agent} /\ tenant \in {"", rows[i].tenant}
      Comes(i, j) ==
        LET a == Column(rows[i].shows, sort)
            b == Column(rows[j].shows, sort)
        IN  IF a = b THEN i < j ELSE IF sort \in Numeric THEN a > b ELSE a < b
      shown == {i \in DOMAIN rows : Passes(i)}
  IN  [n \in 1 .. Cardinality(shown) |->
         CHOOSE i \in shown : Cardinality({j \in shown : Comes(j, i)}) = n - 1]

AtLeast(a, b) == IF a > b THEN a ELSE b
AtMost(a, b) == IF a < b THEN a ELSE b

\* Mutant: a last page that is not full is not counted.
PaginateFullPages(rows, page, size) ==
  IF size <= 0 THEN [rows |-> rows, page |-> 1, total |-> 1]
  ELSE LET total == AtLeast(1, Len(rows) \div size)
           at == AtLeast(1, AtMost(page, total))
       IN  [rows |-> SubSeq(rows, (at - 1) * size + 1, AtMost(at * size, Len(rows))), page |-> at, total |-> total]

\* One page of the rows; no size means one page for all, and the page is clamped.
Paginate(rows, page, size) ==
  IF size <= 0 THEN [rows |-> rows, page |-> 1, total |-> 1]
  ELSE LET total == AtLeast(1, (Len(rows) + size - 1) \div size)
           at == AtLeast(1, AtMost(page, total))
       IN  [rows |-> SubSeq(rows, (at - 1) * size + 1, AtMost(at * size, Len(rows))), page |-> at, total |-> total]

\* The slot shown beside each row of a page, numbered through from page to page.
Slots(rows, page, size) ==
  LET cut == Paginate(rows, page, size)
  IN  [i \in DOMAIN cut.rows |-> (cut.page - 1) * AtLeast(size, 0) + i]
=============================================================================
