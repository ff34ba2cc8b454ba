-------------------------------- MODULE Queries --------------------------------
(***************************************************************************)
(* SELECT, and the scan that UPDATE and DELETE share with it: the plan     *)
(* SeqScan, Filter, Projection, Limit that PlanSelect builds and Optimize  *)
(* leaves as it is, pulled row by row.  ORDER BY, GROUP BY, HAVING,        *)
(* DISTINCT and joins are parsed and bound and no plan contains them.      *)
(*                                                                         *)
(* A scan holds the latch of its page between two rows, so that nothing    *)
(* changes under it; the sheet is the live rows in the order of the slots, *)
(* and each row is the value of its column x.  What a clause means is the  *)
(* business of Conditions; here any predicate does.                        *)
(***************************************************************************)
EXTENDS Values, SequencesExt

\* The predicate that Parser and Binder make of a clause, NoExpr if it is lost on the
\* way, and BoundExpression::Evaluate
CONSTANTS PredicateOf(_), ValueOn(_, _)

CONSTANTS Sheets,        \* contents of the table
          Clauses,       \* conditions, as parse trees; NoExpr where there is none
          Numbers,       \* numbers in the table and in clauses
          Limits,        \* values of LIMIT; -1 where there is none
          Offsets        \* values of OFFSET

ASSUME SheetsAssumption == Sheets \subseteq Seq({Null} \cup {Number(n) : n \in Numbers})
ASSUME NumbersAssumption == Numbers \subseteq Int /\ Limits \subseteq Int /\ Offsets \subseteq Int

VARIABLES sheet, query,
          exec           \* plan and counters of the executors, and the rows returned

query_vars == <<sheet, query, exec>>

NoPlan == [at |-> "idle", predicate |-> NoExpr,
           pos |-> 1, skipped |-> 0, returned |-> 0, out |-> <<>>]

QueriesInit ==
    /\ sheet \in Sheets
    /\ query = [where |-> NoExpr, limit |-> -1, offset |-> 0]
    /\ exec = NoPlan

\* Parse, BindSelect, PlanSelect, and Init of the executors.  Where the clause is lost
\* on the way there is no Filter.
Select(clause, limit, offset) ==
    /\ query' = [where |-> clause, limit |-> limit, offset |-> offset]
    /\ exec' = [NoPlan EXCEPT !.at = "next", !.predicate = PredicateOf(clause)]
    /\ UNCHANGED sheet

\* Limit::Next first takes the rows before the offset; then it stops at the limit
\* before it asks its child.  (Without LIMIT and OFFSET there is no Limit, and neither
\* condition holds.)
Skipping == exec.skipped < query.offset

\* Mutant: the skipped rows count
FullWithSkipped == query.limit >= 0 /\ exec.returned + exec.skipped >= query.limit

Full == query.limit >= 0 /\ exec.returned >= query.limit

Filters == exec.predicate # NoExpr

\* Filter::Next pulls a row from the scan; the outcome of the predicate is val.
Pulls(val) ==
    /\ exec.at = "next"
    /\ Skipping \/ ~Full
    /\ exec.pos <= Len(sheet)
    /\ val = IF Filters THEN ValueOn(exec.predicate, sheet[exec.pos]) ELSE Bool(TRUE)
    /\ UNCHANGED <<sheet, query>>

\* Only a true Boolean lets the row through.
Passes ==
    /\ \E val \in {Null, Bool(FALSE)} \cup {Number(n) : n \in Numbers} : Pulls(val)
    /\ exec' = [exec EXCEPT !.pos = @ + 1]

Fails == Pulls(Crash) /\ exec' = [exec EXCEPT !.at = "crashed"]

Skips ==
    /\ Pulls(Bool(TRUE))
    /\ Skipping
    /\ exec' = [exec EXCEPT !.pos = @ + 1, !.skipped = @ + 1]

Returns ==
    /\ Pulls(Bool(TRUE))
    /\ ~Skipping
    /\ exec' = [exec EXCEPT !.pos = @ + 1, !.returned = @ + 1, !.out = Append(@, exec.pos)]

\* Next of the root returns false: the limit is reached or the scan is at its end.
Ends ==
    /\ exec.at = "next"
    /\ exec.pos > Len(sheet) \/ (~Skipping /\ Full)
    /\ exec' = [exec EXCEPT !.at = "done"]
    /\ UNCHANGED <<sheet, query>>

QuerySelects ==
    /\ exec.at = "idle"
    /\ \E clause \in Clauses, limit \in Limits, offset \in Offsets : Select(clause, limit, offset)

QueryNext == Passes \/ Fails \/ Skips \/ Returns \/ Ends

QueriesSpec == QueriesInit /\ [][QuerySelects \/ QueryNext]_query_vars
-----------------------------------------------------------------------------
Chosen == {i \in DOMAIN sheet : ~Filters \/ IsTrue(ValueOn(exec.predicate, sheet[i]))}

\* How many chosen rows a scan has met once it is past row i
Rank(i) == Cardinality({j \in Chosen : j <= i})

\* Rows before the page; a negative OFFSET is none.
Before == IF query.offset < 0 THEN 0 ELSE query.offset

OnPage(r) == r > Before /\ (query.limit >= 0 => r <= Before + query.limit)

\* What a SELECT returns are the rows its plan chooses, in scan order and each once,
\* from the offset on and as many as the limit allows, so that the pages of a listing
\* tile it.
PagesTile ==
    exec.at = "done" =>
        /\ ToSet(exec.out) = {i \in Chosen : OnPage(Rank(i))}
        /\ \A m, n \in DOMAIN exec.out : m < n => exec.out[m] < exec.out[n]
=============================================================================
