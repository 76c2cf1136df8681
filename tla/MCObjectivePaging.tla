------------------------- MODULE MCObjectivePaging --------------------------
(* Rows, events and column values for ObjectivePaging. *)
EXTENDS ObjectivePaging

CONSTANTS r1, r2, r3, r4, e1, e2, c1, c2

MCRows == {r1, r2, r3, r4}
MCEvents == {e1, e2}
MCRowEvent == (r1 :> e1 @@ r2 :> e1 @@ r3 :> e1 @@ r4 :> e2)
\* r3's category is not in objective_category
MCRowCat == (r1 :> c1 @@ r2 :> c1 @@ r3 :> c2 @@ r4 :> c1)
MCCategories == {c1}

\* r1 has every column; r2 has a currency without total, an extra whose
\* video is a number and NULL choices; r4 has NULL extra
\* the fields of a NULL extra column are never read
NoExtra == [url |-> "absent", sponsor |-> "absent", video |-> "absent"]

MCRowData ==
    (r1 :> [currency |-> TRUE, total |-> TRUE, choices |-> TRUE,
            hasExtra |-> TRUE, extra |-> [url |-> "str", sponsor |-> "str", video |-> "str"]]
  @@ r2 :> [currency |-> TRUE, total |-> FALSE, choices |-> FALSE,
            hasExtra |-> TRUE, extra |-> [url |-> "absent", sponsor |-> "str", video |-> "num"]]
  @@ r3 :> [currency |-> FALSE, total |-> FALSE, choices |-> TRUE,
            hasExtra |-> FALSE, extra |-> NoExtra]
  @@ r4 :> [currency |-> FALSE, total |-> TRUE, choices |-> FALSE,
            hasExtra |-> FALSE, extra |-> NoExtra])

MCBadRowsNone == {}

\* the objectives get_objectives_test expects: objective 1 with reward,
\* url, sponsor and video and two choices; objective 2 with none of them
MCTestObjective1 == [id |-> r1, reward |-> TRUE, url |-> TRUE,
                     supplemental |-> TRUE, choices |-> "list"]
MCTestObjective2 == [id |-> r2, reward |-> FALSE, url |-> FALSE,
                     supplemental |-> FALSE, choices |-> "empty"]
MCBadRows == {r2}
=============================================================================
