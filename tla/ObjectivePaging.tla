--------------------------- MODULE ObjectivePaging ---------------------------
(***************************************************************************)
(* EventDB::get_objectives of event-db/src/queries/event/objective.rs: one *)
(* SQL query  SELECT .. FROM objective INNER JOIN objective_category ..    *)
(* LEFT JOIN vote_options .. WHERE objective.event = $1 LIMIT $2 OFFSET $3 *)
(* and the mapping of each row to an Objective.  The query has no ORDER   *)
(* BY, so each call may see the matching rows in any order: the model     *)
(* lets the database choose the order afresh for every call.              *)
(*                                                                         *)
(* The caller is the environment: a client that pages through one event's *)
(* objectives with a fixed page size, from offset None, moving the offset  *)
(* by the page size until a page comes back short; it retries a page that  *)
(* failed and may start over when done.                                    *)
(***************************************************************************)
EXTENDS Naturals, Sequences, FiniteSets, SequencesExt, FiniteSetsExt

CONSTANTS
    Rows,        \* objective rows (model values); a row's id is the row
    Events,      \* event ids
    RowEvent,    \* RowEvent[r]: objective.event
    RowCat,      \* RowCat[r]: objective.category
    Categories,  \* the objective_category names present
    RowData,     \* RowData[r]: the nullable columns of r (see ToObjective)
    BadRows,     \* rows one of whose columns fails row.try_get
    PageSizes,   \* the limits a client pages with (None = no LIMIT)
    MaxErrors,   \* bound on failed calls in one paging session
    None,        \* Option::None of limit and offset (a model value)
    TestEvent,   \* EventId(1) of get_objectives_test
    TestObjective1, TestObjective2  \* the two objectives its seed data holds

ASSUME /\ RowEvent \in [Rows -> Events]
       /\ BadRows \subseteq Rows
       /\ \A l \in PageSizes : l = None \/ (l \in Nat /\ l > 0)
       /\ MaxErrors \in Nat

(* WHERE objective.event = $1 with the INNER JOIN on objective_category:   *)
(* an objective whose category is missing is not returned (lines 25-33)    *)
Matching(table, ev) == {r \in table : RowEvent[r] = ev /\ RowCat[r] \in Categories}

\* mutant: NULL choices are kept instead of defaulting to the empty list
ToObjectiveNoDefault(r) ==
    LET d == RowData[r]
        Str(name) == d.hasExtra /\ d.extra[name] = "str"
    IN [id           |-> r,
        reward       |-> d.currency /\ d.total,
        url          |-> Str("url"),
        supplemental |-> Str("sponsor") /\ Str("video"),
        choices      |-> IF d.choices THEN "list" ELSE "null"]

(* the row mapping (lines 55-116).  A JSON field of `extra` yields a       *)
(* string only when it is present and a JSON string (as_str); reward and  *)
(* supplemental need both parts; NULL choices become the empty list.      *)
(* The ballot is a constant and is left out.                              *)
ToObjective(r) ==
    LET d == RowData[r]
        Str(name) == d.hasExtra /\ d.extra[name] = "str"
    IN [id           |-> r,
        reward       |-> d.currency /\ d.total,
        url          |-> Str("url"),
        supplemental |-> Str("sponsor") /\ Str("video"),
        choices      |-> IF d.choices THEN "list" ELSE "empty"]

VARIABLES
    table,      \* the objective rows stored
    event,      \* the event the client pages through
    pageSize,   \* the client's limit
    offset,     \* the offset of the client's next call (None at first)
    collected,  \* the objectives the client has received in this session
    status,     \* "paging", "done", or "failed" (the client gave up)
    errors,     \* failed calls in this session
    last        \* the last call: its arguments and what it returned

vars == <<table, event, pageSize, offset, collected, status, errors, last>>

NoCall == [limit |-> None, offset |-> None, n |-> 0, ok |-> TRUE,
           objectives |-> <<>>]

Init ==
    /\ table \in SUBSET Rows
    /\ event \in Events
    /\ pageSize \in PageSizes
    /\ offset = None
    /\ collected = <<>>
    /\ status = "paging"
    /\ errors = 0
    /\ last = NoCall

-----------------------------------------------------------------------------
\* the offset $3 the query receives: offset.unwrap_or(0) (line 49)
OffsetArg(o) == IF o = None THEN 0 ELSE o

\* the offset the client passes after a page of l rows
NextOffset(o, l) == OffsetArg(o) + l

(* The rows a call returns: some order of the matching rows, of which     *)
(* LIMIT l OFFSET o are kept (LIMIT NULL keeps them all)                   *)
Page(order, l, o) ==
    LET first == OffsetArg(o) + 1
        lastIx == IF l = None THEN Len(order)
                  ELSE Min({OffsetArg(o) + l, Len(order)})
    IN SubSeq(order, first, lastIx)

\* the client's bookkeeping after a successful page
Receive(page) ==
    /\ collected' = collected \o [i \in 1..Len(page) |-> ToObjective(page[i])]
    /\ offset' = NextOffset(offset, IF pageSize = None THEN Len(page) ELSE pageSize)
    /\ status' = IF pageSize = None \/ Len(page) < pageSize THEN "done" ELSE "paging"

\* mutant: the offset parameter defaults to 1 instead of 0
GetObjectivesFromOne ==
    /\ status = "paging"
    /\ \E order \in SetToSeqs(Matching(table, event)) :
        LET o == IF offset = None THEN 1 ELSE offset
            page == Page(order, pageSize, o)
        IN /\ \A i \in 1..Len(page) : page[i] \notin BadRows
           /\ last' = [limit |-> pageSize, offset |-> offset,
                       n |-> Len(order), ok |-> TRUE,
                       objectives |-> [i \in 1..Len(page) |-> ToObjective(page[i])]]
           /\ Receive(page)
    /\ UNCHANGED <<table, event, pageSize, errors>>

(* a call that succeeds: the connection is taken from the pool, the query *)
(* runs, and every returned row maps to an Objective (lines 38-119)       *)
GetObjectives ==
    /\ status = "paging"
    /\ \E order \in SetToSeqs(Matching(table, event)) :
        LET page == Page(order, pageSize, offset)
        IN /\ \A i \in 1..Len(page) : page[i] \notin BadRows
           /\ last' = [limit |-> pageSize, offset |-> offset,
                       n |-> Len(order), ok |-> TRUE,
                       objectives |-> [i \in 1..Len(page) |-> ToObjective(page[i])]]
           /\ Receive(page)
    /\ UNCHANGED <<table, event, pageSize, errors>>

(* a call that fails: pool.get or the query fails (lines 44-51), or a row  *)
(* of the page fails row.try_get (lines 56-102) and the objectives mapped  *)
(* so far are dropped; the client keeps its offset and retries            *)
GetObjectivesError ==
    /\ status = "paging"
    /\ errors < MaxErrors
    /\ last' = [limit |-> pageSize, offset |-> offset,
                n |-> Cardinality(Matching(table, event)), ok |-> FALSE,
                objectives |-> <<>>]
    /\ errors' = errors + 1
    /\ UNCHANGED <<table, event, pageSize, offset, collected, status>>

(* a page that holds a row whose column cannot be decoded fails every time *)
GetObjectivesStuck ==
    /\ status = "paging"
    /\ errors = MaxErrors
    /\ \E order \in SetToSeqs(Matching(table, event)) :
           \E i \in 1..Len(Page(order, pageSize, offset)) :
               Page(order, pageSize, offset)[i] \in BadRows
    /\ status' = "failed"
    /\ UNCHANGED <<table, event, pageSize, offset, collected, errors, last>>

(* get_objectives_test (lines 135-292): four calls on EventId(1), each    *)
(* unwrapped and compared with assert_eq to the objectives the seed data  *)
(* holds, ordered by id                                                    *)
GetObjectivesTest ==
    << [limit |-> None, offset |-> None, expect |-> <<TestObjective1, TestObjective2>>],
       [limit |-> 1,    offset |-> None, expect |-> <<TestObjective1>>],
       [limit |-> None, offset |-> 1,    expect |-> <<TestObjective2>>],
       [limit |-> 1,    offset |-> 2,    expect |-> <<>>] >>

(* one call of the test, made beside the paging client: the test unwraps  *)
(* the result, so only a call that returns Ok is taken                    *)
TestCall ==
    \E c \in Range(GetObjectivesTest), order \in SetToSeqs(Matching(table, event)) :
        LET page == Page(order, c.limit, c.offset)
        IN /\ \A i \in 1..Len(page) : page[i] \notin BadRows
           /\ last' = [limit |-> c.limit, offset |-> c.offset,
                       n |-> Len(order), ok |-> TRUE,
                       objectives |-> [i \in 1..Len(page) |-> ToObjective(page[i])]]
           /\ UNCHANGED <<table, event, pageSize, offset, collected, status, errors>>

\* the client starts paging again
NewSession ==
    /\ status \in {"done", "failed"}
    /\ offset' = None
    /\ collected' = <<>>
    /\ status' = "paging"
    /\ errors' = 0
    /\ UNCHANGED <<table, event, pageSize, last>>

Next == GetObjectives \/ GetObjectivesError \/ GetObjectivesStuck \/ NewSession
        \/ TestCall

Spec == Init /\ [][Next]_vars

-----------------------------------------------------------------------------
Objectives == [id : Rows, reward : BOOLEAN, url : BOOLEAN,
               supplemental : BOOLEAN, choices : {"list", "empty"}]

TypeOK ==
    /\ table \subseteq Rows
    /\ offset = None \/ offset \in Nat
    /\ collected \in Seq(Objectives)
    /\ status \in {"paging", "done", "failed"}
    /\ errors \in 0..MaxErrors
    /\ last.objectives \in Seq(Objectives)

IdsOf(objs) == {objs[i].id : i \in DOMAIN objs}

(* A call without LIMIT and OFFSET that returns Ok holds every objective  *)
(* of the event whose category row exists, each once: none is skipped by  *)
(* the offset default of line 49, and none is left out by a row that      *)
(* fails try_get, since such a row fails the whole call (lines 54-117).   *)
(* The reference is the event's rows as the tables hold them, not the     *)
(* operators the call is built from.                                      *)
UnpagedCallReturnsEvent ==
    (last # NoCall /\ last.ok /\ last.limit = None /\ last.offset = None)
        => /\ IdsOf(last.objectives) =
                  {r \in table : RowEvent[r] = event /\ RowCat[r] \in Categories}
           /\ Len(last.objectives) = Cardinality(IdsOf(last.objectives))

(* On the seed data, each of get_objectives_test's calls returns what the *)
(* test asserts: the objectives of EventId(1) in id order, cut by its     *)
(* limit and offset (lines 138-290).  The query has no ORDER BY.          *)
GetObjectivesTestPasses ==
    (event = TestEvent /\ last # NoCall /\ last.ok
        /\ Matching(table, event) = {TestObjective1.id, TestObjective2.id})
    => \A c \in Range(GetObjectivesTest) :
           (c.limit = last.limit /\ c.offset = last.offset) => last.objectives = c.expect

=============================================================================
