\* get_objectives_test against the seed data it expects, beside a client
\* paging one objective at a time.
CONSTANTS
    r1 = r1  r2 = r2  r3 = r3  r4 = r4  e1 = e1  e2 = e2  c1 = c1  c2 = c2
    None = None
    TestEvent = e1
    TestObjective1 <- MCTestObjective1
    TestObjective2 <- MCTestObjective2
    Rows <- MCRows
    Events <- MCEvents
    RowEvent <- MCRowEvent
    RowCat <- MCRowCat
    Categories <- MCCategories
    RowData <- MCRowData
    BadRows <- MCBadRowsNone
    PageSizes = {1}
    MaxErrors = 0
SPECIFICATION Spec
INVARIANT GetObjectivesTestPasses
