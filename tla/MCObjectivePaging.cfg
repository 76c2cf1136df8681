\* get_objectives over every table of up to four rows, for both events,
\* with no limit or a limit that covers the event, with failing calls and a
\* row that cannot be decoded.
CONSTANTS
    r1 = r1  r2 = r2  r3 = r3  r4 = r4  e1 = e1  e2 = e2  c1 = c1  c2 = c2
    None = None
    TestEvent = e1
    TestObjective1 <- MCTestObjective1
    TestObjective2 <- MCTestObjective2
    Rows <- MCRows
    Events <- MCEvents
    RowEvent <- MCRowEvent
    RowCat <- MCRowCat
    Categories <- MCCategories
    RowData <- MCRowData
    BadRows <- MCBadRows
    PageSizes = {None, 2}
    MaxErrors = 1
SPECIFICATION Spec
INVARIANT TypeOK
INVARIANT UnpagedCallReturnsEvent
