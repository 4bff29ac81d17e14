\* Two users who make requests one at a time, about each other and about a third; three requests
\* are ever created.
CONSTANTS
    a = a
    b = b
    c = c
    q = q
    Users = {a, b, c}
    Requests <- OneEachForTwo
    MaxRows = 3
SPECIFICATION Spec
INVARIANTS
    TypeOK
    Answerable
PROPERTY
    KeepsRelations
\* Nothing arrives once the bound on rows is reached and all rows are gone.
CHECK_DEADLOCK FALSE
