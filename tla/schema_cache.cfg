CONSTANTS
    Uris = {x, y}
    Readers = {r1, r2}
    MaxEdits = 3
    Absent = Absent
SYMMETRY Interchangeable
SPECIFICATION SchemaSpec
INVARIANT AnswerFresh
CHECK_DEADLOCK FALSE
