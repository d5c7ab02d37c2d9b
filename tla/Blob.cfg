SPECIFICATION Spec
CONSTANTS
    Procs = {p1, p2, p3}
    Tools = {p3}
    Keys = {k1}
    v1 = v1
    v2 = v2
    Values = {v1, v2}
    ContentType <- MCContentType
    Words <- MCWords
    Absent = Absent
    Empty = Empty
    Torn = Torn
    Unknown = Unknown
SYMMETRY Symmetry
INVARIANTS TypeOK LastChangeWhole NoStrayMetadata RetrieveReturnsStored
