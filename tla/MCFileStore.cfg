CONSTANTS
    Emails = {e1}
    Hashes = {h1}
    e1 = e1
    h1 = h1
    v1 = v1
    None = None
    Ok = Ok
    Absent = Absent
    Empty = Empty
    Garbled = Garbled
    Failed = Failed
    Values = {v1}
    Callers = {c1, c2}
    Requests <- OneOfEach
    Faults = {"io", "crash"}
SYMMETRY Symmetry
SPECIFICATION Spec
INVARIANTS TypeOK LockedByTheOneInside NothingLostUnharmed
PROPERTIES BrokenFileStays ImplementsAtomicStore

