SPECIFICATION Spec
CONSTANTS
    NumPages = 5
    Anon = {o1}
    StackObj = StackObj
    ImageObj = ImageObj
    Files = {f1}
    Prots = {"r", "rw"}
    Lengths = {0, 1, 2, 3}
    MaxOffset = 0
    TableSpan = 2
    MaxMappings = 3
    Nothing = Nothing
    PageZero = PageZero
INVARIANTS
    MappingsSound
    ChangesExact
PROPERTY EntriesFollowTree
CHECK_DEADLOCK FALSE
