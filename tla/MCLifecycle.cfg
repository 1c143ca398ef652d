SPECIFICATION FairLifeSpec
CONSTANTS
    Commits = {c1, c2}
    Edits = {e1}
    Handlers = {h1}
    Loop = loop
    Unreadable = unreadable
INVARIANTS
    LifeTypeOK
    ReportedIsInFile
    FileIsWhole
PROPERTIES
    OrderlyStop
    StopsInTime
    OneStepSpec
