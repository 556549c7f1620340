SPECIFICATION Spec
CONSTANTS
    None = None
    Half = 4
    Key <- MCKey
    Order <- MCOrder
    Situation <- MCSituation
    Declaration <- MCDeclaration
    Token = 7
    Length = 2
    Foreign <- MCForeign
    MaxChanges = 3
INVARIANTS TypeOK OneRecord MemoryIsTrue CutInside
PROPERTY RecordFollows
