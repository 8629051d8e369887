SPECIFICATION Spec
CONSTANTS
    Printers = {p1, p2}
    COLUMNS = 3
    LINES = 2
    Glyphs <- MCGlyphs
    Vectors = {10}
    ReportHead <- MCReportHead
    Message <- MCMessage
    MaxRaces = 2
INVARIANTS
    TypeOK
    AtRest
    WritesNearScreen
    ReportReadable
PROPERTY KeepsTerminal
CHECK_DEADLOCK FALSE
