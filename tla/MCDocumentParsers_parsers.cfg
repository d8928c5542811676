SPECIFICATION DocSpec

CONSTANTS
    Written <- MCWritten
    Words <- MCWords
    Layouts <- MCLayouts
    Length = 4

INVARIANTS
    PricesAreOffered
    ToolsAgree

\* A document is done with.
CHECK_DEADLOCK FALSE
