SPECIFICATION Spec
CONSTANTS
    PageSize = 16
    Header = 8
    Word = 4
    Total = 48
    SizeT = 128
    Data = {0, 6, 18, 124, 125}
    Offsets = {0, 4}
INVARIANTS PagesExact TreeSorted AsyncAccounted
PROPERTY Undisturbed
CHECK_DEADLOCK FALSE
