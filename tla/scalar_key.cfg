SPECIFICATION Spec
CONSTANTS
    None = None
    Words = {"PB.SET", "PB.GET", "k", "T", "U", "f", "x", "{}", "true", "", "/", "/f", "/f/", "//f", "/g/f", "/gf//f", "--nx", "--XX", "--ex", "--PX", "--FORMAT", "--DIR", "json", "0", "1", "2", "3", "4", "7", "8", "16", "-1", "-2", "-3", "-8", "-9", "-16", "1x"}
    Leading <- MCNumbers
    Name <- MCName
    Chars <- MCChars
    Span32 = 4
    Span64 = 16
    Second = 2
    LoadLists <- MCLoadLists
    Lists <- MCLists
    MaxCalls = 2
    MaxClock = 2
    MaxRestarts = 1
INVARIANTS
    TypeOK
    ReadsInRange
    PathIsSplit
    SetSyntaxFollowed
    NumbersInRangeKept
    ExpiryAsAsked
    ReplayRestores
PROPERTIES
    Replies
CHECK_DEADLOCK FALSE
