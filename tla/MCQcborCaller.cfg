SPECIFICATION Spec
CONSTANTS
    MAX_ARRAY_NESTING = 2
    MAX_ITEMS_IN_ARRAY = 4
    MAX_ARRAY_OFFSET = 10
    CalculateSize = 1000
    Capacities = {4, 24}
    Numbers <- MCNumbers
    Strings <- MCStrings
    CommonNumber <- MCCommonNumber
    CommonString <- MCCommonString
    MaxCalls = 5
    MaxRare = 1
CHECK_DEADLOCK FALSE
INVARIANTS
    TypeOK
    StartsInOrder
    SizeCalcAgrees
    DecodesToDoc
    WrappedIsContent
