\* Any well-formed sequence of string and array instructions, two operands deep.
SPECIFICATION Spec
CONSTANTS
    Strings = {name1, name2}
    Arrays = {field}
    name1 = name1
    name2 = name2
    field = field
    Programs <- MCPrograms
    Literals <- MCLiterals
    Chars = {x, y}
    x = x
    y = y
    Elems = {1}
    Dims <- MCDims
    Indexes <- MCIndexes
    Numerals <- MCNumerals
    HostTexts <- MCHostTexts
    Counts <- MCCounts
    MaxText = 2
    Chunk = 4
    MaxAllocs = 2
INVARIANTS
    TypeOK
    NamesOwnAllocations
    ReadsBack
    OperandsKept
SYMMETRY Interchangeable
CHECK_DEADLOCK FALSE
