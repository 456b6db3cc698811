SPECIFICATION Spec
CONSTANTS
    Parts = {"formatParagraph"}
    Op = {o1, o2, o3}
    NoOp = NoOp
    Thread = {t1, t2, t3}
    CountFlag = {f1, f2}
    CountRange = 4
    MaxDepth = 2
    NDEBUG = FALSE
    Key = {k1, k2, k3}
    MapValue = {1, 2}
    Default = 1
    MaxIndex = 4
    elementCount = 3
    SumRange = 8
    Element = {0, 1, 2, 5}
    Object = {x1, x2}
    Block = {b1, b2}
    Null = Null
    Counts = {0, 1, 126, 127, 129}
    sizeof_T = 2
    sizeof_Number = 2
    align = 4
    Caller = {c1, c2}
    SystemName <- SystemNames
    MaxSuffix = 1
    MaxChanges = 1
    Second = 30
    Microsecond = 6
    MaxTime = 3
    MaxStep = 2
    Room = 3
    ByteCounts = {0, 1, 2, 4}
    MaxWrites = 2
    HasTimeOut = TRUE
    Letter = {1, 2, 3, 4}
    MaxLength = 7
    Request = {2, 7}
    SizeLimit = 6
    ByteBits = 2
    LeafLimit = 8
    WordSizes = {0, 1, 2, 3}
    MaxWords = 3
    Indents = {0, 1, 4}
    Widths = {3}
    SIZE_MAX = 255
    LineMemory = 4
    Range_uint8 = 4
    Range_signed = 8
    NumberBytes <- NumberTexts
    StringBytes <- StringTexts
    sizeof_CountType = 2
    MaxItems = 2
    MantissaDigits = 5
    ScaleUnit = 16
    NaN = NaN
    ROW_WIDTH = 3
    NUL = NUL
INVARIANT
    FormatsEveryText
CHECK_DEADLOCK FALSE
