SPECIFICATION ToolsSpec
CONSTANTS
    Bytes = {10, 97, 128, 255}
    MaxLen = 3
    CommandLines <- MCCommandLines
    NumberOf <- MCNumberOf
    PageSize = 2
    ListBase = 2
    PatchBase = 3
    MaxDigits = 2
    Text <- MCText
INVARIANTS
    DiffTypeOK
    ListRight
    PatchRestores
    CompareAgree
    EncodedRight
PROPERTIES
    SetSpec
