SPECIFICATION Spec
CONSTANTS
    BufferLength = 9
    Limit <- SmallLimits
    MaxHeaders = 2
    MaxPiece = 2
    MaxMessages = 2
PROPERTIES
 FieldIsItsOwn
