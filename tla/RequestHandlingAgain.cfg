SPECIFICATION Spec
CONSTANTS
    Capacity = 2
    MaxBody = 3
INVARIANTS
    CanBeCalledAgain
