SPECIFICATION FrameSpec
\* Inputs end.
CHECK_DEADLOCK FALSE
CONSTANTS
    Short = 2
    Radix = 2
    Scripts <- SomeScripts
INVARIANT LengthsAreRight
