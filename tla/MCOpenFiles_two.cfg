\* Two open files of a file of up to two bytes, under either backend.
CONSTANTS
    h1 = h1
    h2 = h2
    Handles <- MCHandles
    Other = Other
    Zero = Zero
    Absent = Absent
    Lengths = {1}
    MaxSize = 2
    MaxVersion = 1
SPECIFICATION MountSpec
SYMMETRY Symmetry
PROPERTIES OnlyOwnBytesChange WrittenBytesArrive SuccessIsFinal
CHECK_DEADLOCK FALSE
