\* Does a PUT replace what was there?
CONSTANTS
    h1 = h1
    h2 = h2
    Handles <- MCHandles
    Other = Other
    Zero = Zero
    Absent = Absent
    Lengths = {1}
    MaxSize = 2
    MaxVersion = 0
SPECIFICATION Spec
PROPERTY PutReplacesContent
CHECK_DEADLOCK FALSE
