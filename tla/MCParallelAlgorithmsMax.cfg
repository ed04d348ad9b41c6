\* Scan with an operation that is not addition.
SPECIFICATION Spec
CONSTANTS
    Calls <- MaxCalls
    MaxTasks = 16
INVARIANT
    ReturnsRight
