\* All algorithms on short ranges.
SPECIFICATION Spec
CONSTANTS
    Calls <- AllCalls
    MaxTasks = 16
INVARIANTS
    TasksApart
    EnoughTasks
    ReturnsRight
