SPECIFICATION Spec
CONSTANTS
    Req = {"r1", "r2", "r3", "r4"}
    User = {"u"}
    Product = {"p"}
    Tasks <- MCTasks
INVARIANTS
    TypeOK
    FreshUnlessOvertaken
    StaleHasCause
CHECK_DEADLOCK FALSE
