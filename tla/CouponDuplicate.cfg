SPECIFICATION Spec
CONSTANTS
    Req <- MCReq
    User <- MCUser
    Type = {"T1"}
    UserOf <- MCUserOf
    TypeOf <- MCTypeOf
    InitStock <- MCTwoUnits
    Development = FALSE
    Timed = {"T1"}
    Ticks = {0, 1}
    MaxRestarts = 0
INVARIANT OneCouponPerUser
CHECK_DEADLOCK FALSE
