SPECIFICATION KafkaSpec
CONSTANTS
    Msg <- MCMsg
    Req <- MCReq
    User <- MCUser
    Type = {"T1"}
    UserOf <- MCUserOf
    TypeOf <- MCTypeOf
    InitStock <- MCInitStock
    Development = FALSE
    Timed = {"T1"}
    Ticks = {1}
    MaxRestarts = 1
    MaxDeliveries = 2
    MaxErrors = 1
    MaxMishaps = 1
INVARIANTS
    KafkaTypeOK
    HolderNeverTriesAgain
    FirstComeFirstServed
    SuccessIsBacked
PROPERTY EveryRequestAnswered
CHECK_DEADLOCK FALSE
