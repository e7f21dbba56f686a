SPECIFICATION DeliverySpec
CONSTANTS
    User <- MCUser
    Order <- MCOrder
    PayReq <- MCPayReq
    ChargeReq <- MCChargeReq
    OwnerOf <- MCOwnerOf
    AmountOf <- MCAmountOf
    OrderOf <- MCOrderOf
    ChargeUser <- MCChargeUser
    ChargeAmount <- MCChargeAmount
    InitPoints <- MCInitPoints
    MaxMishaps = 1
INVARIANTS
    DeliveryTypeOK
    DeductedOncePerOrder
    PaidIsBacked
    ToldOnlyWhatIsPaid
PROPERTIES
    PaidOrderIsDelivered
    ImplementsLedger
CHECK_DEADLOCK FALSE
