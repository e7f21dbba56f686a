SPECIFICATION Spec
CONSTANTS
    User <- MCUser
    Order <- MCOrder
    PayReq <- MCPayReq
    ChargeReq <- MCChargeReq
    OwnerOf <- MCOwnerOf
    AmountOf <- MCAmountOf
    OrderOf <- MCOrderOf
    ChargeUser <- MCChargeUser
    ChargeAmount <- MCChargeAmount
    InitPoints <- MCInitPoints
INVARIANT FailedPaymentCanBeRetried
CHECK_DEADLOCK FALSE
