SPECIFICATION Spec
CONSTANTS
    Req = {"r1", "r2"}
    Product = {"A", "B"}
    Coupon = {"c"}
    NoCoupon = "none"
    Payer = {"r1"}
    ItemsOf <- MCItemsOf
    CouponOf <- MCCouponOf
    TypeOfCoupon <- MCTypeOfCoupon
    Prices <- MCPrices
    InitStocks <- MCInitStocks
    Wirings = {"AppModule", "SharedBus"}
    MaxCrashes = 1
INVARIANTS
    TypeOK
    OrderIsBacked
    CouponSpentOnceUnlessRaced
    RankingNeverOvercounts
PROPERTIES
    ExpiredOrderIsReleased
    ImplementsStockRoom
CHECK_DEADLOCK FALSE
