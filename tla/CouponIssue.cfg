SPECIFICATION MCSpec
CONSTANTS
    Req <- MCReq
    User <- MCUser
    Type = {"T1"}
    UserOf <- MCUserOf
    TypeOf <- MCTypeOf
    InitStock <- MCInitStock
    Development = FALSE
    Timed = {"T1"}
    Ticks = {0, 1}
    MaxRestarts = 1
    Table = {"users", "products", "coupons"}
    Name = {"ann", "admin", "test1", "latte", "1/D10", "2/D10"}
    Writer = {"c1", "c2", "seeder", "issuer"}
    Unique = {"users"}
    MaxId = 3
    Client = {"c1", "c2"}
    Emails <- MCEmails
    Password <- MCLength
    FullName <- MCLength
    Instance = {"i1", "i2"}
    DevInstance <- MCDevInstance
    Seeds <- MCSeeds
    CouponType = {"D10"}
    TypeOfName <- MCTypeOfName
    StockTypes <- MCStockTypes
    StartStock <- MCStartStock
    MaxBoots = 2
    MaxRequests = 3
    Watched <- MCWatched
INVARIANTS
    TypesOK
    StockAccounting
    NoOversell
    SoldOutOnlyWhenAllTaken
    QueuedOnlyWhileServed
    IssuedAgrees
    OneAccountPerEmail
    InsertedRowStays
    CountersFollowSeeds
    IssuedPerBootstrap
PROPERTIES
    ImplementsQuota
    SeededRowKeepsUse
CHECK_DEADLOCK FALSE
