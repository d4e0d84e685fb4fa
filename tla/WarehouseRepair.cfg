SPECIFICATION FairSpec
CONSTANTS
    Stocks <- OneStock
    StockVariant <- StockV
    StockWarehouse <- StockA
    SortOrder <- AOnly
    Strategy = "PRIORITIZE_HIGH_STOCK"
    CollectionPoints <- NowhereElse
    InitialQuantity <- TwoUnits
    Orders <- TwoOrders
    CheckoutOrders = {}
    Lines <- TwoLines
    LineOrder <- LineEach
    LineVariant <- SameVariant
    ReservationsEnabled = FALSE
    ExpireBatch = 2
    EmptyAllocationsTask = TRUE
    OverlappingEdits = TRUE
    AllowExceeded = {FALSE}
    StaffQuantities = {}
    DeletableStocks = {1}
    MaxQty = 2
    MaxStock = 2
    MaxCounter = 2
PROPERTIES CounterRepaired NeverOversells
CHECK_DEADLOCK FALSE
