SPECIFICATION Spec
CONSTANTS
    Stocks <- OneStock
    StockVariant <- StockV
    StockWarehouse <- StockA
    SortOrder <- AOnly
    Strategy = "PRIORITIZE_HIGH_STOCK"
    CollectionPoints <- NowhereElse
    InitialQuantity <- TwoUnits
    Orders <- TwoOrders
    CheckoutOrders <- TwoOrders
    Lines <- TwoLines
    LineOrder <- LineEach
    LineVariant <- SameVariant
    ReservationsEnabled = FALSE
    ExpireBatch = 1
    EmptyAllocationsTask = FALSE
    OverlappingEdits = FALSE
    AllowExceeded = {FALSE}
    StaffQuantities = {}
    DeletableStocks = {}
    MaxQty = 2
    MaxStock = 2
    MaxCounter = 4
PROPERTIES NeverOversells
CHECK_DEADLOCK FALSE
