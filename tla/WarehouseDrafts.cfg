SPECIFICATION Spec
CONSTANTS
    Stocks <- TwoStocks
    StockVariant <- OneVariant
    StockWarehouse <- TwoWarehouses
    SortOrder <- BFirst
    Strategy = "PRIORITIZE_HIGH_STOCK"
    CollectionPoints <- AnyPoint
    InitialQuantity <- TwoAndOne
    Orders <- TwoOrders
    CheckoutOrders = {}
    Lines <- TwoLines
    LineOrder <- LineEach
    LineVariant <- SameVariant
    ReservationsEnabled = FALSE
    ExpireBatch = 1
    EmptyAllocationsTask = FALSE
    OverlappingEdits = FALSE
    AllowExceeded = {FALSE, TRUE}
    StaffQuantities = {1}
    DeletableStocks = {}
    MaxQty = 2
    MaxStock = 2
    MaxCounter = 4
INVARIANTS TypeOK CounterInSync LineCovered
CHECK_DEADLOCK FALSE
