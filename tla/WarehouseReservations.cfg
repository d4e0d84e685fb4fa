SPECIFICATION Spec
CONSTANTS
    Stocks <- ThreeStocks
    StockVariant <- TwoVariants
    StockWarehouse <- ThirdInA
    SortOrder <- BFirst
    Strategy = "PRIORITIZE_SORTING_ORDER"
    CollectionPoints <- NowhereElse
    InitialQuantity <- SingleUnits
    Orders <- TwoOrders
    CheckoutOrders <- TwoOrders
    Lines <- ThreeLines
    LineOrder <- TwoInFirst
    LineVariant <- SecondIsW
    ReservationsEnabled = TRUE
    ExpireBatch = 1
    EmptyAllocationsTask = FALSE
    OverlappingEdits = FALSE
    AllowExceeded = {FALSE}
    StaffQuantities = {}
    DeletableStocks = {}
    MaxQty = 2
    MaxStock = 1
    MaxCounter = 4
PROPERTIES NeverOverbooks
CHECK_DEADLOCK FALSE
