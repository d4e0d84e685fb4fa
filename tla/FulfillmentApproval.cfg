SPECIFICATION Spec
CONSTANTS
    Lines <- OneLine
    Ordered <- TwoUnits
    Stocked <- TwoUnits
    Staff = {"a"}
    Operations = {"OrderFulfill", "FulfillmentApprove", "FulfillmentCancel"}
    AutoApprove = FALSE
    Crashes = FALSE
    MaxFulfillments = 5
INVARIANTS OpenUnitsAllocated StatusCurrent NoPhantomStock
CHECK_DEADLOCK FALSE
