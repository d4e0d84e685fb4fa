SPECIFICATION Spec
CONSTANTS
    Lines <- OneLine
    Ordered <- OneUnit
    Stocked <- OneUnit
    a = a
    b = b
    Staff = {a, b}
    Operations = {"OrderFulfill", "FulfillmentApprove", "FulfillmentCancel", "FulfillmentRefundProducts", "FulfillmentReturnProducts", "OrderCancel"}
    AutoApprove = FALSE
    Crashes = TRUE
    MaxFulfillments = 2
INVARIANTS TypeOK AllocationsBacked
CHECK_DEADLOCK FALSE
SYMMETRY StaffSymmetry
