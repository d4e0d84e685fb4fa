SPECIFICATION Spec
CONSTANTS
    Lines <- OneLine
    Ordered <- TwoUnits
    Stocked <- TwoUnits
    Staff = {"a"}
    Operations = {"OrderFulfill", "FulfillmentCancel", "FulfillmentRefundProducts", "FulfillmentReturnProducts"}
    AutoApprove = TRUE
    Crashes = FALSE
    MaxFulfillments = 4
INVARIANTS FulfilledCounted NeverOverfulfilled
CHECK_DEADLOCK FALSE
