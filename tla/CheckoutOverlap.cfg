SPECIFICATION Spec
CONSTANTS
    a = a
    b = b
    Checkouts = {"c"}
    Threads = {a, b}
    Flows = {"payment", "transaction"}
    UsageLimit = 1
    MaxPayments = 2
    MaxHeld = 2
    Killing = TRUE
INVARIANTS TypeOK OneOrder PaymentsAssigned VoucherHeld OrderPaid
PROPERTIES OrderKeepsPayment
CHECK_DEADLOCK FALSE
SYMMETRY ThreadSymmetry
